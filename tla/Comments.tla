------------------------------ MODULE Comments ------------------------------
(***************************************************************************)
(* Comments, from writer-service to the index of elasticsearch-proxy.       *)
(*                                                                          *)
(* writer-service keeps the rows and announces each creation and deletion.  *)
(* In elasticsearch-proxy every topic is read by consumers of its own: two  *)
(* keep the documents of comments, two gather the counts of a post in       *)
(* double buffers and add them to its document on a timer, and those of     *)
(* posts create, replace and delete that document.  No two of them are in   *)
(* step.  The aggregators leave committing to kafkajs, which does it while  *)
(* the counts are still buffered (autoCommit is on by default).             *)
(*                                                                          *)
(* An id stands for what never changes of a comment: its author and post.   *)
(* Consumers meet only in the documents, so a scene may leave some of them  *)
(* out to look at the others.                                               *)
(***************************************************************************)
EXTENDS Integers, FiniteSets

CONSTANTS
  User, Post, Comment,
  PostAuthor,     \* the author of each post
  CommentAuthor,  \* the author
  PostOf,         \*   and the post of each comment
  Scene           \* what is looked at together: consumers, comments and verdicts,
                  \*   and the bound on restarts, lost events and failing calls

ASSUME CommentsAssumption ==
  /\ PostAuthor \in [Post -> User] /\ CommentAuthor \in [Comment -> User]
  /\ PostOf \in [Comment -> Post]
  /\ \A s \in Scene : s.comments \subseteq Comment /\ s.faults \in Nat

\* Of the consumers that keep the same documents, a scene leaves out none but
\* those whose part in them it does not look at.
ASSUME SceneAssumption ==
  \A s \in Scene :
    /\ "indexCreated" \in s.consumers => "indexDeleted" \in s.consumers
    /\ "countCreated" \in s.consumers => "countDeleted" \in s.consumers
    /\ "noticeLiked" \in s.consumers => "noticeUnliked" \in s.consumers
    /\ {"noticeCreated", "noticeLiked"} \cap s.consumers # {} =>
         {"noticeDeleted", "noticePost"} \subseteq s.consumers

VARIABLES
  posts,      \* writer-service: posts
  comments,   \*   and comments
  born,       \*   comments ever created
  asked,      \*   createComment handlers that found the post
  clearing,   \*   posts deleted whose comments are not, yet
  judged,     \* the verdict each post got, "pending" before
  scene,
  inbox,      \* per consumer, the events not handled yet
  done,       \*   and those handled
  doc,        \* elasticsearch: posts,
  index,      \*   and comments
  active,     \* per aggregator, the counts gathered
  flushing,   \*   and those on their way to Elasticsearch
  slack,      \* history: by how much known mishaps may have put a count off
  raced,      \* history: comments under creation when their post was deleted
  uncleared,  \* history: posts deleted whose comments were left, as that call failed
  troubled,   \* history: comments whose events were lost, repeated or overtaken
  faults

writer == <<posts, comments, born, asked, clearing, judged>>
buffers == <<active, flushing>>
documents == <<doc, index>>
histories == <<raced, uncleared>>
cvars == <<writer, scene, inbox, done, documents, buffers, slack, histories, troubled, faults>>

Aggregator == {"countCreated", "countDeleted"}
Reads ==
  [indexPost |-> {"postCreated", "postJudged", "postDeleted"},
   indexCreated |-> {"created"},  indexDeleted |-> {"deleted"},
   countCreated |-> {"created"},  countDeleted |-> {"deleted"},
   noticeCreated |-> {"created"}, noticeDeleted |-> {"deleted"},
   noticePost |-> {"postDeleted"}, noticeJudged |-> {"postJudged"},
   noticeLiked |-> {"liked"}, noticeUnliked |-> {"unliked"}]
Consumer == DOMAIN Reads
Proxy == {"indexPost", "indexCreated", "indexDeleted", "countCreated", "countDeleted"}

None == [version |-> 0, count |-> 0]
About(kind, id) == [kind |-> kind, id |-> id]

CommentsOf(p) == {c \in Comment : PostOf[c] = p}
Judgement == {"ok", "notAppropriate", "failed"}

Init ==
  /\ scene \in Scene
  /\ posts = Post /\ comments = {} /\ born = {} /\ asked = {} /\ clearing = {}
  /\ judged = [p \in Post |-> "pending"]
  /\ inbox = [s \in Consumer |->
                IF s = "indexPost" THEN {About("postCreated", p) : p \in Post} ELSE {}]
  /\ done = [s \in Consumer |-> {}]
  /\ doc = [p \in Post |-> None] /\ index = {}
  /\ active   = [a \in Aggregator |-> [p \in Post |-> 0]]
  /\ flushing = [a \in Aggregator |-> [p \in Post |-> 0]]
  /\ slack = [p \in Post |-> 0]
  /\ raced = {} /\ uncleared = {} /\ troubled = {}
  /\ faults = 0

Fault == faults < scene.faults /\ faults' = faults + 1

\* What happened to events of these comments may have put counts and documents off.
Disturbed(cs) ==
  /\ troubled' = troubled \cup cs
  /\ slack' = [p \in Post |-> slack[p] + Cardinality(cs \cap CommentsOf(p))]

\* Delivered to every consumer of the topic; without an ack there is but a
\* warning, and the event may be lost.
Publish(e) ==
  inbox' = [s \in Consumer |-> inbox[s] \cup
              IF s \in scene.consumers /\ e.kind \in Reads[s] THEN {e} ELSE {}]

Handled(s, e) ==
  /\ inbox' = [inbox EXCEPT ![s] = @ \ {e}]
  /\ done'  = [done EXCEPT ![s] = @ \cup {e}]

Waits(s, kind, id) == About(kind, id) \in inbox[s]

\* No consumer has an event about the comment (or its post's creation) to handle.
ConcernsComment(e, c) == e.id = c \/ e.id \in User \X {c}
Unhandled(c) == \E s \in scene.consumers : \E e \in inbox[s] : ConcernsComment(e, c)

----------------------------------------------------------------------------
(* writer-service                                                           *)

ExistsAlways(p) == TRUE          \* slip: the post is not looked up
Exists(p) == p \in posts

\* createComment, up to the answer about the post.
AskForPost(c) ==
  /\ c \in scene.comments \ (born \cup asked)
  /\ Exists(PostOf[c])
  /\ asked' = asked \cup {c}
  /\ UNCHANGED <<posts, comments, born, clearing, judged, scene, inbox, done,
                 documents, buffers, slack, histories, troubled, faults>>

CreateRow(c) == comments' = comments \cup {c} /\ born' = born \cup {c}

CreateComment(c) ==
  /\ c \in asked
  /\ asked' = asked \ {c}
  /\ CreateRow(c)
  /\ \/ Publish(About("created", c)) /\ UNCHANGED <<slack, troubled, faults>>
     \/ Fault /\ Disturbed({c}) /\ UNCHANGED inbox
  /\ UNCHANGED <<posts, clearing, judged, scene, done, documents, buffers, histories>>

\* findOneAndDelete by author and id.
DeleteRow(c) == c \in comments /\ comments' = comments \ {c}

DeleteComment(c) ==
  /\ DeleteRow(c)
  /\ \/ /\ Publish(About("deleted", c))
        /\ troubled' = troubled \cup IF Unhandled(c) THEN {c} ELSE {}
        /\ UNCHANGED <<slack, faults>>
     \/ Fault /\ Disturbed({c}) /\ UNCHANGED inbox
  /\ UNCHANGED <<posts, born, asked, clearing, judged, scene, done, documents,
                 buffers, histories>>

\* setModeration, and POST_MODERATION_COMPLETED.
JudgePost(p, verdict) ==
  /\ p \in posts /\ judged[p] = "pending"
  /\ verdict \in scene.verdicts
  /\ judged' = [judged EXCEPT ![p] = verdict]
  /\ Publish(About("postJudged", p))
  /\ UNCHANGED <<posts, comments, born, asked, clearing, scene, done, documents,
                 buffers, slack, histories, troubled, faults>>

\* Its comments go once the event has been sent, without events of their own, and
\* not if the process dies before that.
DeletePost(p) ==
  /\ p \in posts
  /\ posts' = posts \ {p}
  /\ LET hasty == {c \in CommentsOf(p) : c \in asked \/ Unhandled(c)} IN
     \/ /\ Publish(About("postDeleted", p))
        /\ troubled' = troubled \cup hasty \cup
             IF Waits("indexPost", "postCreated", p) THEN CommentsOf(p) ELSE {}
        /\ clearing' = clearing \cup {p}
        /\ UNCHANGED <<uncleared, slack, faults>>
     \/ /\ Fault /\ Disturbed(CommentsOf(p)) /\ UNCHANGED inbox
        /\ \/ clearing' = clearing \cup {p} /\ UNCHANGED uncleared
           \/ uncleared' = uncleared \cup {p} /\ UNCHANGED clearing
  /\ raced' = raced \cup (asked \cap CommentsOf(p))
  /\ UNCHANGED <<comments, born, asked, judged, scene, done, documents, buffers>>

\* deleteMany
WithoutRowsOf(p) == comments \ CommentsOf(p)

DeleteAllPostComments(p) ==
  /\ p \in clearing
  /\ clearing' = clearing \ {p}
  /\ comments' = WithoutRowsOf(p)
  /\ UNCHANGED <<posts, born, asked, judged, scene, inbox, done, documents, buffers,
                 slack, histories, troubled, faults>>

\* MongoDB does not answer, or the process dies: nobody calls it again, as a second
\* deletion finds no post.
ClearingFails(p) ==
  /\ p \in clearing /\ Fault
  /\ clearing' = clearing \ {p}
  /\ uncleared' = uncleared \cup {p}
  /\ UNCHANGED <<posts, comments, born, asked, judged, scene, inbox, done, documents,
                 buffers, slack, raced, troubled>>

----------------------------------------------------------------------------
(* elasticsearch-proxy: documents                                           *)

Size(n) == IF n < 0 THEN - n ELSE n

VersionOf(e) == IF e.kind = "postCreated" THEN 1 ELSE 2

Indexed(p) == doc[p].version                 \* getUpdatedAt
NewDocument(e) == [version |-> VersionOf(e), count |-> 0]
WithoutPost(p) == [doc EXCEPT ![p] = None]

\* Post.services.ts upsert: creating and replacing set commentCount to 0,
\* whatever was counted before.
Written(e, found) ==
  IF VersionOf(e) > found
  THEN /\ doc' = [doc EXCEPT ![e.id] = NewDocument(e)]
       /\ slack' = [slack EXCEPT ![e.id] = @ + Size(doc[e.id].count)]
  ELSE UNCHANGED <<doc, slack>>

\* Any error response of getUpdatedAt is taken for "no document".
UpsertPost(e) ==
  /\ e \in inbox["indexPost"] /\ e.kind # "postDeleted"
  /\ \/ Written(e, Indexed(e.id)) /\ UNCHANGED faults
     \/ Written(e, 0) /\ Fault
  /\ Handled("indexPost", e)
  /\ UNCHANGED <<writer, scene, index, buffers, histories, troubled>>

\* deleteByQuery
WithoutCommentsOf(p) == index \ CommentsOf(p)

\* The post, then its comments.
DeletePostDocument(e) ==
  /\ e \in inbox["indexPost"] /\ e.kind = "postDeleted"
  /\ doc' = WithoutPost(e.id)
  /\ index' = WithoutCommentsOf(e.id)
  /\ Handled("indexPost", e)
  /\ UNCHANGED <<writer, scene, buffers, slack, histories, troubled, faults>>

\* Elasticsearch does not answer: a log entry, perhaps between the two deletions.
IndexPostFails(e) ==
  /\ e \in inbox["indexPost"] /\ Fault
  /\ \/ UNCHANGED doc
     \/ e.kind = "postDeleted" /\ doc' = WithoutPost(e.id)
  /\ Handled("indexPost", e)
  /\ UNCHANGED <<writer, scene, index, buffers, slack, histories, troubled>>

IsIndexed(c) == c \in index                   \* getUpdatedAt
\* A document that is there is left alone.
WithComment(c) == IF IsIndexed(c) THEN index ELSE index \cup {c}

UpsertComment(e) ==
  /\ e \in inbox["indexCreated"]
  /\ index' = WithComment(e.id)
  /\ Handled("indexCreated", e)
  /\ UNCHANGED <<writer, scene, doc, buffers, slack, histories, troubled, faults>>

NothingDeleted(c) == index      \* slip: event.id for event.payload.id
DeleteById(c) == index \ {c}

DeleteCommentDocument(e) ==
  /\ e \in inbox["indexDeleted"]
  /\ index' = DeleteById(e.id)
  /\ Handled("indexDeleted", e)
  /\ UNCHANGED <<writer, scene, doc, buffers, slack, histories, troubled, faults>>

\* Elasticsearch does not answer: a log entry.
IndexFails(s, e) ==
  /\ s \in {"indexCreated", "indexDeleted"} /\ e \in inbox[s] /\ Fault
  /\ Handled(s, e) /\ Disturbed({e.id})
  /\ UNCHANGED <<writer, scene, documents, buffers, histories>>

----------------------------------------------------------------------------
(* elasticsearch-proxy: counts                                              *)

Step(a) == IF a = "countCreated" THEN 1 ELSE -1

Gather(a, p) == active[a][p] + Step(a)

EachMessage(a, e) ==
  /\ e \in inbox[a]
  /\ LET p == PostOf[e.id] IN active' = [active EXCEPT ![a][p] = Gather(a, p)]
  /\ Handled(a, e)
  /\ UNCHANGED <<writer, scene, documents, flushing, slack, histories, troubled, faults>>

Empty == [p \in Post |-> 0]

RotateUnguarded(a) ==        \* slip: rotates although a flush is under way
  /\ active[a] # Empty
  /\ flushing' = [flushing EXCEPT ![a] = active[a]]
  /\ active'   = [active EXCEPT ![a] = Empty]
  /\ UNCHANGED <<writer, scene, inbox, done, documents, slack, histories, troubled, faults>>
\* rotateAndflushBatch, as the timer or a full buffer has it begin.
Rotate(a) ==
  /\ active[a] # Empty /\ flushing[a] = Empty
  /\ flushing' = [flushing EXCEPT ![a] = active[a]]
  /\ active'   = [active EXCEPT ![a] = flushing[a]]
  /\ UNCHANGED <<writer, scene, inbox, done, documents, slack, histories, troubled, faults>>

\* bulkUpdateCommentsCount: an item fails if its document is not there, or was just
\* written by another (retry_on_conflict is not set).  The answers of the items are
\* not read, and the batch counts as written.
Flush(a) ==
  /\ flushing[a] # Empty
  /\ \E conflicts \in SUBSET Post :
       LET failed == conflicts \cup {p \in Post : doc[p] = None} IN
       /\ doc' = [p \in Post |-> IF p \in failed THEN doc[p]
                                 ELSE [doc[p] EXCEPT !.count = @ + flushing[a][p]]]
       /\ slack' = [p \in Post |-> slack[p] + IF p \in failed THEN Size(flushing[a][p]) ELSE 0]
  /\ flushing' = [flushing EXCEPT ![a] = Empty]
  /\ UNCHANGED <<writer, scene, inbox, done, index, active, histories, troubled, faults>>

\* No ack: the batch is cleared all the same, its events are passed.
FlushFails(a) ==
  /\ flushing[a] # Empty /\ Fault
  /\ slack' = [p \in Post |-> slack[p] + Size(flushing[a][p])]
  /\ flushing' = [flushing EXCEPT ![a] = Empty]
  /\ UNCHANGED <<writer, scene, inbox, done, documents, active, histories, troubled>>

Buffered(a, p) == Size(active[a][p]) + Size(flushing[a][p])

\* The process restarts.  Offsets are committed as messages are read: the
\* buffers are lost, and something that was handled may come again.
ProxyRestarts ==
  /\ Fault
  /\ \E s \in scene.consumers \cap Proxy, again \in {{}} \cup {{e} : e \in UNION {done[r] : r \in Proxy}} :
       /\ again \subseteq done[s]
       /\ inbox' = [inbox EXCEPT ![s] = @ \cup again]
       /\ done'  = [done EXCEPT ![s] = @ \ again]
       /\ LET cs == {e.id : e \in again} \cap Comment IN
          /\ troubled' = troubled \cup cs
          /\ slack' = [p \in Post |-> slack[p]
                         + Buffered("countCreated", p) + Buffered("countDeleted", p)
                         + Cardinality(cs \cap CommentsOf(p))]
  /\ active'   = [a \in Aggregator |-> Empty]
  /\ flushing' = [a \in Aggregator |-> Empty]
  /\ UNCHANGED <<writer, scene, documents, histories>>

----------------------------------------------------------------------------
WriterStep ==
  \/ \E c \in Comment : AskForPost(c) \/ CreateComment(c) \/ DeleteComment(c)
  \/ \E p \in Post : DeletePost(p) \/ DeleteAllPostComments(p) \/ ClearingFails(p)
  \/ \E p \in Post, verdict \in Judgement : JudgePost(p, verdict)

CountCreated ==
  \/ \E e \in inbox["countCreated"] : EachMessage("countCreated", e)
  \/ Rotate("countCreated") \/ Flush("countCreated") \/ FlushFails("countCreated")
CountDeleted ==
  \/ \E e \in inbox["countDeleted"] : EachMessage("countDeleted", e)
  \/ Rotate("countDeleted") \/ Flush("countDeleted") \/ FlushFails("countDeleted")

ProxyStep ==
  \/ \E e \in inbox["indexPost"] : UpsertPost(e) \/ DeletePostDocument(e) \/ IndexPostFails(e)
  \/ \E e \in inbox["indexCreated"] : UpsertComment(e)
  \/ \E e \in inbox["indexDeleted"] : DeleteCommentDocument(e)
  \/ CountCreated \/ CountDeleted
  \/ \E s \in Consumer : \E e \in inbox[s] : IndexFails(s, e)
  \/ ProxyRestarts

Next == WriterStep \/ ProxyStep

Spec == Init /\ [][Next]_cvars

----------------------------------------------------------------------------

\* CommentServices.ts:30 asks for the post and creates the comment later, and
\* Post.controller.ts:103 deletes the comments of a post after the post.  A comment
\* that is left behind without one was asked for when the post was deleted, or the
\* latter call never came to its end.
OrphansAreExplained ==
  \A c \in comments \ raced : PostOf[c] \in posts \cup clearing \cup uncleared

\* A comment that can be seen on a post is one its database has, and the
\* reverse, as soon as its events are handled: if none of them was lost,
\* repeated or overtaken by the deletion.
IndexMirrorsComments ==
  "indexCreated" \in scene.consumers =>
    \A c \in Comment \ troubled : PostOf[c] \in posts =>
      /\ c \in comments => c \in index \/ Waits("indexCreated", "created", c)
      /\ c \in index \ comments => Waits("indexDeleted", "deleted", c)

\* Though creations and deletions reach a post's commentCount through two
\* double buffers, it is at every moment, with what is still on its way, as far
\* from the number of comments as the known mishaps allow, and no farther: a
\* lost or repeated event, a failed bulk update or a conflict of one of its items,
\* counts buffered at a restart, counted without a document, or reset by a verdict
\* or after a read that failed.
Pending(a, p) ==
  Step(a) * Cardinality({e \in inbox[a] : PostOf[e.id] = p}) + active[a][p] + flushing[a][p]
OnTheWay(p) == Pending("countCreated", p) + Pending("countDeleted", p)
CountsWithinSlack ==
  "countCreated" \in scene.consumers =>
    \A p \in posts :
      Size(doc[p].count + OnTheWay(p) - Cardinality(comments \cap CommentsOf(p))) <= slack[p]
============================================================================
