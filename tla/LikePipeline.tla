---------------------------- MODULE LikePipeline ----------------------------
(***************************************************************************)
(* Likes in writer-service, end to end.  A like or unlike click becomes a   *)
(* request on one of two topics; the like and unlike workers turn batches   *)
(* of requests into rows of the likes collection and announce each row that *)
(* really appeared or vanished; from those events the count worker keeps    *)
(* comment.likeCount and two more workers keep comment.likedByPostAuthor.   *)
(* An unlike lowers the count itself, in the transaction that deletes the   *)
(* row; a like raises it a topic later.                                     *)
(*                                                                          *)
(* Each worker is the consumer AckedConsumer describes (BatchWorker shows   *)
(* it for the batching ones): it takes messages not yet acknowledged, works *)
(* through stages, and after a crash gets again what it had not             *)
(* acknowledged.  The number of partitions is not in the code, so messages  *)
(* of one topic may be taken in any order.                                  *)
(***************************************************************************)
EXTENDS Integers, FiniteSets

CONSTANTS
  Author,       \* users who like comments
  Comment,      \* comment ids
  PostAuthor,   \* the author of the comments' post
  OwnComment,   \* comments the post's author wrote
  Bound         \* what to look at: which workers, and bounds of requests,
                \* deletions, and faults (crashes, failing writes, publishes
                \* without an ack)

ASSUME LikePipelineAssumption ==
  /\ OwnComment \subseteq Comment
  /\ \A b \in Bound : {b.requests, b.deletions, b.faults} \subseteq Nat

Key     == Author \X Comment        \* unique index of the likes collection
Message == [key : Key, n : Nat \ {0}]
Worker  == {"like", "unlike", "count", "flag", "unflag"}
Topic   == {"likeRequest", "unlikeRequest", "liked", "unliked"}
Source  == [like |-> "likeRequest", unlike |-> "unlikeRequest",
            count |-> "liked", flag |-> "liked", unflag |-> "unliked"]

VARIABLES
  bound,       \* what is looked at, and how much of it
  comments,    \* comments that have not been deleted
  likes,       \* the likes collection
  likeCount,   \* comment.likeCount
  flagged,     \* comments whose likedByPostAuthor is set
  announced,   \* comments with a COMMENT_LIKED_BY_POST_AUTHOR event
  sent,        \* per topic, the messages published to it
  batch,       \* per worker, the messages it is working on
  stage,       \* per worker, the step it is at
  outbox,      \* per worker, the keys whose events it has yet to publish
  acked,       \* per worker, the messages its committed offsets cover
  passed,      \* per worker, messages it is done with but has not committed
  hasty,       \* history: keys clicked again before the clicks before were handled
  crashes,
  failures     \* failing writes and publishes without an ack

vars == <<bound, comments, likes, likeCount, flagged, announced, sent, batch, stage,
          outbox, acked, passed, hasty, crashes, failures>>
store   == <<comments, likes, likeCount, flagged>>
offsets == <<acked, passed, hasty>>
work    == <<batch, stage, outbox>>
faults  == <<crashes, failures>>
Faultless == crashes + failures = 0

KeysOf(messages) == {m.key : m \in messages}
About(messages, k) == {m \in messages : m.key = k}
OnComment(keys, c) == {k \in keys : k[2] = c}

Requests(k) == About(sent["likeRequest"] \cup sent["unlikeRequest"], k)
Handled(m)  == \E w \in {"like", "unlike"} : m \in acked[w]
Waiting(w)  == sent[Source[w]] \ (acked[w] \cup passed[w] \cup batch[w])

----------------------------------------------------------------------------
Init ==
  /\ bound \in Bound
  /\ comments  = Comment
  /\ likes     = {}
  /\ likeCount = [c \in Comment |-> 0]
  /\ flagged   = {}
  /\ announced = {}
  /\ sent      = [t \in Topic |-> {}]
  /\ batch     = [w \in Worker |-> {}]
  /\ stage     = [w \in Worker |-> "idle"]
  /\ outbox    = [w \in Worker |-> {}]
  /\ acked     = [w \in Worker |-> {}]
  /\ passed    = [w \in Worker |-> {}]
  /\ hasty     = {}
  /\ crashes   = 0
  /\ failures  = 0

\* addCommentLikeRequest and commnetUnlikeRequest; n is the user's n-th click.
Request(topic, k) ==
  /\ Cardinality(sent["likeRequest"] \cup sent["unlikeRequest"]) < bound.requests
  /\ sent' = [sent EXCEPT ![topic] =
                @ \cup {[key |-> k, n |-> Cardinality(Requests(k)) + 1]}]
  /\ hasty' = IF \A m \in Requests(k) : Handled(m) THEN hasty ELSE hasty \cup {k}
  /\ UNCHANGED <<store, announced, work, acked, passed, faults>>

\* deleteComment leaves the likes of the comment where they are.
DeleteComment(c) ==
  /\ c \in comments
  /\ Cardinality(Comment \ comments) < bound.deletions
  /\ comments' = comments \ {c}
  /\ flagged'  = flagged \ {c}
  /\ UNCHANGED <<likes, likeCount, announced, sent, work, offsets, faults>>

Fault ==
  /\ crashes + failures < bound.faults
  /\ failures' = failures + 1
  /\ UNCHANGED crashes

\* The batching workers swap in what they gathered; the other two are given
\* one message at a time.
Take(w) ==
  /\ w \in bound.workers
  /\ stage[w] = "idle"
  /\ \E taken \in SUBSET Waiting(w) :
       /\ taken # {}
       /\ w \in {"flag", "unflag"} => Cardinality(taken) = 1
       /\ batch' = [batch EXCEPT ![w] = taken]
  /\ stage' = [stage EXCEPT ![w] = "write"]
  /\ UNCHANGED <<store, announced, sent, outbox, offsets, faults>>

\* The worker's write went through: it goes on to publish what it must.
Publishing(w, keys) ==
  /\ stage'  = [stage EXCEPT ![w] = "publish"]
  /\ outbox' = [outbox EXCEPT ![w] = keys]
  /\ UNCHANGED <<announced, sent, batch, offsets, faults>>

\* A throw drops the batch: it is not committed, but it is not read again
\* either until the consumer restarts, and a later commit may cover it.
Drop(w) ==
  /\ batch'  = [batch EXCEPT ![w] = {}]
  /\ stage'  = [stage EXCEPT ![w] = "idle"]
  /\ passed' = [passed EXCEPT ![w] = @ \cup batch[w]]
  /\ UNCHANGED <<announced, sent, outbox, acked, hasty>>

AnnouncedAgain(keys) == keys   \* slip: duplicates count as inserted
NewLikes(keys) == keys \ likes

InsertLikes ==
  /\ stage["like"] = "write"
  /\ LET inserted == NewLikes(KeysOf(batch["like"]))
     IN  /\ likes' = likes \cup inserted
         /\ Publishing("like", inserted)
  /\ UNCHANGED <<comments, likeCount, flagged>>

\* insertMany fails with more than duplicates: whatever it had inserted stays.
InsertFails ==
  /\ stage["like"] = "write"
  /\ Fault
  /\ \E inserted \in SUBSET KeysOf(batch["like"]) : likes' = likes \cup inserted
  /\ Drop("like")
  /\ UNCHANGED <<comments, likeCount, flagged>>

Lowered(keys) ==
  [c \in Comment |-> IF c \in comments
                     THEN likeCount[c] - Cardinality(OnComment(keys, c))
                     ELSE likeCount[c]]

FoundOrAsked(keys) == keys     \* slip: likesFound is not consulted
Found(keys) == keys \cap likes

\* The transaction: find, deleteMany, $inc by minus the number found.
DeleteLikes ==
  /\ stage["unlike"] = "write"
  /\ LET found == Found(KeysOf(batch["unlike"]))
     IN  /\ likes' = likes \ found
         /\ likeCount' = Lowered(found)
         /\ Publishing("unlike", found)
  /\ UNCHANGED <<comments, flagged>>

\* The transaction aborts (a concurrent $inc of the count worker on the same
\* comment is enough: write conflicts are not retried), or its commit went
\* through and the reply was lost.
DeleteFails ==
  /\ stage["unlike"] = "write"
  /\ Fault
  /\ \E found \in {{}, Found(KeysOf(batch["unlike"]))} :
       /\ likes' = likes \ found
       /\ likeCount' = Lowered(found)
  /\ Drop("unlike")
  /\ UNCHANGED <<comments, flagged>>

RaisedDownwards(events) ==   \* slip: the sign of the unlike worker's $inc
  [c \in Comment |-> likeCount[c] - Cardinality({m \in events : m.key[2] = c})]

Raised(events) ==
  [c \in Comment |-> IF c \in comments
                     THEN likeCount[c] + Cardinality({m \in events : m.key[2] = c})
                     ELSE likeCount[c]]

AddToCounts ==
  /\ stage["count"] = "write"
  /\ likeCount' = Raised(batch["count"])
  /\ Publishing("count", {})
  /\ UNCHANGED <<comments, likes, flagged>>

\* The bulk write, or the find after it, rejects.
AddToCountsFails ==
  /\ stage["count"] = "write"
  /\ Fault
  /\ \E done \in SUBSET Comment :
       likeCount' = Raised({m \in batch["count"] : m.key[2] \in done})
  /\ Drop("count")
  /\ UNCHANGED <<comments, likes, flagged>>

\* slip: the second half of the condition is not negated
ConcernedOwn(w) ==
  {k \in KeysOf(batch[w]) : k[1] = PostAuthor /\ k[2] \in comments \cap OwnComment}

\* setCommentLikedByPostAuthor: what it read of post and comment never
\* changes, and a comment deleted meanwhile is not found by the update.
Concerned(w) ==
  {k \in KeysOf(batch[w]) : /\ k[1] = PostAuthor
                            /\ k[2] \in comments \ OwnComment}

SetFlag ==
  /\ stage["flag"] = "write"
  /\ flagged' = flagged \cup {k[2] : k \in Concerned("flag")}
  /\ Publishing("flag", Concerned("flag"))
  /\ UNCHANGED <<comments, likes, likeCount>>

ClearFlag ==
  /\ stage["unflag"] = "write"
  /\ flagged' = flagged \ {k[2] : k \in Concerned("unflag")}
  /\ Publishing("unflag", {})
  /\ UNCHANGED <<comments, likes, likeCount>>

FlagFails(w) ==
  /\ stage[w] = "write"
  /\ Fault
  /\ Drop(w)
  /\ UNCHANGED store

\* One of the concurrent sends of COMMENT_LIKED or COMMENT_UNLIKED.
Announce(w, topic, k) ==
  /\ k \in outbox[w]
  /\ outbox' = [outbox EXCEPT ![w] = @ \ {k}]
  /\ sent' = [sent EXCEPT ![topic] =
                @ \cup {[key |-> k, n |-> Cardinality(About(@, k)) + 1]}]
  /\ UNCHANGED <<store, announced, batch, stage, offsets, faults>>

AnnounceLiked(k)   == Announce("like", "liked", k)
AnnounceUnliked(k) == Announce("unlike", "unliked", k)

AnnounceToPostAuthor(k) ==
  /\ k \in outbox["flag"]
  /\ outbox' = [outbox EXCEPT !["flag"] = @ \ {k}]
  /\ announced' = announced \cup {k[2]}
  /\ UNCHANGED <<store, sent, batch, stage, offsets, faults>>

\* send resolves to { ack: false }: at best that is logged.
NoAck(w, k) ==
  /\ k \in outbox[w]
  /\ Fault
  /\ outbox' = [outbox EXCEPT ![w] = @ \ {k}]
  /\ UNCHANGED <<store, announced, sent, batch, stage, offsets>>

AckFirst(w) ==                            \* slip: commit before the write
  stage[w] \in {"write", "publish"} /\ outbox[w] = {}
Finished(w)    == stage[w] = "publish" /\ outbox[w] = {}

\* commitOffsets for the batching workers.
Acknowledge(w) ==
  /\ w \in {"like", "unlike", "count"}
  /\ Finished(w)
  /\ batch' = [batch EXCEPT ![w] = {}]
  /\ stage' = [stage EXCEPT ![w] = "idle"]
  /\ acked' = [acked EXCEPT ![w] = @ \cup batch[w]]
  /\ UNCHANGED <<store, announced, sent, outbox, passed, hasty, faults>>

\* eachMessage returns; kafkajs commits the offset at some later point.
Return(w) ==
  /\ w \in {"flag", "unflag"}
  /\ Finished(w)
  /\ Drop(w)
  /\ UNCHANGED <<store, faults>>

\* The process, with all five workers in it, is restarted.  Of the messages
\* passed, those no commit has covered are delivered again.
Crash ==
  /\ crashes + failures < bound.faults
  /\ crashes' = crashes + 1
  /\ \E again \in [Worker -> SUBSET (UNION {passed[w] : w \in Worker})] :
       /\ \A w \in Worker : again[w] \subseteq passed[w]
       /\ acked' = [w \in Worker |-> acked[w] \cup (passed[w] \ again[w])]
  /\ passed' = [w \in Worker |-> {}]
  /\ batch'  = [w \in Worker |-> {}]
  /\ stage'  = [w \in Worker |-> "idle"]
  /\ outbox' = [w \in Worker |-> {}]
  /\ UNCHANGED <<store, announced, sent, hasty, failures>>

Click == \E t \in {"likeRequest", "unlikeRequest"}, k \in Key : Request(t, k)

WorkerStep(w) ==
  \/ Take(w) \/ Acknowledge(w) \/ Return(w)
  \/ w = "like"   /\ (InsertLikes \/ \E k \in Key : AnnounceLiked(k))
  \/ w = "unlike" /\ (DeleteLikes \/ \E k \in Key : AnnounceUnliked(k))
  \/ w = "count"  /\ AddToCounts
  \/ w = "flag"   /\ (SetFlag \/ \E k \in Key : AnnounceToPostAuthor(k))
  \/ w = "unflag" /\ ClearFlag

Failure ==
  \/ InsertFails \/ DeleteFails \/ AddToCountsFails
  \/ \E w \in {"flag", "unflag"} : FlagFails(w)
  \/ \E w \in Worker, k \in Key : NoAck(w, k)
  \/ Crash

Next ==
  /\ \/ Click
     \/ \E c \in Comment : DeleteComment(c)
     \/ \E w \in Worker : WorkerStep(w)
     \/ Failure
  /\ UNCHANGED bound

\* The timers and kafkajs keep every worker going.
Spec     == Init /\ [][Next]_vars
FairSpec == Spec /\ \A w \in Worker : WF_vars(WorkerStep(w) /\ UNCHANGED bound)

----------------------------------------------------------------------------
\* COMMENT_LIKED events the count worker has not added yet.
Uncounted ==
  sent["liked"] \ (acked["count"] \cup passed["count"]
                     \cup IF stage["count"] = "publish" THEN batch["count"] ELSE {})

\* While nothing fails, the like count of a comment, together with the events
\* still on their way to it, is the number of its rows in the likes
\* collection, although likes and unlikes reach it along different routes.
\* Failing writes and lost events leave it too low, never too high: only a
\* restart, which repeats $inc, can make it exceed the rows there are.
OnTheWay(c) == Cardinality({m \in Uncounted : m.key[2] = c})
                 + Cardinality(OnComment(outbox["like"], c))
CountsAgree ==
  crashes = 0 => \A c \in comments :
    /\ likeCount[c] + OnTheWay(c) <= Cardinality(OnComment(likes, c))
    /\ Faultless => likeCount[c] + OnTheWay(c) = Cardinality(OnComment(likes, c))

\* While nothing fails, the COMMENT_LIKED and COMMENT_UNLIKED events of a user
\* and a comment (published, or about to be) tell whether the like is there:
\* a consumer that adds the first and subtracts the second ends up right.
EventsMirrorLikes ==
  Faultless => \A k \in Key :
    Cardinality(About(sent["liked"], k)) + Cardinality(outbox["like"] \cap {k})
      - Cardinality(About(sent["unliked"], k)) - Cardinality(outbox["unlike"] \cap {k})
      = Cardinality(likes \cap {k})

Quiet == \A w \in Worker : w \in bound.workers /\ stage[w] = "idle" /\ Waiting(w) = {}

NeverUnliked(k) == About(sent["unlikeRequest"], k) = {}

\* Once the workers have caught up and nothing failed, a like nobody took back
\* is stored, and one by the post's author is flagged and was announced to the
\* reward service.
LikeArrives ==
  Quiet /\ Faultless => \A k \in KeysOf(sent["likeRequest"]) : NeverUnliked(k) =>
    /\ k \in likes
    /\ k[1] = PostAuthor /\ k[2] \in comments \ OwnComment =>
         k[2] \in flagged \cap announced

\* A user's clicks are worked off in any order across the two topics, but for
\* a user who waits, the last click decides, as long as nothing fails.
LastClickDecides ==
  Faultless => \A k \in Key \ hasty :
    Requests(k) # {} /\ (\A m \in Requests(k) : Handled(m)) =>
      (k \in likes <=>
         \E m \in About(sent["likeRequest"], k) : m.n = Cardinality(Requests(k)))

\* Without faults the counts of all comments catch up with the likes for good.
CountsCatchUp ==
  <>[](Faultless => \A c \in comments :
                       likeCount[c] = Cardinality(OnComment(likes, c)))
============================================================================
