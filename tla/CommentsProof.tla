---------------------------- MODULE CommentsProof ----------------------------
(***************************************************************************)
(* Proofs about Comments with notification-service, for any users, posts,   *)
(* comments, scenes and bounds:                                             *)
(*   - what the check of createComment, which is no part of the write, does *)
(*     and does not exclude;                                                *)
(*   - the index has the comments there are, the author of a post is told   *)
(*     of them, and their likes are counted, but for comments one of whose  *)
(*     events was lost, repeated or overtaken;                              *)
(*   - the shown count of a post is off by no more than mishaps explain.    *)
(***************************************************************************)
EXTENDS CommentNotifications, FiniteSetTheorems, TLAPS

\* A createComment that is still to write has found a post that is there,
\* unless the post was deleted since.
AskedOfPosts == \A c \in asked \ raced : PostOf[c] \in posts

IInv ==
  /\ asked \subseteq Comment /\ comments \subseteq Comment
  /\ posts \subseteq Post
  /\ AskedOfPosts
  /\ OrphansAreExplained

\* All that the invariant is about.
rows == <<posts, comments, asked, clearing, histories>>

LEMMA Unchanged == IInv /\ UNCHANGED rows => IInv'
BY DEF IInv, rows, histories, AskedOfPosts, OrphansAreExplained

LEMMA NotiInitIInv == NotiInit => IInv
BY DEF NotiInit, Init, IInv, AskedOfPosts, OrphansAreExplained

LEMMA WriterStepIInv == IInv /\ WriterStep => IInv'
<1> SUFFICES ASSUME IInv, WriterStep PROVE IInv'
  OBVIOUS
<1>1. ASSUME NEW c \in Comment, AskForPost(c) PROVE IInv'
  BY <1>1 DEF IInv, AskForPost, Exists, AskedOfPosts, OrphansAreExplained, histories
<1>2. ASSUME NEW c \in Comment, CreateComment(c) PROVE IInv'
  BY <1>2 DEF IInv, CreateComment, CreateRow, AskedOfPosts, OrphansAreExplained, histories
<1>3. ASSUME NEW c \in Comment, DeleteComment(c) PROVE IInv'
  BY <1>3 DEF IInv, DeleteComment, DeleteRow, AskedOfPosts, OrphansAreExplained, histories
<1>4. ASSUME NEW p \in Post, DeletePost(p) PROVE IInv'
  BY <1>4 DEF IInv, DeletePost, CommentsOf, AskedOfPosts, OrphansAreExplained, histories
<1>5. ASSUME NEW p \in Post, DeleteAllPostComments(p) PROVE IInv'
  BY <1>5 DEF IInv, DeleteAllPostComments, WithoutRowsOf, CommentsOf, AskedOfPosts,
              OrphansAreExplained, histories
<1>6. ASSUME NEW p \in Post, ClearingFails(p) PROVE IInv'
  BY <1>6 DEF IInv, ClearingFails, AskedOfPosts, OrphansAreExplained
<1>7. ASSUME NEW p \in Post, NEW verdict \in Judgement, JudgePost(p, verdict) PROVE IInv'
  BY <1>7, Unchanged DEF JudgePost, rows
<1> QED
  BY <1>1, <1>2, <1>3, <1>4, <1>5, <1>6, <1>7 DEF WriterStep

\* elasticsearch-proxy and notification-service never touch the rows.
LEMMA ProxyStepKeepsRows == ProxyStep => UNCHANGED rows
BY DEF ProxyStep, CountCreated, CountDeleted, UpsertPost, Written, DeletePostDocument, IndexPostFails, UpsertComment,
       DeleteCommentDocument, EachMessage, Rotate, Flush, FlushFails, IndexFails,
       ProxyRestarts, writer, rows

LEMMA NotifierStepKeepsRows == NotifierStep => UNCHANGED rows
BY DEF NotifierStep, NotifyPostAuthor, CommentGone, PostGone, NotifyVerdict, LikedReads,
       UnlikedUpdates, LikedWrites, UnlikedRemoves, NotifierFails, NotifierRestarts,
       writer, rows, cvars

LEMMA NotiNextIInv == IInv /\ [NotiNext]_vars => IInv'
<1> SUFFICES ASSUME IInv, [NotiNext]_vars PROVE IInv'
  OBVIOUS
<1>1. CASE WriterStep
  BY <1>1, WriterStepIInv
<1>2. CASE ProxyStep \/ NotifierStep
  BY <1>2, ProxyStepKeepsRows, NotifierStepKeepsRows, Unchanged
<1>3. ASSUME NEW u \in User, NEW c \in Comment, Like(u, c) \/ Unlike(u, c) PROVE IInv'
  BY <1>3, Unchanged DEF Like, Unlike, writer, rows
<1>4. CASE UNCHANGED vars
  BY <1>4, Unchanged DEF vars, cvars, writer, rows
<1> QED
  BY <1>1, <1>2, <1>3, <1>4 DEF NotiNext

\* A comment is left without its post only if it was under creation when the
\* post was deleted, or if the call that clears the comments of the post failed or
\* was cut off (CommentServices.createComment, Post.controller.ts deletePost).
THEOREM OrphansAreAccounted == NotiSpec => []OrphansAreExplained
<1>1. IInv => OrphansAreExplained
  BY DEF IInv
<1> QED
  BY <1>1, NotiInitIInv, NotiNextIInv, PTL DEF NotiSpec
----------------------------------------------------------------------------
(***************************************************************************)
(* What events tell.  Everything that is announced of a comment stays true: *)
(* ids are not used again.  What is unhandled of a comment that was not in  *)
(* trouble is so of one that can still be seen, or tells that it cannot.    *)
(***************************************************************************)
Events(s) == inbox[s] \cup done[s]

Tells(e) ==
  \/ e.kind = "postCreated" /\ e.id \in Post
  \/ e.kind = "postJudged" /\ e.id \in Post /\ judged[e.id] # "pending"
  \/ e.kind = "postDeleted" /\ e.id \in Post \ posts
  \/ e.kind = "created" /\ e.id \in born
  \/ e.kind = "deleted" /\ e.id \in born \ comments
  \/ e.kind = "liked" /\ e.id \in everLiked
  \/ e.kind = "unliked" /\ e.id \in everLiked \ likes

EventsTell ==
  \A s \in Consumer : \A e \in Events(s) :
    /\ e = About(e.kind, e.id) /\ e.kind \in Reads[s] /\ Tells(e)
    /\ s \in scene.consumers \/ e.kind = "postCreated"

RowsMatch ==
  /\ scene \in Scene
  /\ posts \subseteq Post /\ clearing \subseteq Post \ posts
  /\ judged \in [Post -> Judgement \cup {"pending"}]
  /\ born \subseteq Comment /\ asked \subseteq Comment \ born
  /\ comments \subseteq born /\ index \subseteq born
  /\ everLiked \subseteq User \X born /\ likes \subseteq everLiked
  /\ \A c \in asked \ troubled : PostOf[c] \in posts

NewsOf(e, c) ==
  \/ e.kind = "created" /\ e.id = c
  \/ e.kind \in {"liked", "unliked"} /\ e.id \in User \X {c}
NewsOfPresent ==
  \A s \in Consumer, c \in Comment \ troubled : \A e \in inbox[s] : NewsOf(e, c) => Present(c)

Inboxes ==
  inbox = [s \in Consumer |-> inbox[s]] /\ done = [s \in Consumer |-> done[s]]

OrderInv == Inboxes /\ RowsMatch /\ EventsTell /\ NewsOfPresent

LEMMA ReadsAre ==
  /\ Consumer = {"indexPost", "indexCreated", "indexDeleted", "countCreated", "countDeleted",
                 "noticeCreated", "noticeDeleted", "noticePost", "noticeJudged", "noticeLiked",
                 "noticeUnliked"}
  /\ Reads["indexPost"] = {"postCreated", "postJudged", "postDeleted"}
  /\ Reads["indexCreated"] = {"created"} /\ Reads["indexDeleted"] = {"deleted"}
  /\ Reads["countCreated"] = {"created"} /\ Reads["countDeleted"] = {"deleted"}
  /\ Reads["noticeCreated"] = {"created"} /\ Reads["noticeDeleted"] = {"deleted"}
  /\ Reads["noticePost"] = {"postDeleted"} /\ Reads["noticeJudged"] = {"postJudged"}
  /\ Reads["noticeLiked"] = {"liked"} /\ Reads["noticeUnliked"] = {"unliked"}
BY DEF Consumer, Reads

LEMMA HandledOnlyThere ==
  ASSUME Inboxes, NEW s \in Consumer, NEW e \in inbox[s], Handled(s, e)
  PROVE  /\ Inboxes'
         /\ inbox'[s] = inbox[s] \ {e} /\ done'[s] = done[s] \cup {e}
         /\ \A r \in Consumer \ {s} : inbox'[r] = inbox[r] /\ done'[r] = done[r]
BY DEF Inboxes, Handled

LEMMA PublishedToReaders ==
  ASSUME Inboxes, NEW n, Publish(n), done' = done
  PROVE  /\ Inboxes'
         /\ \A r \in Consumer : inbox'[r] = inbox[r] \cup
              IF r \in scene.consumers /\ n.kind \in Reads[r] THEN {n} ELSE {}
BY DEF Inboxes, Publish

\* A step that neither announces anything nor changes what announcements are
\* about; what it delivers again is trouble.
LEMMA NothingAnnounced ==
  ASSUME OrderInv, Inboxes', UNCHANGED <<writer, scene, likes, everLiked>>,
         troubled \subseteq troubled', index' \subseteq born,
         \A s \in Consumer : Events(s)' \subseteq Events(s),
         \A s \in Consumer : \A e \in inbox'[s] : \A c \in Comment \ troubled' :
           NewsOf(e, c) => e \in inbox[s]
  PROVE  OrderInv'
<1>1. RowsMatch'
  BY DEF OrderInv, RowsMatch, writer
<1>2. EventsTell'
  <2>1. \A e : Tells(e)' <=> Tells(e)
    BY DEF Tells, writer
  <2> QED BY <2>1 DEF OrderInv, EventsTell
<1>3. NewsOfPresent'
  BY DEF OrderInv, NewsOfPresent, NewsOf, Present, writer
<1> QED BY <1>1, <1>2, <1>3 DEF OrderInv

LEMMA HandlingKeepsOrder ==
  ASSUME OrderInv, NEW s \in Consumer, NEW e \in inbox[s], Handled(s, e),
         UNCHANGED <<writer, scene, likes, everLiked>>,
         troubled \subseteq troubled', index' \subseteq born
  PROVE  OrderInv'
<1>1. /\ Inboxes'
      /\ \A r \in Consumer : Events(r)' = Events(r) /\ inbox'[r] \subseteq inbox[r]
  BY HandledOnlyThere DEF OrderInv, Events
<1> QED BY <1>1, NothingAnnounced

LEMMA SilenceKeepsOrder ==
  ASSUME OrderInv, UNCHANGED <<writer, scene, inbox, done, index, likes, everLiked>>,
         troubled \subseteq troubled'
  PROVE  OrderInv'
<1>1. Inboxes' /\ \A r \in Consumer : Events(r)' = Events(r)
  BY DEF OrderInv, Inboxes, Events
<1>2. index \subseteq born
  BY DEF OrderInv, RowsMatch
<1> QED BY <1>1, <1>2, NothingAnnounced

\* Rows may change, if they do not contradict what was announced before, or is
\* announced now.
RowsMayChange ==
  /\ RowsMatch' /\ UNCHANGED <<scene, done>> /\ troubled \subseteq troubled'
  /\ \A e : Tells(e) => Tells(e)'
  /\ \A c \in Comment \ troubled' : Present(c) => Present(c)' \/ ~Unhandled(c)

LEMMA StillPresent ==
  ASSUME OrderInv, RowsMayChange, NEW s \in Consumer, NEW c \in Comment \ troubled',
         NEW e \in inbox[s], NewsOf(e, c)
  PROVE  Present(c)'
<1>1. Present(c)
  BY DEF OrderInv, NewsOfPresent, RowsMayChange
<1>2. s \in scene.consumers /\ ConcernsComment(e, c)
  BY DEF OrderInv, EventsTell, Events, NewsOf, ConcernsComment
<1> QED BY <1>1, <1>2 DEF Unhandled, RowsMayChange

LEMMA SilentChangeKeepsOrder ==
  ASSUME OrderInv, RowsMayChange, UNCHANGED inbox
  PROVE  OrderInv'
<1>1. Inboxes' /\ \A r \in Consumer : Events(r)' = Events(r) /\ inbox'[r] = inbox[r]
  BY DEF OrderInv, Inboxes, Events, RowsMayChange
<1>2. EventsTell'
  BY <1>1 DEF OrderInv, EventsTell, RowsMayChange
<1>3. NewsOfPresent'
  BY <1>1, StillPresent DEF NewsOfPresent, NewsOf
<1> QED BY <1>1, <1>2, <1>3 DEF OrderInv, RowsMayChange

LEMMA AnnouncingKeepsOrder ==
  ASSUME OrderInv, RowsMayChange, NEW n, Publish(n), n = About(n.kind, n.id), Tells(n)',
         \A c \in Comment \ troubled' : NewsOf(n, c) => Present(c)'
  PROVE  OrderInv'
<1>1. Inboxes' /\ \A r \in Consumer : inbox'[r] = inbox[r] \cup
                     IF r \in scene.consumers /\ n.kind \in Reads[r] THEN {n} ELSE {}
  BY PublishedToReaders DEF OrderInv, RowsMayChange
<1>2. EventsTell'
  <2> SUFFICES ASSUME NEW s \in Consumer, NEW e \in Events(s)'
               PROVE  /\ e = About(e.kind, e.id) /\ e.kind \in Reads[s] /\ Tells(e)'
                      /\ s \in scene.consumers \/ e.kind = "postCreated"
    BY DEF EventsTell, RowsMayChange
  <2>1. e \in Events(s) \/ (e = n /\ s \in scene.consumers /\ n.kind \in Reads[s])
    BY <1>1 DEF Events, RowsMayChange
  <2>2. CASE e \in Events(s)
    BY <2>2 DEF OrderInv, EventsTell, RowsMayChange
  <2> QED BY <2>1, <2>2
<1>3. NewsOfPresent'
  <2> SUFFICES ASSUME NEW s \in Consumer, NEW c \in Comment \ troubled', NEW e \in inbox'[s],
                      NewsOf(e, c)
               PROVE  Present(c)'
    BY DEF NewsOfPresent, NewsOf
  <2> QED BY <1>1, StillPresent
<1> QED BY <1>1, <1>2, <1>3 DEF OrderInv, RowsMayChange

LEMMA InitOrder == NotiInit => OrderInv
<1> SUFFICES ASSUME NotiInit PROVE OrderInv
  OBVIOUS
<1>1. Inboxes
  BY DEF NotiInit, Init, Inboxes
<1>2. RowsMatch
  BY DEF NotiInit, Init, RowsMatch
<1>3. ASSUME NEW s \in Consumer, NEW e \in Events(s)
      PROVE  s = "indexPost" /\ \E p \in Post : e = About("postCreated", p)
  BY <1>3 DEF NotiInit, Init, Events
<1>4. ASSUME NEW p \in Post
      PROVE  LET e == About("postCreated", p)
             IN  e = About(e.kind, e.id) /\ e.kind = "postCreated" /\ e.id \in Post
  BY DEF About
<1>5. EventsTell
  BY <1>3, <1>4, ReadsAre DEF EventsTell, Tells
<1>6. NewsOfPresent
  BY <1>3, <1>4 DEF NewsOfPresent, NewsOf, Events
<1> QED BY <1>1, <1>2, <1>5, <1>6 DEF OrderInv

LEMMA WriterKeepsOrder == ASSUME OrderInv, WriterStep, UNCHANGED nvars PROVE OrderInv'
<1>a. UNCHANGED <<scene, done, likes, everLiked, index>>
  BY DEF WriterStep, AskForPost, CreateComment, DeleteComment, JudgePost, DeletePost,
         DeleteAllPostComments, ClearingFails, documents, nvars
<1>b. RowsMatch /\ EventsTell
  BY DEF OrderInv
<1>c. ASSUME NEW kind, NEW id PROVE About(kind, id).kind = kind /\ About(kind, id).id = id
  BY DEF About
<1>1. ASSUME NEW c \in Comment, AskForPost(c) PROVE OrderInv'
  <2>1. /\ UNCHANGED <<posts, comments, born, clearing, judged, inbox, troubled>>
        /\ asked' = asked \cup {c} /\ c \notin born
    BY <1>1 DEF AskForPost
  <2>2. c \in Comment \ born /\ PostOf[c] \in posts
    BY <1>1 DEF AskForPost, Exists
  <2>3. RowsMatch'
    BY <1>a, <1>b, <2>1, <2>2 DEF RowsMatch
  <2>4. RowsMayChange
    BY <1>a, <2>1, <2>3 DEF RowsMayChange, Tells, Present
  <2> QED BY <2>1, <2>4, SilentChangeKeepsOrder
<1>2. ASSUME NEW c \in Comment, CreateComment(c) PROVE OrderInv'
  <2>1. /\ UNCHANGED <<posts, clearing, judged>> /\ c \in asked
        /\ asked' = asked \ {c} /\ comments' = comments \cup {c} /\ born' = born \cup {c}
    BY <1>2 DEF CreateComment, CreateRow
  <2>2. \/ Publish(About("created", c)) /\ troubled' = troubled
        \/ inbox' = inbox /\ troubled' = troubled \cup {c}
    BY <1>2 DEF CreateComment, Disturbed
  <2>3. RowsMatch'
    BY <1>a, <1>b, <2>1, <2>2 DEF RowsMatch
  <2>4. RowsMayChange
    BY <1>a, <1>b, <2>1, <2>2, <2>3 DEF RowsMayChange, Tells, Present, RowsMatch
  <2>5. c \in troubled' \/ Present(c)'
    BY <1>b, <2>1, <2>2 DEF Present, RowsMatch
  <2>6. Tells(About("created", c))'
    BY <1>c, <2>1 DEF Tells
  <2>7. \A d \in Comment : NewsOf(About("created", c), d) => d = c
    BY <1>c DEF NewsOf
  <2> QED BY <1>c, <2>2, <2>4, <2>5, <2>6, <2>7, SilentChangeKeepsOrder, AnnouncingKeepsOrder
<1>3. ASSUME NEW c \in Comment, DeleteComment(c) PROVE OrderInv'
  <2>1. /\ UNCHANGED <<posts, born, asked, clearing, judged>>
        /\ c \in comments /\ comments' = comments \ {c}
    BY <1>3 DEF DeleteComment, DeleteRow
  <2>2. \/ Publish(About("deleted", c)) /\ troubled' = troubled \cup IF Unhandled(c) THEN {c} ELSE {}
        \/ inbox' = inbox /\ troubled' = troubled \cup {c}
    BY <1>3 DEF DeleteComment, Disturbed
  <2>3. RowsMatch'
    BY <1>a, <1>b, <2>1, <2>2 DEF RowsMatch
  <2>4. RowsMayChange
    BY <1>a, <1>b, <2>1, <2>2, <2>3 DEF RowsMayChange, Tells, Present, RowsMatch
  <2>5. Tells(About("deleted", c))'
    BY <1>b, <1>c, <2>1 DEF Tells, RowsMatch
  <2>6. \A d : ~NewsOf(About("deleted", c), d)
    BY <1>c DEF NewsOf
  <2> QED BY <1>c, <2>2, <2>4, <2>5, <2>6, SilentChangeKeepsOrder, AnnouncingKeepsOrder
<1>4. ASSUME NEW p \in Post, DeletePost(p) PROVE OrderInv'
  <2>1. /\ UNCHANGED <<comments, born, asked, judged>> /\ p \in posts
        /\ posts' = posts \ {p} /\ clearing' \in {clearing, clearing \cup {p}}
    BY <1>4 DEF DeletePost
  <2>2. /\ troubled \subseteq troubled'
        /\ \A c \in CommentsOf(p) : c \in asked \/ Unhandled(c) => c \in troubled'
        /\ Publish(About("postDeleted", p)) \/ inbox' = inbox
    BY <1>4 DEF DeletePost, Disturbed
  <2>3. RowsMatch'
    BY <1>a, <1>b, <2>1, <2>2 DEF RowsMatch, CommentsOf
  <2>4. RowsMayChange
    BY <1>a, <1>b, <2>1, <2>2, <2>3 DEF RowsMayChange, Tells, Present, RowsMatch, CommentsOf
  <2>5. Tells(About("postDeleted", p))'
    BY <1>b, <1>c, <2>1 DEF Tells, RowsMatch
  <2>6. \A d : ~NewsOf(About("postDeleted", p), d)
    BY <1>c DEF NewsOf
  <2> QED BY <1>c, <2>2, <2>4, <2>5, <2>6, SilentChangeKeepsOrder, AnnouncingKeepsOrder
<1>5. ASSUME NEW p \in Post, DeleteAllPostComments(p) PROVE OrderInv'
  <2>1. /\ UNCHANGED <<posts, born, asked, judged, inbox, troubled>> /\ p \in clearing
        /\ clearing' = clearing \ {p} /\ comments' = comments \ CommentsOf(p)
    BY <1>5 DEF DeleteAllPostComments, WithoutRowsOf
  <2>2. RowsMatch'
    BY <1>a, <1>b, <2>1 DEF RowsMatch
  <2>3. RowsMayChange
    BY <1>a, <1>b, <2>1, <2>2 DEF RowsMayChange, Tells, Present, RowsMatch, CommentsOf
  <2> QED BY <2>1, <2>3, SilentChangeKeepsOrder
<1>6. ASSUME NEW p \in Post, NEW verdict \in Judgement, JudgePost(p, verdict) PROVE OrderInv'
  <2>1. /\ UNCHANGED <<posts, comments, born, asked, clearing, troubled>>
        /\ judged' = [judged EXCEPT ![p] = verdict] /\ Publish(About("postJudged", p))
    BY <1>6 DEF JudgePost
  <2>2. verdict # "pending"
    BY DEF Judgement
  <2>3. RowsMatch'
    BY <1>a, <1>b, <2>1 DEF RowsMatch
  <2>4. /\ judged'[p] = verdict
        /\ \A q \in Post : judged[q] # "pending" => judged'[q] # "pending"
    BY <1>b, <2>1, <2>2 DEF RowsMatch
  <2>5. RowsMayChange
    BY <1>a, <2>1, <2>3, <2>4 DEF RowsMayChange, Tells, Present
  <2>6. Tells(About("postJudged", p))'
    BY <1>c, <2>2, <2>4 DEF Tells
  <2>7. \A d : ~NewsOf(About("postJudged", p), d)
    BY <1>c DEF NewsOf
  <2> QED BY <1>c, <2>1, <2>5, <2>6, <2>7, AnnouncingKeepsOrder
<1>7. ASSUME NEW p \in Post, ClearingFails(p) PROVE OrderInv'
  <2>1. /\ UNCHANGED <<posts, comments, born, asked, judged, inbox, troubled>>
        /\ clearing' = clearing \ {p}
    BY <1>7 DEF ClearingFails
  <2>2. RowsMatch'
    BY <1>a, <1>b, <2>1 DEF RowsMatch
  <2>3. RowsMayChange
    BY <1>a, <2>1, <2>2 DEF RowsMayChange, Tells, Present
  <2> QED BY <2>1, <2>3, SilentChangeKeepsOrder
<1> QED
  BY <1>1, <1>2, <1>3, <1>4, <1>5, <1>6, <1>7 DEF WriterStep

LEMMA LikesKeepOrder ==
  ASSUME OrderInv, NEW u \in User, NEW c \in Comment, Like(u, c) \/ Unlike(u, c)
  PROVE  OrderInv'
<1>a. RowsMatch /\ EventsTell
  BY DEF OrderInv
<1>b. ASSUME NEW kind, NEW id PROVE About(kind, id).kind = kind /\ About(kind, id).id = id
  BY DEF About
<1>c. UNCHANGED <<writer, scene, done, index>>
  BY DEF Like, Unlike, documents
<1>1. CASE Like(u, c)
  <2>1. /\ c \in index /\ <<u, c>> \notin everLiked /\ Publish(About("liked", <<u, c>>))
        /\ likes' = likes \cup {<<u, c>>} /\ everLiked' = everLiked \cup {<<u, c>>}
        /\ troubled' = troubled \cup IF Present(c) THEN {} ELSE {c}
    BY <1>1 DEF Like, Trouble
  <2>2. RowsMatch'
    BY <1>a, <1>c, <2>1 DEF RowsMatch, writer
  <2>3. RowsMayChange
    BY <1>a, <1>c, <2>1, <2>2 DEF RowsMayChange, Tells, Present, RowsMatch, writer
  <2>4. Tells(About("liked", <<u, c>>))'
    BY <1>b, <2>1 DEF Tells
  <2>5. \A d \in Comment \ troubled' : NewsOf(About("liked", <<u, c>>), d) => Present(d)'
    BY <1>b, <1>c, <2>1 DEF NewsOf, Present, writer
  <2> QED BY <1>b, <2>1, <2>3, <2>4, <2>5, AnnouncingKeepsOrder
<1>2. CASE Unlike(u, c)
  <2>1. /\ <<u, c>> \in likes /\ Publish(About("unliked", <<u, c>>))
        /\ likes' = likes \ {<<u, c>>} /\ everLiked' = everLiked
        /\ troubled \subseteq troubled'
        /\ c \in troubled' \/ Present(c)
    BY <1>2 DEF Unlike, Trouble
  <2>2. RowsMatch'
    BY <1>a, <1>c, <2>1 DEF RowsMatch, writer
  <2>3. RowsMayChange
    BY <1>a, <1>c, <2>1, <2>2 DEF RowsMayChange, Tells, Present, RowsMatch, writer
  <2>4. Tells(About("unliked", <<u, c>>))'
    BY <1>a, <1>b, <2>1 DEF Tells, RowsMatch
  <2>5. \A d \in Comment \ troubled' : NewsOf(About("unliked", <<u, c>>), d) => Present(d)'
    BY <1>b, <1>c, <2>1 DEF NewsOf, Present, writer
  <2> QED BY <1>b, <2>1, <2>3, <2>4, <2>5, AnnouncingKeepsOrder
<1> QED BY <1>1, <1>2

LEMMA ProxyKeepsOrder == ASSUME OrderInv, ProxyStep, UNCHANGED nvars PROVE OrderInv'
<1>a. UNCHANGED <<writer, scene, likes, everLiked>>
  BY DEF ProxyStep, UpsertPost, Written, DeletePostDocument, IndexPostFails, UpsertComment, DeleteCommentDocument,
         CountCreated, CountDeleted, EachMessage, Rotate, Flush, FlushFails, IndexFails,
         ProxyRestarts, nvars
<1>b. index \subseteq born /\ EventsTell
  BY DEF OrderInv, RowsMatch
<1>1. ASSUME NEW e \in inbox["indexPost"],
             UpsertPost(e) \/ DeletePostDocument(e) \/ IndexPostFails(e)
      PROVE  OrderInv'
  <2>1. Handled("indexPost", e) /\ troubled' = troubled /\ index' \subseteq born
    BY <1>1, <1>b DEF UpsertPost, DeletePostDocument, IndexPostFails, WithoutCommentsOf
  <2> QED BY <1>a, <2>1, ReadsAre, HandlingKeepsOrder
<1>2. ASSUME NEW e \in inbox["indexCreated"], UpsertComment(e) PROVE OrderInv'
  <2>1. Handled("indexCreated", e) /\ troubled' = troubled /\ index' \subseteq index \cup {e.id}
    BY <1>2 DEF UpsertComment, WithComment, IsIndexed
  <2>2. e.id \in born
    BY <1>b, ReadsAre DEF EventsTell, Tells, Events
  <2> QED BY <1>a, <1>b, <2>1, <2>2, ReadsAre, HandlingKeepsOrder
<1>3. ASSUME NEW e \in inbox["indexDeleted"], DeleteCommentDocument(e) PROVE OrderInv'
  <2>1. Handled("indexDeleted", e) /\ troubled' = troubled /\ index' \subseteq born
    BY <1>3, <1>b DEF DeleteCommentDocument, DeleteById
  <2> QED BY <1>a, <2>1, ReadsAre, HandlingKeepsOrder
<1>4. ASSUME NEW a \in Aggregator, NEW e \in inbox[a], EachMessage(a, e) PROVE OrderInv'
  <2>1. Handled(a, e) /\ troubled' = troubled /\ index' = index /\ a \in Consumer
    BY <1>4, ReadsAre DEF EachMessage, Aggregator, documents
  <2> QED BY <1>a, <1>b, <2>1, HandlingKeepsOrder
<1>5. ASSUME NEW a \in Aggregator, Rotate(a) \/ Flush(a) \/ FlushFails(a) PROVE OrderInv'
  <2>1. UNCHANGED <<inbox, done, index, troubled>>
    BY <1>5 DEF Rotate, Flush, FlushFails, documents
  <2> QED BY <1>a, <2>1, SilenceKeepsOrder
<1>6. ASSUME NEW s \in Consumer, NEW e \in inbox[s], IndexFails(s, e) PROVE OrderInv'
  <2>1. Handled(s, e) /\ troubled \subseteq troubled' /\ index' = index
    BY <1>6 DEF IndexFails, Disturbed, documents
  <2> QED BY <1>a, <1>b, <2>1, HandlingKeepsOrder
<1>7. CASE ProxyRestarts
  <2>1. PICK s \in scene.consumers \cap Proxy,
             again \in {{}} \cup {{e} : e \in UNION {done[r] : r \in Proxy}} :
          /\ again \subseteq done[s]
          /\ inbox' = [inbox EXCEPT ![s] = @ \cup again]
          /\ done'  = [done EXCEPT ![s] = @ \ again]
          /\ troubled' = troubled \cup ({e.id : e \in again} \cap Comment)
    BY <1>7 DEF ProxyRestarts
  <2>2. index' = index /\ s \in Consumer /\ Reads[s] \cap {"liked", "unliked"} = {}
    BY <1>7, ReadsAre DEF ProxyRestarts, Proxy, documents
  <2>3. /\ Inboxes' /\ inbox'[s] = inbox[s] \cup again /\ done'[s] = done[s] \ again
        /\ \A r \in Consumer \ {s} : inbox'[r] = inbox[r] /\ done'[r] = done[r]
    BY <2>1, <2>2 DEF OrderInv, Inboxes
  <2>4. \A r \in Consumer : Events(r)' \subseteq Events(r)
    BY <2>1, <2>3 DEF Events
  <2>5. ASSUME NEW r \in Consumer, NEW e \in inbox'[r], NEW c \in Comment \ troubled', NewsOf(e, c)
        PROVE  e \in inbox[r]
    <3> SUFFICES ASSUME r = s, e \in again PROVE FALSE
      BY <2>3
    <3>1. e.kind \in Reads[s]
      BY <1>b, <2>1, <2>2 DEF EventsTell, Events
    <3> QED BY <2>1, <2>2, <2>5, <3>1 DEF NewsOf
  <2> QED BY <1>a, <1>b, <2>1, <2>2, <2>3, <2>4, <2>5, NothingAnnounced
<1> QED
  BY <1>1, <1>2, <1>3, <1>4, <1>5, <1>6, <1>7 DEF ProxyStep, CountCreated, CountDeleted, Aggregator

\* The message that is handled by the consumer of likes is not, yet.
TaskWaits ==
  likedTask # Idle => likedTask.pc = "write" /\ likedTask.event \in inbox["noticeLiked"]

LEMMA NotifierKeepsOrder == ASSUME OrderInv, TaskWaits, NotifierStep PROVE OrderInv'
<1>a. UNCHANGED <<writer, scene, likes, everLiked, index>> /\ troubled \subseteq troubled'
  BY DEF NotifierStep, NotifyPostAuthor, CommentGone, PostGone, NotifyVerdict, LikedReads,
         UnlikedUpdates, LikedWrites, UnlikedRemoves, NotifierFails, NotifierRestarts, Trouble,
         documents, cvars, nvars
<1>b. index' \subseteq born /\ EventsTell
  BY <1>a DEF OrderInv, RowsMatch
<1>1. ASSUME NEW s \in Consumer, NEW e \in inbox[s], Handled(s, e) PROVE OrderInv'
  BY <1>1, <1>a, <1>b, HandlingKeepsOrder
<1>2. CASE UNCHANGED <<inbox, done>>
  BY <1>2, <1>a, SilenceKeepsOrder
<1>3. ASSUME NEW s \in Notifier, NEW e \in done[s], NotifierRestarts(s, e) PROVE OrderInv'
  <2>1. /\ inbox' = [inbox EXCEPT ![s] = @ \cup {e}] /\ done' = [done EXCEPT ![s] = @ \ {e}]
        /\ CommentsIn(e) \subseteq troubled' /\ s \in Consumer
    BY <1>3, ReadsAre DEF NotifierRestarts, Trouble, Notifier
  <2>2. /\ Inboxes' /\ inbox'[s] = inbox[s] \cup {e} /\ done'[s] = done[s] \ {e}
        /\ \A r \in Consumer \ {s} : inbox'[r] = inbox[r] /\ done'[r] = done[r]
    BY <2>1 DEF OrderInv, Inboxes
  <2>3. \A r \in Consumer : Events(r)' \subseteq Events(r)
    BY <2>1, <2>2 DEF Events
  <2>4. \A c \in Comment \ troubled' : ~NewsOf(e, c)
    BY <2>1 DEF NewsOf, CommentsIn
  <2> QED BY <1>a, <1>b, <2>2, <2>3, <2>4, NothingAnnounced
<1>4. ASSUME NEW e \in inbox["noticeLiked"], LikedReads(e) PROVE OrderInv'
  BY <1>1, <1>2, <1>4, ReadsAre DEF LikedReads
<1>5. CASE LikedWrites
  <2>1. Handled("noticeLiked", likedTask.event)
    BY <1>5 DEF LikedWrites
  <2>2. likedTask.event \in inbox["noticeLiked"]
    BY <1>5 DEF LikedWrites, TaskWaits, Idle
  <2> QED BY <1>1, <2>1, <2>2, ReadsAre
<1> QED
  BY <1>1, <1>2, <1>3, <1>4, <1>5, ReadsAre
  DEF NotifierStep, NotifyPostAuthor, CommentGone, PostGone, NotifyVerdict, UnlikedUpdates,
      UnlikedRemoves, NotifierFails, Notifier, cvars

\* Who touches what: inboxes and rows of others are left alone.
LEMMA ProxyElsewhere ==
  ASSUME Inboxes, ProxyStep
  PROVE  /\ UNCHANGED <<writer, scene>> /\ troubled \subseteq troubled'
         /\ \A r \in Consumer \ Proxy : inbox'[r] = inbox[r] /\ done'[r] = done[r]
<1>1. UNCHANGED <<writer, scene>> /\ troubled \subseteq troubled'
  BY DEF ProxyStep, UpsertPost, Written, DeletePostDocument, IndexPostFails, UpsertComment, DeleteCommentDocument,
         CountCreated, CountDeleted, EachMessage, Rotate, Flush, FlushFails, IndexFails,
         ProxyRestarts, Disturbed
<1> SUFFICES \A r \in Consumer \ Proxy : inbox'[r] = inbox[r] /\ done'[r] = done[r]
  BY <1>1
<1>2. ASSUME NEW s \in Proxy, NEW e \in inbox[s], Handled(s, e)
      PROVE  \A r \in Consumer \ Proxy : inbox'[r] = inbox[r] /\ done'[r] = done[r]
  BY <1>2, ReadsAre, HandledOnlyThere DEF Proxy
<1>3. CASE ProxyRestarts
  BY <1>3 DEF ProxyRestarts, Inboxes
<1>4. CASE UNCHANGED <<inbox, done>>
  BY <1>4
<1> QED
  BY <1>1, <1>2, <1>3, <1>4
  DEF ProxyStep, UpsertPost, Written, DeletePostDocument, IndexPostFails, UpsertComment, DeleteCommentDocument,
      CountCreated, CountDeleted, EachMessage, Rotate, Flush, FlushFails, IndexFails, Proxy

LEMMA NotifierElsewhere ==
  ASSUME Inboxes, TaskWaits, NotifierStep
  PROVE  /\ UNCHANGED <<writer, scene, documents, buffers, slack, likes, everLiked>>
         /\ troubled \subseteq troubled'
         /\ \A r \in Consumer \ Notifier : inbox'[r] = inbox[r] /\ done'[r] = done[r]
<1>1. /\ UNCHANGED <<writer, scene, documents, buffers, slack, likes, everLiked>>
      /\ troubled \subseteq troubled'
  BY DEF NotifierStep, NotifyPostAuthor, CommentGone, PostGone, NotifyVerdict, LikedReads,
         UnlikedUpdates, LikedWrites, UnlikedRemoves, NotifierFails, NotifierRestarts, Trouble,
         cvars, nvars
<1> SUFFICES \A r \in Consumer \ Notifier : inbox'[r] = inbox[r] /\ done'[r] = done[r]
  BY <1>1
<1>2. ASSUME NEW s \in Notifier, NEW e \in inbox[s], Handled(s, e)
      PROVE  \A r \in Consumer \ Notifier : inbox'[r] = inbox[r] /\ done'[r] = done[r]
  BY <1>2, ReadsAre, HandledOnlyThere DEF Notifier
<1>3. CASE UNCHANGED <<inbox, done>>
  BY <1>3
<1>4. ASSUME NEW s \in Notifier, NEW e \in done[s], NotifierRestarts(s, e)
      PROVE  \A r \in Consumer \ Notifier : inbox'[r] = inbox[r] /\ done'[r] = done[r]
  BY <1>4 DEF NotifierRestarts, Inboxes
<1>5. CASE LikedWrites
  BY <1>2, <1>5 DEF LikedWrites, TaskWaits, Idle, Notifier
<1>6. CASE \/ \E e \in inbox["noticeCreated"] : NotifyPostAuthor(e)
           \/ \E e \in inbox["noticeDeleted"] : CommentGone(e)
           \/ \E e \in inbox["noticePost"] : PostGone(e)
           \/ \E e \in inbox["noticeJudged"] : NotifyVerdict(e)
           \/ \E e \in inbox["noticeLiked"] : LikedReads(e)
           \/ \E e \in inbox["noticeUnliked"] : UnlikedUpdates(e)
  BY <1>2, <1>3, <1>6 DEF NotifyPostAuthor, CommentGone, PostGone, NotifyVerdict, LikedReads,
     UnlikedUpdates, Notifier
<1>7. CASE \E s \in Notifier : \E e \in inbox[s] : NotifierFails(s, e)
  BY <1>2, <1>7 DEF NotifierFails
<1>8. CASE UnlikedRemoves
  BY <1>3, <1>8 DEF UnlikedRemoves, cvars
<1> QED
  BY <1>1, <1>4, <1>5, <1>6, <1>7, <1>8 DEF NotifierStep

LEMMA WriterElsewhere ==
  ASSUME Inboxes, WriterStep
  PROVE  /\ UNCHANGED <<scene, done, documents, buffers>> /\ troubled \subseteq troubled'
         /\ \A r \in Consumer : inbox[r] \subseteq inbox'[r]
<1>1. UNCHANGED <<scene, done, documents, buffers>> /\ troubled \subseteq troubled'
  BY DEF WriterStep, AskForPost, CreateComment, DeleteComment, JudgePost, DeletePost,
         DeleteAllPostComments, ClearingFails, Disturbed
<1>2. UNCHANGED inbox \/ \E n : Publish(n)
  BY DEF WriterStep, AskForPost, CreateComment, DeleteComment, JudgePost, DeletePost,
         DeleteAllPostComments, ClearingFails
<1> QED BY <1>1, <1>2, PublishedToReaders

LEMMA LikesElsewhere ==
  ASSUME Inboxes, NEW u \in User, NEW c \in Comment, Like(u, c) \/ Unlike(u, c)
  PROVE  /\ UNCHANGED <<writer, scene, done, documents, buffers, slack, notices, likedTask, unlikedTask>>
         /\ troubled \subseteq troubled' /\ faults' = faults
         /\ \A r \in Consumer : inbox[r] \subseteq inbox'[r]
         /\ \A r \in Consumer \ {"noticeLiked", "noticeUnliked"} : inbox'[r] = inbox[r]
<1>1. /\ UNCHANGED <<writer, scene, done, documents, buffers, slack, notices, likedTask, unlikedTask>>
      /\ troubled \subseteq troubled' /\ faults' = faults
      /\ \E n : Publish(n) /\ n.kind \in {"liked", "unliked"}
  BY DEF Like, Unlike, Trouble, About
<1>2. PICK n : Publish(n) /\ n.kind \in {"liked", "unliked"}
  BY <1>1
<1>3. \A r \in Consumer \ {"noticeLiked", "noticeUnliked"} : n.kind \notin Reads[r]
  BY <1>2, ReadsAre
<1> QED BY <1>1, <1>2, <1>3, PublishedToReaders

LEMMA NextTaskWaits == ASSUME OrderInv, TaskWaits, [NotiNext]_vars PROVE TaskWaits'
<1>1. CASE WriterStep /\ UNCHANGED nvars
  BY <1>1, WriterElsewhere, ReadsAre DEF OrderInv, TaskWaits, nvars
<1>2. CASE ProxyStep /\ UNCHANGED nvars
  BY <1>2, ProxyElsewhere, ReadsAre DEF OrderInv, TaskWaits, nvars, Proxy
<1>3. ASSUME NEW u \in User, NEW c \in Comment, Like(u, c) \/ Unlike(u, c) PROVE TaskWaits'
  BY <1>3, LikesElsewhere, ReadsAre DEF OrderInv, TaskWaits
<1>4. CASE UNCHANGED vars
  BY <1>4 DEF TaskWaits, vars, cvars, nvars
<1>5. ASSUME NEW s \in Consumer \ {"noticeLiked"}, NEW e \in inbox[s], Handled(s, e),
             likedTask' = likedTask
      PROVE  TaskWaits'
  BY <1>5, HandledOnlyThere, ReadsAre DEF OrderInv, TaskWaits
<1>6. ASSUME NEW e \in inbox["noticeLiked"], LikedReads(e) PROVE TaskWaits'
  BY <1>6 DEF LikedReads, TaskWaits, Idle
<1>7. CASE LikedWrites \/ \E s \in Notifier : \E e \in done[s] : NotifierRestarts(s, e)
  BY <1>7 DEF LikedWrites, NotifierRestarts, TaskWaits
<1>8. ASSUME NEW s \in Notifier, NEW e \in inbox[s], NotifierFails(s, e) PROVE TaskWaits'
  BY <1>8, HandledOnlyThere, ReadsAre DEF NotifierFails, OrderInv, TaskWaits, Notifier, nvars
<1>9. CASE UnlikedRemoves
  BY <1>9 DEF UnlikedRemoves, TaskWaits, cvars
<1>10. CASE \/ \E e \in inbox["noticeCreated"] : NotifyPostAuthor(e)
            \/ \E e \in inbox["noticeDeleted"] : CommentGone(e)
            \/ \E e \in inbox["noticePost"] : PostGone(e)
            \/ \E e \in inbox["noticeJudged"] : NotifyVerdict(e)
            \/ \E e \in inbox["noticeUnliked"] : UnlikedUpdates(e)
  BY <1>5, <1>10, ReadsAre DEF NotifyPostAuthor, CommentGone, PostGone, NotifyVerdict, UnlikedUpdates
<1> QED
  BY <1>1, <1>2, <1>3, <1>4, <1>6, <1>7, <1>8, <1>9, <1>10 DEF NotiNext, NotifierStep

LEMMA InitHistory == NotiInit => OrderInv /\ TaskWaits
BY InitOrder DEF NotiInit, TaskWaits

LEMMA NextHistory == OrderInv /\ TaskWaits /\ [NotiNext]_vars => OrderInv' /\ TaskWaits'
<1> SUFFICES ASSUME OrderInv, TaskWaits, [NotiNext]_vars PROVE OrderInv' /\ TaskWaits'
  OBVIOUS
<1>1. CASE UNCHANGED vars
  BY <1>1, NextTaskWaits, SilenceKeepsOrder DEF vars, cvars, nvars, documents
<1>2. TaskWaits'
  BY NextTaskWaits
<1> QED
  BY <1>1, <1>2, WriterKeepsOrder, ProxyKeepsOrder, LikesKeepOrder, NotifierKeepsOrder
  DEF NotiNext


----------------------------------------------------------------------------
(***************************************************************************)
(* The index.  Its two consumers are not in step, but what each has still   *)
(* to handle of an untroubled comment tells apart why the comment is, or is *)
(* not, in the index.                                                       *)
(***************************************************************************)
Mirrored(c) ==
  /\ c \in comments => c \in index \/ Waits("indexCreated", "created", c)
  /\ c \in index \ comments => Waits("indexDeleted", "deleted", c)

LEMMA MirrorIs ==
  IndexMirrorsComments <=>
    ("indexCreated" \in scene.consumers =>
       \A c \in Comment \ troubled : PostOf[c] \in posts => Mirrored(c))
BY DEF IndexMirrorsComments, Mirrored

LEMMA InitMirror == NotiInit => IndexMirrorsComments
BY DEF NotiInit, Init, IndexMirrorsComments

\* For most steps it is enough that they do not touch the two inboxes.
LEMMA MirrorKept ==
  ASSUME IndexMirrorsComments, UNCHANGED <<scene, comments, index>>,
         posts' \subseteq posts, troubled \subseteq troubled',
         inbox["indexCreated"] \subseteq inbox'["indexCreated"],
         inbox["indexDeleted"] \subseteq inbox'["indexDeleted"]
  PROVE  IndexMirrorsComments'
BY DEF IndexMirrorsComments, Waits

LEMMA WriterMirror ==
  ASSUME OrderInv, IndexMirrorsComments, WriterStep
  PROVE  IndexMirrorsComments'
<1>a. /\ UNCHANGED <<scene, index>> /\ troubled \subseteq troubled'
      /\ inbox["indexCreated"] \subseteq inbox'["indexCreated"]
      /\ inbox["indexDeleted"] \subseteq inbox'["indexDeleted"]
  BY WriterElsewhere, ReadsAre DEF OrderInv, documents
<1>b. ASSUME NEW kind, NEW id PROVE About(kind, id).kind = kind /\ About(kind, id).id = id
  BY DEF About
<1>c. RowsMatch
  BY DEF OrderInv
<1>1. ASSUME NEW c \in Comment, CreateComment(c) PROVE IndexMirrorsComments'
  <2> SUFFICES ASSUME "indexCreated" \in scene.consumers, NEW d \in Comment \ troubled',
                      PostOf[d] \in posts
               PROVE  Mirrored(d)'
    BY <1>1, <1>a, MirrorIs DEF CreateComment, IndexMirrorsComments, Mirrored
  <2>1. comments' = comments \cup {c} /\ c \notin index /\ done' = done
    BY <1>1, <1>c DEF CreateComment, CreateRow, RowsMatch
  <2>2. CASE d = c
    <3>1. Publish(About("created", c))
      BY <1>1, <2>2 DEF CreateComment, Disturbed
    <3>2. About("created", c) \in inbox'["indexCreated"]
      BY <1>b, <2>1, <3>1, PublishedToReaders, ReadsAre DEF OrderInv
    <3> QED BY <1>a, <2>1, <2>2, <3>2 DEF Mirrored, Waits
  <2>3. CASE d # c
    <3>1. Mirrored(d)
      BY <1>a, MirrorIs
    <3> QED BY <1>a, <2>1, <2>3, <3>1 DEF Mirrored, Waits
  <2> QED BY <2>2, <2>3
<1>2. ASSUME NEW c \in Comment, DeleteComment(c) PROVE IndexMirrorsComments'
  <2> SUFFICES ASSUME "indexCreated" \in scene.consumers, NEW d \in Comment \ troubled',
                      PostOf[d] \in posts
               PROVE  Mirrored(d)'
    BY <1>2, <1>a, MirrorIs DEF DeleteComment, IndexMirrorsComments, Mirrored
  <2>1. comments' = comments \ {c} /\ done' = done
    BY <1>2 DEF DeleteComment, DeleteRow
  <2>2. CASE d = c
    <3>1. Publish(About("deleted", c))
      BY <1>2, <2>2 DEF DeleteComment, Disturbed
    <3>2. "indexDeleted" \in scene.consumers
      BY <1>c, SceneAssumption DEF RowsMatch
    <3>3. About("deleted", c) \in inbox'["indexDeleted"]
      BY <1>b, <2>1, <3>1, <3>2, PublishedToReaders, ReadsAre DEF OrderInv
    <3> QED BY <1>a, <2>1, <2>2, <3>3 DEF Mirrored, Waits
  <2>3. CASE d # c
    <3>1. Mirrored(d)
      BY <1>a, MirrorIs
    <3> QED BY <1>a, <2>1, <2>3, <3>1 DEF Mirrored, Waits
  <2> QED BY <2>2, <2>3
<1>3. ASSUME NEW p \in Post, DeleteAllPostComments(p) PROVE IndexMirrorsComments'
  <2> SUFFICES ASSUME "indexCreated" \in scene.consumers, NEW d \in Comment \ troubled',
                      PostOf[d] \in posts
               PROVE  Mirrored(d)'
    BY <1>3, <1>a, MirrorIs DEF DeleteAllPostComments, IndexMirrorsComments, Mirrored
  <2>1. comments' = comments \ CommentsOf(p) /\ d \notin CommentsOf(p)
    BY <1>3, <1>c DEF DeleteAllPostComments, WithoutRowsOf, RowsMatch, CommentsOf
  <2>2. Mirrored(d)
    BY <1>a, MirrorIs
  <2> QED BY <1>a, <2>1, <2>2 DEF Mirrored, Waits
<1>4. CASE \/ \E c \in Comment : AskForPost(c)
           \/ \E p \in Post : DeletePost(p) \/ ClearingFails(p)
           \/ \E p \in Post, verdict \in Judgement : JudgePost(p, verdict)
  <2>1. comments' = comments /\ posts' \subseteq posts
    BY <1>4 DEF AskForPost, DeletePost, ClearingFails, JudgePost
  <2> QED BY <1>a, <2>1, MirrorKept
<1> QED BY <1>1, <1>2, <1>3, <1>4 DEF WriterStep

LEMMA ProxyMirror ==
  ASSUME OrderInv, IndexMirrorsComments, ProxyStep
  PROVE  IndexMirrorsComments'
<1>a. UNCHANGED <<posts, comments, scene>> /\ troubled \subseteq troubled'
  BY ProxyElsewhere DEF OrderInv, writer
<1>b. RowsMatch /\ EventsTell /\ NewsOfPresent
  BY DEF OrderInv
<1> SUFFICES ASSUME "indexCreated" \in scene.consumers, NEW c \in Comment \ troubled',
                    PostOf[c] \in posts
             PROVE  Mirrored(c)'
  BY <1>a, MirrorIs DEF IndexMirrorsComments, Mirrored
<1>c. Mirrored(c)
  BY <1>a, MirrorIs
<1>1. CASE /\ index' = index
           /\ \A k \in {"created", "deleted"} : \A s \in {"indexCreated", "indexDeleted"} :
                Waits(s, k, c) => Waits(s, k, c)'
  BY <1>1, <1>a, <1>c DEF Mirrored
<1>2. ASSUME NEW e \in inbox["indexPost"], UpsertPost(e) \/ IndexPostFails(e) PROVE Mirrored(c)'
  BY <1>1, <1>2, HandledOnlyThere, ReadsAre DEF UpsertPost, IndexPostFails, Waits, OrderInv
<1>3. ASSUME NEW e \in inbox["indexPost"], DeletePostDocument(e) PROVE Mirrored(c)'
  <2>1. e.id \in Post \ posts
    BY <1>3, <1>b, ReadsAre DEF EventsTell, Events, Tells, DeletePostDocument
  <2>2. c \in index' <=> c \in index
    BY <1>3, <2>1 DEF DeletePostDocument, WithoutCommentsOf, CommentsOf
  <2>3. /\ inbox'["indexCreated"] = inbox["indexCreated"]
        /\ inbox'["indexDeleted"] = inbox["indexDeleted"]
    BY <1>3, HandledOnlyThere, ReadsAre DEF DeletePostDocument, OrderInv
  <2> QED BY <1>a, <1>c, <2>2, <2>3 DEF Mirrored, Waits
<1>4. ASSUME NEW e \in inbox["indexCreated"], UpsertComment(e) PROVE Mirrored(c)'
  <2>1. /\ index' = index \cup {e.id}
        /\ inbox'["indexCreated"] = inbox["indexCreated"] \ {e}
        /\ inbox'["indexDeleted"] = inbox["indexDeleted"]
    BY <1>4, HandledOnlyThere, ReadsAre DEF UpsertComment, WithComment, IsIndexed, OrderInv
  <2>2. e = About("created", e.id) /\ e.kind = "created"
    BY <1>b, ReadsAre DEF EventsTell, Events
  <2>3. CASE e.id = c
    <3>1. c \in comments
      BY <1>a, <1>b, <2>2, <2>3, ReadsAre DEF NewsOfPresent, NewsOf, Present
    <3> QED BY <1>a, <2>1, <2>3, <3>1 DEF Mirrored
  <2>4. CASE e.id # c
    <3>1. e # About("created", c)
      BY <2>4 DEF About
    <3> QED BY <1>a, <1>c, <2>1, <2>4, <3>1 DEF Mirrored, Waits
  <2> QED BY <2>3, <2>4
<1>5. ASSUME NEW e \in inbox["indexDeleted"], DeleteCommentDocument(e) PROVE Mirrored(c)'
  <2>1. /\ index' = index \ {e.id}
        /\ inbox'["indexDeleted"] = inbox["indexDeleted"] \ {e}
        /\ inbox'["indexCreated"] = inbox["indexCreated"]
    BY <1>5, HandledOnlyThere, ReadsAre DEF DeleteCommentDocument, DeleteById, OrderInv
  <2>2. e = About("deleted", e.id) /\ e.id \notin comments
    BY <1>b, ReadsAre DEF EventsTell, Events, Tells
  <2>3. CASE e.id = c
    BY <1>a, <2>1, <2>2, <2>3 DEF Mirrored
  <2>4. CASE e.id # c
    <3>1. e # About("deleted", c)
      BY <2>4 DEF About
    <3> QED BY <1>a, <1>c, <2>1, <2>4, <3>1 DEF Mirrored, Waits
  <2> QED BY <2>3, <2>4
<1>6. ASSUME NEW s \in Consumer, NEW e \in inbox[s], IndexFails(s, e) PROVE Mirrored(c)'
  <2>1. index' = index /\ Handled(s, e) /\ e.id # c
    BY <1>6, <1>a DEF IndexFails, Disturbed, documents
  <2>2. \A k \in {"created", "deleted"} : e # About(k, c)
    BY <2>1 DEF About
  <2>3. \A r \in Consumer : inbox[r] \ {e} \subseteq inbox'[r]
    BY <2>1, HandledOnlyThere DEF OrderInv
  <2> QED BY <1>1, <2>1, <2>2, <2>3, ReadsAre DEF Waits
<1>7. ASSUME NEW a \in Aggregator, NEW e \in inbox[a], EachMessage(a, e) PROVE Mirrored(c)'
  BY <1>1, <1>7, HandledOnlyThere, ReadsAre DEF EachMessage, Aggregator, Waits, OrderInv, documents
<1>8. ASSUME NEW a \in Aggregator, Rotate(a) \/ Flush(a) \/ FlushFails(a) PROVE Mirrored(c)'
  BY <1>1, <1>8 DEF Rotate, Flush, FlushFails, Waits, documents
<1>9. CASE ProxyRestarts
  <2>1. index' = index /\ \A r \in Consumer : inbox[r] \subseteq inbox'[r]
    BY <1>9 DEF ProxyRestarts, documents, OrderInv, Inboxes
  <2> QED BY <1>1, <2>1, ReadsAre DEF Waits
<1> QED
  BY <1>2, <1>3, <1>4, <1>5, <1>6, <1>7, <1>8, <1>9
  DEF ProxyStep, CountCreated, CountDeleted, Aggregator

LEMMA NextMirror ==
  OrderInv /\ TaskWaits /\ IndexMirrorsComments /\ [NotiNext]_vars => IndexMirrorsComments'
<1> SUFFICES ASSUME OrderInv, TaskWaits, IndexMirrorsComments, [NotiNext]_vars
             PROVE  IndexMirrorsComments'
  OBVIOUS
<1>1. CASE NotifierStep
  BY <1>1, NotifierElsewhere, MirrorKept, ReadsAre DEF OrderInv, writer, documents, Notifier
<1>2. ASSUME NEW u \in User, NEW c \in Comment, Like(u, c) \/ Unlike(u, c)
      PROVE  IndexMirrorsComments'
  BY <1>2, LikesElsewhere, MirrorKept, ReadsAre DEF OrderInv, writer, documents
<1>3. CASE UNCHANGED vars
  BY <1>3, MirrorKept DEF vars, cvars, writer, documents
<1> QED
  BY <1>1, <1>2, <1>3, WriterMirror, ProxyMirror DEF NotiNext

\* What can be seen of a post's comments is what its database has, but for what
\* is still to be handled, if no event was lost, repeated or overtaken
\* (CommentCreatedEventConsumer, CommentDeletedEventConsumer).
THEOREM IndexMirrors == NotiSpec => []IndexMirrorsComments
BY InitHistory, NextHistory, InitMirror, NextMirror, PTL DEF NotiSpec

----------------------------------------------------------------------------
(***************************************************************************)
(* The authors of posts.                                                    *)
(***************************************************************************)
AuthorKnows(c) ==
  IF Present(c) THEN c \in got <=> ByAnother(c) /\ ~Waits("noticeCreated", "created", c)
                ELSE \/ c \notin got
                     \/ Waits("noticeDeleted", "deleted", c)
                     \/ Waits("noticePost", "postDeleted", PostOf[c])

VerdictIsTold(p) ==
  verdicts[p] = IF judged[p] \in {"pending", "ok"} \/ Waits("noticeJudged", "postJudged", p)
                THEN 0 ELSE 1

PostAuthorsInv ==
  /\ got \subseteq born /\ DOMAIN verdicts = Post /\ faults \in Nat
  /\ PostAuthorsKnow

LEMMA PostAuthorsKnowIs ==
  PostAuthorsKnow <=>
    /\ "noticeCreated" \in scene.consumers => \A c \in born \ troubled : AuthorKnows(c)
    /\ "noticeJudged" \in scene.consumers /\ faults = 0 => \A p \in Post : VerdictIsTold(p)
BY DEF PostAuthorsKnow, AuthorKnows, VerdictIsTold

LEMMA PostAuthorsKnowNext ==
  PostAuthorsKnow' <=>
    /\ "noticeCreated" \in scene'.consumers => \A c \in born' \ troubled' : AuthorKnows(c)'
    /\ "noticeJudged" \in scene'.consumers /\ faults' = 0 => \A p \in Post : VerdictIsTold(p)'
BY DEF PostAuthorsKnow, AuthorKnows, VerdictIsTold

LEMMA InitPostAuthors == NotiInit => PostAuthorsInv
BY DEF NotiInit, Init, PostAuthorsInv, PostAuthorsKnow

LEMMA PostAuthorsKept ==
  ASSUME PostAuthorsInv, UNCHANGED <<writer, scene, got, verdicts>>,
         troubled \subseteq troubled', faults' \in {faults, faults + 1},
         \A s \in {"noticeCreated", "noticeDeleted", "noticePost", "noticeJudged"} :
           inbox'[s] = inbox[s]
  PROVE  PostAuthorsInv'
<1>1. faults' \in Nat /\ (faults' = 0 => faults = 0)
  BY DEF PostAuthorsInv
<1>2. ASSUME NEW c \in born PROVE AuthorKnows(c)' <=> AuthorKnows(c)
  BY DEF AuthorKnows, Present, Waits, writer
<1>3. ASSUME NEW p \in Post PROVE VerdictIsTold(p)' <=> VerdictIsTold(p)
  BY DEF VerdictIsTold, Waits, writer
<1>4. PostAuthorsKnow'
  BY <1>1, <1>2, <1>3, PostAuthorsKnowIs, PostAuthorsKnowNext DEF PostAuthorsInv, writer
<1> QED BY <1>1, <1>4 DEF PostAuthorsInv, writer

LEMMA WriterPostAuthors ==
  ASSUME OrderInv, PostAuthorsInv, WriterStep, UNCHANGED nvars
  PROVE  PostAuthorsInv'
<1>a. /\ UNCHANGED <<scene, got, verdicts>> /\ troubled \subseteq troubled' /\ born \subseteq born'
      /\ faults' \in {faults, faults + 1} /\ done' = done
  BY WriterElsewhere DEF OrderInv, nvars, notices, WriterStep, AskForPost, CreateComment, CreateRow,
     DeleteComment, JudgePost, DeletePost, DeleteAllPostComments, ClearingFails, Fault
<1>b. ASSUME NEW kind, NEW id PROVE About(kind, id).kind = kind /\ About(kind, id).id = id
  BY DEF About
<1>c. RowsMatch /\ EventsTell
  BY DEF OrderInv
<1>d. /\ got \subseteq born' /\ DOMAIN verdicts = Post /\ faults' \in Nat
      /\ faults' = 0 => faults = 0
  BY <1>a DEF PostAuthorsInv
<1>e. "noticeCreated" \in scene.consumers => {"noticeDeleted", "noticePost"} \subseteq scene.consumers
  BY <1>c, SceneAssumption DEF RowsMatch
\* An announcement adds but itself, to the inboxes of its readers.
<1>f. ASSUME NEW kind, NEW id, Publish(About(kind, id))
      PROVE  \A s \in Consumer : \A k, i :
               Waits(s, k, i)' <=> \/ Waits(s, k, i)
                                   \/ s \in scene.consumers /\ kind \in Reads[s] /\ k = kind /\ i = id
  <2>1. \A k, i : About(k, i) = About(kind, id) <=> k = kind /\ i = id
    BY DEF About
  <2>2. \A s \in Consumer : inbox'[s] = inbox[s] \cup
          IF s \in scene.consumers /\ kind \in Reads[s] THEN {About(kind, id)} ELSE {}
    BY <1>a, <1>b, <1>f, PublishedToReaders DEF OrderInv
  <2> QED BY <2>1, <2>2 DEF Waits
<1>1. ASSUME NEW c \in Comment, CreateComment(c) PROVE PostAuthorsInv'
  <2>1. /\ UNCHANGED <<posts, judged>> /\ comments' = comments \cup {c} /\ born' = born \cup {c}
        /\ c \in asked /\ c \notin got
        /\ \/ Publish(About("created", c)) /\ troubled' = troubled
           \/ inbox' = inbox /\ c \in troubled'
    BY <1>1, <1>c DEF CreateComment, CreateRow, Disturbed, RowsMatch, PostAuthorsInv
  <2>2. \A s \in {"noticeDeleted", "noticePost", "noticeJudged"} : \A k, i :
          Waits(s, k, i)' <=> Waits(s, k, i)
    BY <1>f, <2>1, ReadsAre DEF Waits
  <2>3. ASSUME NEW d \in born \ {c}
        PROVE  Waits("noticeCreated", "created", d)' <=> Waits("noticeCreated", "created", d)
    BY <1>f, <2>1, <2>3, ReadsAre DEF Waits
  <2>4. ASSUME "noticeCreated" \in scene.consumers, NEW d \in born' \ troubled' PROVE AuthorKnows(d)'
    <3>1. CASE d = c
      <4>1. Waits("noticeCreated", "created", c)'
        BY <1>f, <2>1, <2>4, <3>1, ReadsAre
      <4>2. Present(c)'
        BY <1>c, <2>1, <2>4, <3>1 DEF RowsMatch, Present
      <4> QED BY <1>a, <2>1, <3>1, <4>1, <4>2 DEF AuthorKnows
    <3>2. CASE d # c
      <4>1. d \in born \ troubled /\ (Present(d)' <=> Present(d))
        BY <1>a, <2>1, <3>2 DEF Present
      <4>2. AuthorKnows(d)
        BY <2>4, <4>1, PostAuthorsKnowIs DEF PostAuthorsInv
      <4> QED BY <1>a, <2>2, <2>3, <3>2, <4>1, <4>2 DEF AuthorKnows
    <3> QED BY <3>1, <3>2
  <2>5. ASSUME NEW p \in Post PROVE VerdictIsTold(p)' <=> VerdictIsTold(p)
    BY <1>a, <2>1, <2>2 DEF VerdictIsTold
  <2>6. PostAuthorsKnow'
    BY <1>a, <1>d, <2>4, <2>5, PostAuthorsKnowIs, PostAuthorsKnowNext DEF PostAuthorsInv
  <2> QED BY <1>a, <1>d, <2>6 DEF PostAuthorsInv
<1>2. ASSUME NEW c \in Comment, DeleteComment(c) PROVE PostAuthorsInv'
  <2>1. /\ UNCHANGED <<posts, judged, born>> /\ comments' = comments \ {c}
        /\ \/ Publish(About("deleted", c))
           \/ inbox' = inbox /\ c \in troubled'
    BY <1>2 DEF DeleteComment, DeleteRow, Disturbed
  <2>2. \A s \in {"noticeCreated", "noticePost", "noticeJudged"} : \A k, i :
          Waits(s, k, i)' <=> Waits(s, k, i)
    BY <1>f, <2>1, ReadsAre DEF Waits
  <2>3. ASSUME NEW d \in born \ {c}
        PROVE  Waits("noticeDeleted", "deleted", d)' <=> Waits("noticeDeleted", "deleted", d)
    BY <1>f, <2>1, <2>3, ReadsAre DEF Waits
  <2>4. ASSUME "noticeCreated" \in scene.consumers, NEW d \in born' \ troubled' PROVE AuthorKnows(d)'
    <3>1. CASE d = c
      <4>1. Waits("noticeDeleted", "deleted", c)'
        BY <1>e, <1>f, <2>1, <2>4, <3>1, ReadsAre
      <4>2. ~Present(c)'
        BY <2>1 DEF Present
      <4> QED BY <3>1, <4>1, <4>2 DEF AuthorKnows
    <3>2. CASE d # c
      <4>1. d \in born \ troubled /\ (Present(d)' <=> Present(d))
        BY <1>a, <2>1, <3>2 DEF Present
      <4>2. AuthorKnows(d)
        BY <2>4, <4>1, PostAuthorsKnowIs DEF PostAuthorsInv
      <4> QED BY <1>a, <2>2, <2>3, <3>2, <4>1, <4>2 DEF AuthorKnows
    <3> QED BY <3>1, <3>2
  <2>5. ASSUME NEW p \in Post PROVE VerdictIsTold(p)' <=> VerdictIsTold(p)
    BY <1>a, <2>1, <2>2 DEF VerdictIsTold
  <2>6. PostAuthorsKnow'
    BY <1>a, <1>d, <2>4, <2>5, PostAuthorsKnowIs, PostAuthorsKnowNext DEF PostAuthorsInv
  <2> QED BY <1>a, <1>d, <2>6 DEF PostAuthorsInv
<1>3. ASSUME NEW p \in Post, DeletePost(p) PROVE PostAuthorsInv'
  <2>1. /\ UNCHANGED <<comments, judged, born>> /\ posts' = posts \ {p}
        /\ \/ Publish(About("postDeleted", p))
           \/ inbox' = inbox /\ CommentsOf(p) \subseteq troubled'
    BY <1>3 DEF DeletePost, Disturbed
  <2>2. \A s \in {"noticeCreated", "noticeDeleted", "noticeJudged"} : \A k, i :
          Waits(s, k, i)' <=> Waits(s, k, i)
    BY <1>f, <2>1, ReadsAre DEF Waits
  <2>3. ASSUME NEW q \in Post \ {p}
        PROVE  Waits("noticePost", "postDeleted", q)' <=> Waits("noticePost", "postDeleted", q)
    BY <1>f, <2>1, <2>3, ReadsAre DEF Waits
  <2>4. ASSUME "noticeCreated" \in scene.consumers, NEW d \in born' \ troubled' PROVE AuthorKnows(d)'
    <3>a. d \in Comment /\ PostOf[d] \in Post
      BY <1>c, <2>1, CommentsAssumption DEF RowsMatch
    <3>1. CASE PostOf[d] = p
      <4>1. Waits("noticePost", "postDeleted", p)'
        BY <1>e, <1>f, <2>1, <2>4, <3>1, <3>a, ReadsAre DEF CommentsOf
      <4>2. ~Present(d)'
        BY <2>1, <3>1 DEF Present
      <4> QED BY <3>1, <4>1, <4>2 DEF AuthorKnows
    <3>2. CASE PostOf[d] # p
      <4>1. d \in born \ troubled /\ (Present(d)' <=> Present(d))
        BY <1>a, <2>1, <3>2 DEF Present
      <4>2. AuthorKnows(d)
        BY <2>4, <4>1, PostAuthorsKnowIs DEF PostAuthorsInv
      <4> QED BY <1>a, <2>2, <2>3, <3>2, <3>a, <4>1, <4>2 DEF AuthorKnows
    <3> QED BY <3>1, <3>2
  <2>5. ASSUME NEW q \in Post PROVE VerdictIsTold(q)' <=> VerdictIsTold(q)
    BY <1>a, <2>1, <2>2 DEF VerdictIsTold
  <2>6. PostAuthorsKnow'
    BY <1>a, <1>d, <2>4, <2>5, PostAuthorsKnowIs, PostAuthorsKnowNext DEF PostAuthorsInv
  <2> QED BY <1>a, <1>d, <2>6 DEF PostAuthorsInv
<1>4. ASSUME NEW p \in Post, DeleteAllPostComments(p) PROVE PostAuthorsInv'
  <2>1. /\ UNCHANGED <<posts, judged, born, inbox, troubled>> /\ p \notin posts
        /\ comments' = comments \ CommentsOf(p)
    BY <1>4, <1>c DEF DeleteAllPostComments, WithoutRowsOf, RowsMatch
  <2>2. \A d : Present(d)' <=> Present(d)
    BY <2>1 DEF Present, CommentsOf
  <2>3. \A d \in born : AuthorKnows(d)' <=> AuthorKnows(d)
    BY <1>a, <2>1, <2>2 DEF AuthorKnows, Waits
  <2>4. ASSUME NEW q \in Post PROVE VerdictIsTold(q)' <=> VerdictIsTold(q)
    BY <1>a, <2>1 DEF VerdictIsTold, Waits
  <2>5. PostAuthorsKnow'
    BY <1>a, <1>d, <2>1, <2>3, <2>4, PostAuthorsKnowIs, PostAuthorsKnowNext DEF PostAuthorsInv
  <2> QED BY <1>a, <1>d, <2>1, <2>5 DEF PostAuthorsInv
<1>5. ASSUME NEW p \in Post, NEW verdict \in Judgement, JudgePost(p, verdict) PROVE PostAuthorsInv'
  <2>1. /\ UNCHANGED <<posts, comments, born, troubled>> /\ Publish(About("postJudged", p))
        /\ judged' = [judged EXCEPT ![p] = verdict] /\ judged[p] = "pending"
    BY <1>5 DEF JudgePost
  <2>2. \A s \in {"noticeCreated", "noticeDeleted", "noticePost"} : \A k, i :
          Waits(s, k, i)' <=> Waits(s, k, i)
    BY <1>f, <2>1, ReadsAre
  <2>3. \A d \in born : AuthorKnows(d)' <=> AuthorKnows(d)
    BY <1>a, <2>1, <2>2 DEF AuthorKnows, Present
  <2>4. ASSUME NEW q \in Post, VerdictIsTold(q), "noticeJudged" \in scene.consumers
        PROVE  VerdictIsTold(q)'
    <3>1. CASE q = p
      <4>1. Waits("noticeJudged", "postJudged", p)' /\ verdicts[p] = 0
        BY <1>f, <2>1, <2>4, <3>1, ReadsAre DEF VerdictIsTold
      <4> QED BY <1>a, <3>1, <4>1 DEF VerdictIsTold
    <3>2. CASE q # p
      <4>1. Waits("noticeJudged", "postJudged", q)' <=> Waits("noticeJudged", "postJudged", q)
        BY <1>f, <2>1, <3>2, ReadsAre
      <4>2. judged'[q] = judged[q]
        BY <1>c, <2>1, <3>2 DEF RowsMatch
      <4> QED BY <1>a, <2>4, <4>1, <4>2 DEF VerdictIsTold
    <3> QED BY <3>1, <3>2
  <2>5. PostAuthorsKnow'
    BY <1>a, <1>d, <2>1, <2>3, <2>4, PostAuthorsKnowIs, PostAuthorsKnowNext DEF PostAuthorsInv
  <2> QED BY <1>a, <1>d, <2>5 DEF PostAuthorsInv
<1>6. ASSUME NEW c \in Comment, AskForPost(c) PROVE PostAuthorsInv'
  <2>1. UNCHANGED <<posts, comments, judged, born, inbox, troubled, faults>>
    BY <1>6 DEF AskForPost
  <2>2. \A d \in born : AuthorKnows(d)' <=> AuthorKnows(d)
    BY <1>a, <2>1 DEF AuthorKnows, Waits, Present
  <2>3. \A q \in Post : VerdictIsTold(q)' <=> VerdictIsTold(q)
    BY <1>a, <2>1 DEF VerdictIsTold, Waits
  <2>4. PostAuthorsKnow'
    BY <1>a, <2>1, <2>2, <2>3, PostAuthorsKnowIs, PostAuthorsKnowNext DEF PostAuthorsInv
  <2> QED BY <1>a, <1>d, <2>1, <2>4 DEF PostAuthorsInv
<1>7. ASSUME NEW p \in Post, ClearingFails(p) PROVE PostAuthorsInv'
  <2>1. UNCHANGED <<posts, comments, judged, born, inbox, troubled>>
    BY <1>7 DEF ClearingFails
  <2>2. \A d \in born : AuthorKnows(d)' <=> AuthorKnows(d)
    BY <1>a, <2>1 DEF AuthorKnows, Waits, Present
  <2>3. \A q \in Post : VerdictIsTold(q)' <=> VerdictIsTold(q)
    BY <1>a, <2>1 DEF VerdictIsTold, Waits
  <2>4. PostAuthorsKnow'
    BY <1>a, <1>d, <2>1, <2>2, <2>3, PostAuthorsKnowIs, PostAuthorsKnowNext DEF PostAuthorsInv
  <2> QED BY <1>a, <1>d, <2>1, <2>4 DEF PostAuthorsInv
<1> QED BY <1>1, <1>2, <1>3, <1>4, <1>5, <1>6, <1>7 DEF WriterStep


\* What the handling of an event leaves of those that wait.
LEMMA WaitsAfter ==
  ASSUME Inboxes, NEW s \in Consumer, NEW e \in inbox[s], Handled(s, e), NEW kind, NEW id
  PROVE  /\ Waits(s, kind, id)' <=> Waits(s, kind, id) /\ e # About(kind, id)
         /\ \A r \in Consumer \ {s} : Waits(r, kind, id)' <=> Waits(r, kind, id)
BY HandledOnlyThere DEF Waits

LEMMA NotifierPostAuthors ==
  ASSUME OrderInv, TaskWaits, PostAuthorsInv, NotifierStep
  PROVE  PostAuthorsInv'
<1>a. UNCHANGED <<writer, scene>> /\ troubled \subseteq troubled'
  BY NotifierElsewhere DEF OrderInv
<1>b. faults' \in {faults, faults + 1}
  BY DEF NotifierStep, NotifyPostAuthor, CommentGone, PostGone, NotifyVerdict, LikedReads,
         UnlikedUpdates, LikedWrites, UnlikedRemoves, NotifierFails, NotifierRestarts, Fault, cvars
<1>c. RowsMatch /\ EventsTell /\ NewsOfPresent /\ Inboxes
  BY DEF OrderInv
<1>d. /\ got \subseteq born /\ DOMAIN verdicts = Post /\ faults' \in Nat
      /\ faults' = 0 => faults = 0
  BY <1>b DEF PostAuthorsInv
<1>e. \A d : Present(d)' <=> Present(d)
  BY <1>a DEF Present, writer
<1>f. \A k, i, l, j : About(k, i) = About(l, j) <=> k = l /\ i = j
  BY DEF About
<1>g. ASSUME NEW s \in Consumer, NEW e \in inbox[s]
      PROVE  e = About(e.kind, e.id) /\ e.kind \in Reads[s] /\ Tells(e)
  BY <1>c DEF EventsTell, Events
\* It remains to look at comments and posts one by one.
<1>h. ASSUME got' \subseteq born, DOMAIN verdicts' = Post,
             "noticeCreated" \in scene.consumers =>
               \A c \in born \ troubled' : AuthorKnows(c) => AuthorKnows(c)',
             "noticeJudged" \in scene.consumers /\ faults' = 0 =>
               \A p \in Post : VerdictIsTold(p) => VerdictIsTold(p)'
      PROVE  PostAuthorsInv'
  <2>1. PostAuthorsKnow'
    BY <1>a, <1>d, <1>h, PostAuthorsKnowIs, PostAuthorsKnowNext DEF PostAuthorsInv, writer
  <2> QED BY <1>a, <1>d, <1>h, <2>1 DEF PostAuthorsInv, writer
<1>1. ASSUME NEW e \in inbox["noticeCreated"], NotifyPostAuthor(e) PROVE PostAuthorsInv'
  <2>1. /\ verdicts' = verdicts /\ Handled("noticeCreated", e)
        /\ got' = WithNoticeOf(e.id) \/ (got' = got /\ e.id \in troubled')
    BY <1>1 DEF NotifyPostAuthor, Trouble
  <2>2. e = About("created", e.id) /\ e.kind = "created" /\ e.id \in born
    BY <1>g, ReadsAre DEF Tells
  <2>3. got' \subseteq born /\ \A c \in born \ {e.id} : c \in got' <=> c \in got
    BY <2>1, <2>2, <1>d DEF WithNoticeOf
  <2>4. ASSUME NEW c \in born \ troubled', AuthorKnows(c) PROVE AuthorKnows(c)'
    <3>1. /\ Waits("noticeDeleted", "deleted", c)' <=> Waits("noticeDeleted", "deleted", c)
          /\ Waits("noticePost", "postDeleted", PostOf[c])' <=> Waits("noticePost", "postDeleted", PostOf[c])
          /\ Waits("noticeCreated", "created", c)' <=>
               Waits("noticeCreated", "created", c) /\ e # About("created", c)
      <4>1. {"noticeCreated", "noticeDeleted", "noticePost"} \subseteq Consumer
        BY ReadsAre
      <4>2. ASSUME NEW kind, NEW id
            PROVE  /\ Waits("noticeCreated", kind, id)' <=> Waits("noticeCreated", kind, id) /\ e # About(kind, id)
                   /\ \A r \in Consumer \ {"noticeCreated"} : Waits(r, kind, id)' <=> Waits(r, kind, id)
        BY <1>c, <2>1, <4>1, WaitsAfter
      <4> QED BY <4>1, <4>2
    <3>2. CASE e.id = c
      <4>1. Present(c)
        BY <1>a, <1>c, <2>2, <3>2, ReadsAre DEF NewsOfPresent, NewsOf, RowsMatch
      <4>2. Waits("noticeCreated", "created", c) /\ c \notin got
        BY <2>2, <2>4, <3>2, <4>1 DEF AuthorKnows, Waits
      <4>3. c \in got' <=> ByAnother(c)
        BY <2>1, <3>2, <4>2 DEF WithNoticeOf, ToAuthor, ByAnother
      <4> QED BY <1>e, <2>2, <3>1, <3>2, <4>1, <4>3 DEF AuthorKnows
    <3>3. CASE e.id # c
      BY <1>e, <1>f, <2>2, <2>3, <2>4, <3>1, <3>3 DEF AuthorKnows
    <3> QED BY <3>2, <3>3
  <2>5. \A p \in Post : VerdictIsTold(p) => VerdictIsTold(p)'
    BY <1>a, <1>c, <2>1, WaitsAfter, ReadsAre DEF VerdictIsTold, writer
  <2> QED BY <1>d, <1>h, <2>1, <2>3, <2>4, <2>5
<1>2. ASSUME NEW e \in inbox["noticeDeleted"], CommentGone(e) PROVE PostAuthorsInv'
  <2>1. verdicts' = verdicts /\ Handled("noticeDeleted", e) /\ got' = got \ {e.id}
    BY <1>2 DEF CommentGone, WithoutNoticeOf
  <2>2. e = About("deleted", e.id) /\ e.id \notin comments
    BY <1>g, ReadsAre DEF Tells
  <2>3. ASSUME NEW c \in born \ troubled', AuthorKnows(c) PROVE AuthorKnows(c)'
    <3>1. /\ Waits("noticeCreated", "created", c)' <=> Waits("noticeCreated", "created", c)
          /\ Waits("noticePost", "postDeleted", PostOf[c])' <=> Waits("noticePost", "postDeleted", PostOf[c])
          /\ Waits("noticeDeleted", "deleted", c)' <=>
               Waits("noticeDeleted", "deleted", c) /\ e # About("deleted", c)
      <4>1. {"noticeCreated", "noticeDeleted", "noticePost"} \subseteq Consumer
        BY ReadsAre
      <4>2. ASSUME NEW kind, NEW id
            PROVE  /\ Waits("noticeDeleted", kind, id)' <=> Waits("noticeDeleted", kind, id) /\ e # About(kind, id)
                   /\ \A r \in Consumer \ {"noticeDeleted"} : Waits(r, kind, id)' <=> Waits(r, kind, id)
        BY <1>c, <2>1, <4>1, WaitsAfter
      <4> QED BY <4>1, <4>2
    <3>2. CASE e.id = c
      BY <1>e, <2>1, <2>2, <3>2 DEF AuthorKnows, Present
    <3>3. CASE e.id # c
      BY <1>e, <1>f, <2>1, <2>2, <2>3, <3>1, <3>3 DEF AuthorKnows
    <3> QED BY <3>2, <3>3
  <2>4. \A p \in Post : VerdictIsTold(p) => VerdictIsTold(p)'
    BY <1>a, <1>c, <2>1, WaitsAfter, ReadsAre DEF VerdictIsTold, writer
  <2> QED BY <1>d, <1>h, <2>1, <2>3, <2>4
<1>3. ASSUME NEW e \in inbox["noticePost"], PostGone(e) PROVE PostAuthorsInv'
  <2>1. verdicts' = verdicts /\ Handled("noticePost", e) /\ got' = got \ CommentsOf(e.id)
    BY <1>3 DEF PostGone
  <2>2. e = About("postDeleted", e.id) /\ e.id \notin posts
    BY <1>g, ReadsAre DEF Tells
  <2>3. ASSUME NEW c \in born \ troubled', AuthorKnows(c) PROVE AuthorKnows(c)'
    <3>1. /\ Waits("noticeCreated", "created", c)' <=> Waits("noticeCreated", "created", c)
          /\ Waits("noticeDeleted", "deleted", c)' <=> Waits("noticeDeleted", "deleted", c)
          /\ Waits("noticePost", "postDeleted", PostOf[c])' <=>
               Waits("noticePost", "postDeleted", PostOf[c]) /\ e # About("postDeleted", PostOf[c])
      <4>1. /\ "noticePost" \in Consumer /\ "noticeCreated" \in Consumer \ {"noticePost"}
            /\ "noticeDeleted" \in Consumer \ {"noticePost"}
        BY ReadsAre
      <4> QED BY <1>c, <2>1, <4>1, WaitsAfter
    <3>2. c \in Comment
      BY <1>c DEF RowsMatch
    <3>3. CASE e.id = PostOf[c]
      BY <1>e, <2>1, <2>2, <3>2, <3>3 DEF AuthorKnows, Present, CommentsOf
    <3>4. CASE e.id # PostOf[c]
      <4>1. c \in got' <=> c \in got
        BY <2>1, <3>4 DEF CommentsOf
      <4> QED BY <1>e, <1>f, <2>2, <2>3, <3>1, <3>4, <4>1 DEF AuthorKnows
    <3> QED BY <3>3, <3>4
  <2>4. \A p \in Post : VerdictIsTold(p) => VerdictIsTold(p)'
    BY <1>a, <1>c, <2>1, WaitsAfter, ReadsAre DEF VerdictIsTold, writer
  <2> QED BY <1>d, <1>h, <2>1, <2>3, <2>4
<1>4. ASSUME NEW e \in inbox["noticeJudged"], NotifyVerdict(e) PROVE PostAuthorsInv'
  <2>1. /\ got' = got /\ Handled("noticeJudged", e) /\ faults' = faults
        /\ verdicts' = [verdicts EXCEPT ![e.id] = @ + NoticesOf(judged[e.id])]
    BY <1>4 DEF NotifyVerdict
  <2>2. e = About("postJudged", e.id) /\ e.id \in Post /\ judged[e.id] # "pending"
    BY <1>g, ReadsAre DEF Tells
  <2>3. ASSUME NEW c \in born, AuthorKnows(c) PROVE AuthorKnows(c)'
    <3>1. \A s \in {"noticeCreated", "noticeDeleted", "noticePost"} : \A k, i :
            Waits(s, k, i)' <=> Waits(s, k, i)
      BY <1>c, <2>1, WaitsAfter, ReadsAre
    <3> QED BY <1>e, <2>1, <2>3, <3>1 DEF AuthorKnows
  <2>4. ASSUME NEW p \in Post, VerdictIsTold(p) PROVE VerdictIsTold(p)'
    <3>1. Waits("noticeJudged", "postJudged", p)' <=>
            Waits("noticeJudged", "postJudged", p) /\ e # About("postJudged", p)
      BY <1>c, <2>1, WaitsAfter, ReadsAre
    <3>2. CASE e.id = p
      <4>1. verdicts[p] = 0
        BY <2>2, <2>4, <3>2 DEF VerdictIsTold, Waits
      <4>2. verdicts'[p] = NoticesOf(judged[p])
        BY <1>d, <2>1, <3>2, <4>1 DEF NoticesOf
      <4> QED BY <1>a, <2>2, <3>1, <3>2, <4>2 DEF VerdictIsTold, NoticesOf, writer
    <3>3. CASE e.id # p
      <4>1. verdicts'[p] = verdicts[p]
        BY <1>d, <2>1, <3>3
      <4> QED BY <1>a, <1>f, <2>2, <2>4, <3>1, <3>3, <4>1 DEF VerdictIsTold, writer
    <3> QED BY <3>2, <3>3
  <2>5. DOMAIN verdicts' = Post
    BY <1>d, <2>1
  <2> QED BY <1>d, <1>h, <2>1, <2>3, <2>4, <2>5
<1>5. ASSUME NEW s \in Notifier, NEW e \in inbox[s], NotifierFails(s, e) PROVE PostAuthorsInv'
  <2>1. /\ UNCHANGED nvars /\ Handled(s, e) /\ CommentsIn(e) \subseteq troubled'
        /\ faults' = faults + 1 /\ s \in Consumer
    BY <1>5, ReadsAre DEF NotifierFails, Trouble, Fault, Notifier
  <2>2. ASSUME NEW c \in born \ troubled', AuthorKnows(c) PROVE AuthorKnows(c)'
    <3>1. c \in Comment /\ e.id # c /\ e.id # PostOf[c]
      BY <1>c, <2>1 DEF CommentsIn, RowsMatch
    <3>2. \A r \in Consumer : \A k \in {"created", "deleted", "postDeleted"} :
            /\ Waits(r, k, c)' <=> Waits(r, k, c)
            /\ Waits(r, k, PostOf[c])' <=> Waits(r, k, PostOf[c])
      <4>1. \A k : e # About(k, c) /\ e # About(k, PostOf[c])
        BY <3>1 DEF About
      <4> QED BY <1>c, <2>1, <4>1, WaitsAfter
    <3> QED BY <1>e, <2>1, <2>2, <3>2, ReadsAre DEF AuthorKnows, nvars, notices
  <2>3. faults' # 0
    BY <2>1 DEF PostAuthorsInv
  <2> QED BY <1>d, <1>h, <2>1, <2>2, <2>3 DEF nvars, notices
<1>6. ASSUME NEW s \in Notifier, NEW e \in done[s], NotifierRestarts(s, e) PROVE PostAuthorsInv'
  <2>1. /\ UNCHANGED notices /\ inbox' = [inbox EXCEPT ![s] = @ \cup {e}]
        /\ CommentsIn(e) \subseteq troubled' /\ faults' = faults + 1 /\ s \in Consumer
    BY <1>6, ReadsAre DEF NotifierRestarts, Trouble, Fault, Notifier
  <2>2. ASSUME NEW c \in born \ troubled', AuthorKnows(c) PROVE AuthorKnows(c)'
    <3>1. c \in Comment /\ e.id # c /\ e.id # PostOf[c]
      BY <1>c, <2>1 DEF CommentsIn, RowsMatch
    <3>2. \A r \in Consumer : \A k \in {"created", "deleted", "postDeleted"} :
            /\ Waits(r, k, c)' <=> Waits(r, k, c)
            /\ Waits(r, k, PostOf[c])' <=> Waits(r, k, PostOf[c])
      <4>1. \A k : e # About(k, c) /\ e # About(k, PostOf[c])
        BY <3>1 DEF About
      <4>2. \A r \in Consumer : inbox'[r] = inbox[r] \cup IF r = s THEN {e} ELSE {}
        BY <1>c, <2>1 DEF Inboxes
      <4> QED BY <4>1, <4>2 DEF Waits
    <3> QED BY <1>e, <2>1, <2>2, <3>2, ReadsAre DEF AuthorKnows, notices
  <2>3. faults' # 0
    BY <2>1 DEF PostAuthorsInv
  <2> QED BY <1>d, <1>h, <2>1, <2>2, <2>3 DEF notices
<1>7. CASE /\ UNCHANGED <<got, verdicts>>
           /\ \/ UNCHANGED inbox
              \/ \E s \in {"noticeLiked", "noticeUnliked"} : \E e \in inbox[s] : Handled(s, e)
  <2>1. \A s \in {"noticeCreated", "noticeDeleted", "noticePost", "noticeJudged"} :
          inbox'[s] = inbox[s]
    BY <1>c, <1>7, HandledOnlyThere, ReadsAre
  <2> QED BY <1>a, <1>b, <1>7, <2>1, PostAuthorsKept
<1>8. CASE \/ \E e \in inbox["noticeLiked"] : LikedReads(e)
           \/ \E e \in inbox["noticeUnliked"] : UnlikedUpdates(e)
           \/ LikedWrites \/ UnlikedRemoves
  <2>1. UNCHANGED <<got, verdicts>>
    BY <1>8 DEF LikedReads, UnlikedUpdates, LikedWrites, UnlikedRemoves, notices
  <2>2. CASE \/ \E e \in inbox["noticeLiked"] : LikedReads(e)
             \/ \E e \in inbox["noticeUnliked"] : UnlikedUpdates(e)
    BY <1>7, <2>1, <2>2 DEF LikedReads, UnlikedUpdates
  <2>3. CASE LikedWrites
    <3>1. likedTask.event \in inbox["noticeLiked"] /\ Handled("noticeLiked", likedTask.event)
      BY <2>3 DEF LikedWrites, TaskWaits, Idle
    <3> QED BY <1>7, <2>1, <3>1
  <2>4. CASE UnlikedRemoves
    BY <1>7, <2>1, <2>4 DEF UnlikedRemoves, cvars
  <2> QED BY <1>8, <2>2, <2>3, <2>4
<1>9. CASE \E s \in Notifier : \/ \E e \in inbox[s] : NotifierFails(s, e)
                              \/ \E e \in done[s] : NotifierRestarts(s, e)
  BY <1>5, <1>6, <1>9
<1> QED
  BY <1>1, <1>2, <1>3, <1>4, <1>8, <1>9 DEF NotifierStep

LEMMA NextPostAuthors ==
  OrderInv /\ TaskWaits /\ PostAuthorsInv /\ [NotiNext]_vars => PostAuthorsInv'
<1> SUFFICES ASSUME OrderInv, TaskWaits, PostAuthorsInv, [NotiNext]_vars
             PROVE  PostAuthorsInv'
  OBVIOUS
<1>1. CASE ProxyStep /\ UNCHANGED nvars
  <2>1. faults' \in {faults, faults + 1}
    BY <1>1 DEF ProxyStep, UpsertPost, Written, DeletePostDocument, IndexPostFails, UpsertComment, DeleteCommentDocument,
       CountCreated, CountDeleted, EachMessage, Rotate, Flush, FlushFails, IndexFails,
       ProxyRestarts, Fault
  <2> QED BY <1>1, <2>1, ProxyElsewhere, PostAuthorsKept, ReadsAre DEF OrderInv, nvars, notices, Proxy
<1>2. ASSUME NEW u \in User, NEW c \in Comment, Like(u, c) \/ Unlike(u, c)
      PROVE  PostAuthorsInv'
  BY <1>2, LikesElsewhere, PostAuthorsKept, ReadsAre DEF OrderInv, notices
<1>3. CASE UNCHANGED vars
  BY <1>3, PostAuthorsKept DEF vars, cvars, nvars, notices
<1> QED
  BY <1>1, <1>2, <1>3, WriterPostAuthors, NotifierPostAuthors DEF NotiNext

\* The author of a post learns of the comments of others that are there, and
\* once of a bad verdict (PostGotCommentNotificationService,
\* PostModerationNotificationService).
THEOREM PostAuthorsAreTold == NotiSpec => []PostAuthorsKnow
<1>1. PostAuthorsInv => PostAuthorsKnow
  BY DEF PostAuthorsInv
<1> QED
  BY <1>1, InitHistory, NextHistory, InitPostAuthors, NextPostAuthors, PTL DEF NotiSpec

----------------------------------------------------------------------------
(***************************************************************************)
(* Likes.  Two consumers write the notification of a comment, in two steps  *)
(* each; unless both are at it, which is trouble, what one read is still so *)
(* when it writes.                                                          *)
(***************************************************************************)
Notice(c) == likesNotice[c]

LikeTypes ==
  /\ IsFiniteSet(everLiked)
  /\ likesNotice = [c \in Comment |-> [count |-> Notice(c).count, linked |-> Notice(c).linked]]
  /\ \A c \in Comment : Notice(c).count \in Int
  /\ \A c \in Comment \ born : Notice(c) = NoNotice
  /\ likedTask # Idle =>
       /\ likedTask.comment = likedTask.event.id[2]
       /\ likedTask.event.id[1] # CommentAuthor[likedTask.comment]
  /\ unlikedTask # Idle => unlikedTask.pc = "remove" /\ unlikedTask.comment \in born

NoticeIsSound(c) ==
  /\ ~ (Busy(likedTask, c) /\ Busy(unlikedTask, c))
  /\ Busy(likedTask, c) /\ likedTask.existing => Notice(c) # NoNotice
  /\ Busy(unlikedTask, c) => Notice(c).count = 0
  /\ Notice(c) # NoNotice => Notice(c).linked /\ (Notice(c).count > 0 \/ Busy(unlikedTask, c))

LikesAreKnown(c) ==
  /\ Present(c) /\ (\E u \in User : <<u, c>> \in everLiked) => c \in index
  /\ \A u \in User : Waits("noticeLiked", "liked", <<u, c>>) => <<u, c>> \in likes

CountIsRight(c) ==
  IF Present(c)
  THEN Notice(c).count + Cardinality(WaitingLikes("noticeLiked", c))
         - Cardinality(WaitingLikes("noticeUnliked", c)) = Cardinality(LikesBy(c, likes))
  ELSE \/ Notice(c) = NoNotice
       \/ Waits("noticeDeleted", "deleted", c)
       \/ Waits("noticePost", "postDeleted", PostOf[c])

LikesOf(c) == NoticeIsSound(c) /\ LikesAreKnown(c) /\ CountIsRight(c)

LikesInv ==
  LikeTypes /\ ("noticeLiked" \in scene.consumers => \A c \in born \ troubled : LikesOf(c))

\* The sets of likes that are counted, among those ever given.
Likes(c) == LikesBy(c, everLiked)
CountedAmongAll ==
  \A c \in Comment :
    /\ \A l \in Likes(c) : l = <<l[1], c>> /\ l[1] \in User
    /\ LikesBy(c, likes) = {l \in Likes(c) : l \in likes}
    /\ WaitingLikes("noticeLiked", c) = {l \in Likes(c) : Waits("noticeLiked", "liked", l)}
    /\ WaitingLikes("noticeUnliked", c) = {l \in Likes(c) : Waits("noticeUnliked", "unliked", l)}

LEMMA CountedLikes == OrderInv => CountedAmongAll
<1> SUFFICES ASSUME OrderInv, NEW c \in Comment
             PROVE  /\ \A l \in Likes(c) : l = <<l[1], c>> /\ l[1] \in User
                    /\ LikesBy(c, likes) = {l \in Likes(c) : l \in likes}
                    /\ WaitingLikes("noticeLiked", c) = {l \in Likes(c) : Waits("noticeLiked", "liked", l)}
                    /\ WaitingLikes("noticeUnliked", c) = {l \in Likes(c) : Waits("noticeUnliked", "unliked", l)}
  BY DEF CountedAmongAll
<1>1. everLiked \subseteq User \X born /\ likes \subseteq everLiked
  BY DEF OrderInv, RowsMatch
<1>2. \A e \in inbox["noticeLiked"] : e = About("liked", e.id) /\ e.id \in everLiked
  BY ReadsAre DEF OrderInv, EventsTell, Events, Tells
<1>3. \A e \in inbox["noticeUnliked"] : e = About("unliked", e.id) /\ e.id \in everLiked
  BY ReadsAre DEF OrderInv, EventsTell, Events, Tells
<1>4. \A k, l : About(k, l).id = l
  BY DEF About
<1>5. \A l \in Likes(c) : l = <<l[1], c>> /\ l[1] \in User
  BY <1>1 DEF Likes, LikesBy
<1>6. LikesBy(c, likes) = {l \in Likes(c) : l \in likes}
  BY <1>1 DEF Likes, LikesBy
<1>7. WaitingLikes("noticeLiked", c) = {l \in Likes(c) : Waits("noticeLiked", "liked", l)}
  BY <1>2, <1>4 DEF WaitingLikes, Likes, LikesBy, Waits
<1>8. WaitingLikes("noticeUnliked", c) = {l \in Likes(c) : Waits("noticeUnliked", "unliked", l)}
  BY <1>3, <1>4 DEF WaitingLikes, Likes, LikesBy, Waits
<1> QED BY <1>5, <1>6, <1>7, <1>8

LEMMA CountedLikesNext == OrderInv' => CountedAmongAll'
BY CountedLikes, PTL

LEMMA LikesAreFinite ==
  ASSUME OrderInv, LikeTypes, NEW c \in Comment
  PROVE  /\ IsFiniteSet(Likes(c))
         /\ \A S \in SUBSET Likes(c) : IsFiniteSet(S) /\ Cardinality(S) \in Nat
<1>1. IsFiniteSet(Likes(c))
  BY FS_Subset DEF LikeTypes, Likes, LikesBy
<1> QED BY <1>1, FS_Subset, FS_CardinalityType

\* A step that leaves alone all that concerns a comment's notification.
LEMMA LikesOfKept ==
  ASSUME OrderInv, OrderInv', NEW c \in Comment, LikesOf(c),
         Notice(c)' = Notice(c),
         Busy(likedTask, c)' => likedTask' = likedTask,
         Busy(unlikedTask, c)' <=> Busy(unlikedTask, c),
         Present(c)' <=> Present(c),
         Present(c) /\ c \in index => c \in index',
         \A u \in User :
           /\ <<u, c>> \in everLiked' <=> <<u, c>> \in everLiked
           /\ <<u, c>> \in likes' <=> <<u, c>> \in likes
           /\ u # CommentAuthor[c] =>
                /\ Waits("noticeLiked", "liked", <<u, c>>)' <=> Waits("noticeLiked", "liked", <<u, c>>)
                /\ Waits("noticeUnliked", "unliked", <<u, c>>)' <=> Waits("noticeUnliked", "unliked", <<u, c>>)
           /\ Waits("noticeLiked", "liked", <<u, c>>)' => Waits("noticeLiked", "liked", <<u, c>>),
         ~Present(c) => /\ Waits("noticeDeleted", "deleted", c) => Waits("noticeDeleted", "deleted", c)'
                        /\ Waits("noticePost", "postDeleted", PostOf[c]) => Waits("noticePost", "postDeleted", PostOf[c])'
  PROVE  LikesOf(c)'
<1>1. NoticeIsSound(c)'
  BY DEF LikesOf, NoticeIsSound, Busy
<1>2. LikesAreKnown(c)'
  BY DEF LikesOf, LikesAreKnown
<1>3. Likes(c)' = Likes(c)
  <2>1. \A l \in Likes(c) \cup Likes(c)' : l = <<l[1], c>> /\ l[1] \in User
    BY CountedLikes, CountedLikesNext DEF CountedAmongAll
  <2>2. \A u \in User : <<u, c>> \in Likes(c)' <=> <<u, c>> \in Likes(c)
    BY DEF Likes, LikesBy
  <2> QED BY <2>1, <2>2
<1>4. ASSUME NEW l \in Likes(c)
      PROVE  /\ l \in likes' <=> l \in likes
             /\ Waits("noticeLiked", "liked", l)' <=> Waits("noticeLiked", "liked", l)
             /\ Waits("noticeUnliked", "unliked", l)' <=> Waits("noticeUnliked", "unliked", l)
  <2>1. PICK u \in User : l = <<u, c>>
    BY CountedLikes DEF CountedAmongAll
  <2>2. u # CommentAuthor[c]
    BY <2>1 DEF Likes, LikesBy
  <2> QED BY <2>1, <2>2
<1>5. /\ WaitingLikes("noticeLiked", c)' = WaitingLikes("noticeLiked", c)
      /\ WaitingLikes("noticeUnliked", c)' = WaitingLikes("noticeUnliked", c)
      /\ LikesBy(c, likes)' = LikesBy(c, likes)
  <2>1. /\ WaitingLikes("noticeLiked", c)' = {l \in Likes(c)' : Waits("noticeLiked", "liked", l)'}
        /\ WaitingLikes("noticeUnliked", c)' = {l \in Likes(c)' : Waits("noticeUnliked", "unliked", l)'}
        /\ LikesBy(c, likes)' = {l \in Likes(c)' : l \in likes'}
    BY CountedLikesNext DEF CountedAmongAll
  <2>2. /\ WaitingLikes("noticeLiked", c) = {l \in Likes(c) : Waits("noticeLiked", "liked", l)}
        /\ WaitingLikes("noticeUnliked", c) = {l \in Likes(c) : Waits("noticeUnliked", "unliked", l)}
        /\ LikesBy(c, likes) = {l \in Likes(c) : l \in likes}
    BY CountedLikes DEF CountedAmongAll
  <2> QED BY <1>3, <1>4, <2>1, <2>2
<1>6. CountIsRight(c)'
  BY <1>5 DEF LikesOf, CountIsRight
<1> QED BY <1>1, <1>2, <1>6 DEF LikesOf

LEMMA LikeEvents ==
  ASSUME OrderInv, NEW s \in {"noticeLiked", "noticeUnliked"}, NEW e \in inbox[s]
  PROVE  /\ e = About(IF s = "noticeLiked" THEN "liked" ELSE "unliked", e.id)
         /\ e.id = <<e.id[1], e.id[2]>> /\ e.id[1] \in User /\ e.id[2] \in born
         /\ e.id \in everLiked /\ (s = "noticeUnliked" => e.id \notin likes)
         /\ e.id[2] \in troubled \/ Present(e.id[2])
<1>1. /\ e = About(e.kind, e.id) /\ Tells(e)
      /\ e.kind = IF s = "noticeLiked" THEN "liked" ELSE "unliked"
  BY ReadsAre DEF OrderInv, EventsTell, Events
<1>2. e.id \in everLiked /\ (s = "noticeUnliked" => e.id \notin likes)
  BY <1>1 DEF Tells
<1>3. e.id = <<e.id[1], e.id[2]>> /\ e.id[1] \in User /\ e.id[2] \in born /\ e.id[2] \in Comment
  BY <1>2 DEF OrderInv, RowsMatch
<1>4. NewsOf(e, e.id[2])
  BY <1>1, <1>3 DEF NewsOf
<1>5. e.id[2] \in troubled \/ Present(e.id[2])
  BY <1>3, <1>4, ReadsAre DEF OrderInv, NewsOfPresent
<1> QED BY <1>1, <1>2, <1>3, <1>5

\* A comment that goes is announced, or in trouble.
LEMMA GoneIsAnnounced ==
  ASSUME OrderInv, WriterStep, {"noticeDeleted", "noticePost"} \subseteq scene.consumers
  PROVE  /\ inbox'["noticeLiked"] = inbox["noticeLiked"] /\ inbox'["noticeUnliked"] = inbox["noticeUnliked"]
         /\ \A d \in born \ troubled' :
              /\ Present(d)' => Present(d)
              /\ Present(d) /\ ~Present(d)' => \/ Waits("noticeDeleted", "deleted", d)'
                                               \/ Waits("noticePost", "postDeleted", PostOf[d])'
<1>a. done' = done
  BY WriterElsewhere DEF OrderInv
<1>b. ASSUME NEW kind, NEW id, Publish(About(kind, id)), kind \notin {"liked", "unliked"}
      PROVE  /\ inbox'["noticeLiked"] = inbox["noticeLiked"] /\ inbox'["noticeUnliked"] = inbox["noticeUnliked"]
             /\ \A s \in scene.consumers \cap Consumer : kind \in Reads[s] => Waits(s, kind, id)'
  <2>1. About(kind, id).kind = kind
    BY DEF About
  <2>2. \A r \in Consumer : inbox'[r] = inbox[r] \cup
          IF r \in scene.consumers /\ kind \in Reads[r] THEN {About(kind, id)} ELSE {}
    BY <1>a, <1>b, <2>1, PublishedToReaders DEF OrderInv
  <2>3. inbox'["noticeLiked"] = inbox["noticeLiked"] /\ inbox'["noticeUnliked"] = inbox["noticeUnliked"]
    BY <1>b, <2>2, ReadsAre
  <2>4. \A s \in scene.consumers \cap Consumer : kind \in Reads[s] => Waits(s, kind, id)'
    BY <2>2 DEF Waits
  <2> QED BY <2>3, <2>4
<1>c. RowsMatch
  BY DEF OrderInv
<1>1. CASE \E c \in Comment : AskForPost(c)
  BY <1>1 DEF AskForPost, Present
<1>2. ASSUME NEW c \in Comment, CreateComment(c)
      PROVE  /\ inbox'["noticeLiked"] = inbox["noticeLiked"] /\ inbox'["noticeUnliked"] = inbox["noticeUnliked"]
             /\ \A d \in born : Present(d)' <=> Present(d)
  BY <1>2, <1>b, <1>c DEF CreateComment, CreateRow, Present, RowsMatch
<1>3. ASSUME NEW c \in Comment, DeleteComment(c)
      PROVE  /\ inbox'["noticeLiked"] = inbox["noticeLiked"] /\ inbox'["noticeUnliked"] = inbox["noticeUnliked"]
             /\ c \in troubled' \/ Waits("noticeDeleted", "deleted", c)'
             /\ \A d : (Present(d)' => Present(d)) /\ (d # c => (Present(d)' <=> Present(d)))
  BY <1>3, <1>b, ReadsAre DEF DeleteComment, DeleteRow, Disturbed, Present
<1>4. ASSUME NEW p \in Post, DeletePost(p)
      PROVE  /\ inbox'["noticeLiked"] = inbox["noticeLiked"] /\ inbox'["noticeUnliked"] = inbox["noticeUnliked"]
             /\ CommentsOf(p) \subseteq troubled' \/ Waits("noticePost", "postDeleted", p)'
             /\ \A d : (Present(d)' => Present(d)) /\ (PostOf[d] # p => (Present(d)' <=> Present(d)))
  BY <1>4, <1>b, ReadsAre DEF DeletePost, Disturbed, Present
<1>5. CASE \E p \in Post : DeleteAllPostComments(p) \/ ClearingFails(p)
  BY <1>5, <1>c DEF DeleteAllPostComments, ClearingFails, WithoutRowsOf, CommentsOf, Present, RowsMatch
<1>6. CASE \E p \in Post, verdict \in Judgement : JudgePost(p, verdict)
  BY <1>6, <1>b DEF JudgePost, Present
<1>7. born \subseteq Comment
  BY <1>c DEF RowsMatch
<1>8. CASE \E c \in Comment : CreateComment(c)
  BY <1>2, <1>8
<1>9. CASE \E c \in Comment : DeleteComment(c)
  BY <1>3, <1>9
<1>10. CASE \E p \in Post : DeletePost(p)
  BY <1>4, <1>7, <1>10 DEF CommentsOf
<1> QED
  BY <1>1, <1>5, <1>6, <1>8, <1>9, <1>10 DEF WriterStep

LEMMA InitLikes == NotiInit => LikesInv
BY FS_EmptySet DEF NotiInit, Init, LikesInv, LikeTypes, NoNotice, Notice

LEMMA WriterLikes ==
  ASSUME OrderInv, OrderInv', TaskWaits, LikesInv, WriterStep, UNCHANGED nvars
  PROVE  LikesInv'
<1>a. UNCHANGED <<likes, everLiked, likesNotice, likedTask, unlikedTask, scene, index>>
      /\ troubled \subseteq troubled'
  BY WriterElsewhere DEF OrderInv, nvars, notices, documents
<1>b. RowsMatch /\ born \subseteq born'
  BY DEF OrderInv, WriterStep, AskForPost, CreateComment, CreateRow, DeleteComment, JudgePost,
         DeletePost, DeleteAllPostComments, ClearingFails
<1>1. LikeTypes'
  BY <1>a, <1>b DEF LikesInv, LikeTypes, Notice
<1>2. ASSUME "noticeLiked" \in scene.consumers, NEW d \in born' \ troubled' PROVE LikesOf(d)'
  <2>a. {"noticeDeleted", "noticePost"} \subseteq scene.consumers
    BY <1>2, <1>b, SceneAssumption DEF RowsMatch
  <2>b. d \in Comment
    BY DEF OrderInv, RowsMatch
  <2>c. /\ inbox'["noticeLiked"] = inbox["noticeLiked"] /\ inbox'["noticeUnliked"] = inbox["noticeUnliked"]
        /\ \A r \in Consumer : inbox[r] \subseteq inbox'[r]
    BY <2>a, GoneIsAnnounced, WriterElsewhere DEF OrderInv
  <2>1. CASE d \notin born
    <3>1. \A u \in User : <<u, d>> \notin everLiked
      BY <2>1, <1>b DEF RowsMatch
    <3>2. Notice(d) = NoNotice
      BY <2>1, <2>b DEF LikesInv, LikeTypes
    <3>3. ~Busy(unlikedTask, d)
      BY <2>1 DEF LikesInv, LikeTypes, Busy
    <3>4. ~Busy(likedTask, d)
      <4>1. likedTask # Idle => likedTask.event.id[2] \in born
        BY LikeEvents DEF TaskWaits
      <4> QED BY <2>1, <4>1 DEF LikesInv, LikeTypes, Busy
    <3>5. NoticeIsSound(d)' /\ Notice(d)' = NoNotice
      BY <1>a, <3>2, <3>3, <3>4 DEF NoticeIsSound, Notice, Busy
    <3>6. LikesAreKnown(d)'
      <4>1. \A e \in inbox["noticeLiked"] : e.id \in everLiked
        BY LikeEvents
      <4>2. \A u \in User : About("liked", <<u, d>>).id = <<u, d>>
        BY DEF About
      <4>3. \A u \in User : About("liked", <<u, d>>) \notin inbox["noticeLiked"]
        BY <3>1, <4>1, <4>2
      <4> QED BY <1>a, <2>c, <3>1, <4>3 DEF LikesAreKnown, Waits
    <3>7. Likes(d)' = {}
      BY <1>a, <3>1, <2>b, CountedLikesNext DEF CountedAmongAll, Likes, LikesBy
    <3>8. CountIsRight(d)'
      <4>1. /\ WaitingLikes("noticeLiked", d)' = {} /\ WaitingLikes("noticeUnliked", d)' = {}
            /\ LikesBy(d, likes)' = {}
        BY <2>b, <3>7, CountedLikesNext DEF CountedAmongAll
      <4> QED BY <3>5, <4>1, FS_EmptySet DEF CountIsRight, NoNotice
    <3> QED BY <3>5, <3>6, <3>8 DEF LikesOf
  <2>2. CASE d \in born /\ (Present(d)' <=> Present(d))
    <3>1. LikesOf(d)
      BY <1>2, <1>a, <2>2 DEF LikesInv
    <3> QED BY <1>a, <2>2, <2>b, <2>c, <3>1, LikesOfKept, ReadsAre DEF Waits, Notice
  <2>3. CASE d \in born /\ Present(d) /\ ~Present(d)'
    <3>1. CountIsRight(d)'
      BY <2>3, <2>a, GoneIsAnnounced DEF CountIsRight
    <3>2. NoticeIsSound(d)' /\ LikesAreKnown(d)'
      <4>1. NoticeIsSound(d) /\ LikesAreKnown(d)
        BY <1>2, <1>a, <2>3 DEF LikesInv, LikesOf
      <4>2. NoticeIsSound(d)'
        BY <1>a, <4>1 DEF NoticeIsSound, Notice, Busy
      <4>3. LikesAreKnown(d)'
        BY <1>a, <2>3, <2>c, <4>1 DEF LikesAreKnown, Waits
      <4> QED BY <4>2, <4>3
    <3> QED BY <3>1, <3>2 DEF LikesOf
  <2>4. d \in born => (Present(d)' => Present(d))
    BY <2>a, GoneIsAnnounced
  <2> QED BY <2>1, <2>2, <2>3, <2>4
<1> QED BY <1>1, <1>2, <1>a DEF LikesInv

\* The index loses no comment that can be seen.
LEMMA ProxyKeepsSeen ==
  ASSUME OrderInv, ProxyStep, NEW c \in index, Present(c)
  PROVE  c \in index'
<1>1. ASSUME NEW e \in inbox["indexPost"], DeletePostDocument(e) PROVE c \in index'
  <2>1. e.id \notin posts
    BY <1>1, ReadsAre DEF OrderInv, EventsTell, Events, Tells, DeletePostDocument
  <2> QED BY <1>1, <2>1 DEF DeletePostDocument, WithoutCommentsOf, CommentsOf, Present
<1>2. ASSUME NEW e \in inbox["indexDeleted"], DeleteCommentDocument(e) PROVE c \in index'
  <2>1. e.id \notin comments
    BY ReadsAre DEF OrderInv, EventsTell, Events, Tells
  <2> QED BY <1>2, <2>1 DEF DeleteCommentDocument, DeleteById, Present
<1>3. CASE ~ (\/ \E e \in inbox["indexPost"] : DeletePostDocument(e)
              \/ \E e \in inbox["indexDeleted"] : DeleteCommentDocument(e))
  BY <1>3 DEF ProxyStep, UpsertPost, IndexPostFails, UpsertComment, WithComment, IsIndexed, CountCreated, CountDeleted,
     EachMessage, Rotate, Flush, FlushFails, IndexFails, ProxyRestarts, documents
<1> QED BY <1>1, <1>2, <1>3

LEMMA ProxyLikes ==
  ASSUME OrderInv, OrderInv', LikesInv, ProxyStep, UNCHANGED nvars
  PROVE  LikesInv'
<1>a. /\ UNCHANGED <<likes, everLiked, likesNotice, likedTask, unlikedTask, scene, writer>>
      /\ troubled \subseteq troubled'
      /\ \A r \in {"noticeLiked", "noticeUnliked", "noticeDeleted", "noticePost"} : inbox'[r] = inbox[r]
  BY ProxyElsewhere, ReadsAre DEF OrderInv, nvars, notices, Proxy
<1>1. LikeTypes'
  BY <1>a DEF LikesInv, LikeTypes, Notice, writer
<1>2. ASSUME "noticeLiked" \in scene.consumers, NEW d \in born \ troubled' PROVE LikesOf(d)'
  <2>1. LikesOf(d) /\ d \in Comment
    BY <1>2, <1>a DEF LikesInv, OrderInv, RowsMatch
  <2>2. Present(d)' <=> Present(d)
    BY <1>a DEF Present, writer
  <2>3. Present(d) /\ d \in index => d \in index'
    BY ProxyKeepsSeen
  <2> QED BY <1>a, <2>1, <2>2, <2>3, LikesOfKept DEF Waits, Notice
<1> QED BY <1>1, <1>2, <1>a DEF LikesInv, writer

LEMMA LikeLikes ==
  ASSUME OrderInv, OrderInv', LikesInv, NEW u \in User, NEW c \in Comment, Like(u, c)
  PROVE  LikesInv'
<1>a. /\ UNCHANGED <<likesNotice, likedTask, unlikedTask, scene, writer, index>>
      /\ troubled \subseteq troubled'
      /\ \A r \in {"noticeDeleted", "noticePost"} : inbox'[r] = inbox[r]
  BY LikesElsewhere, ReadsAre DEF OrderInv, notices, documents
<1>b. /\ c \in index /\ <<u, c>> \notin everLiked /\ "noticeLiked" \in scene.consumers
      /\ likes' = likes \cup {<<u, c>>} /\ everLiked' = everLiked \cup {<<u, c>>}
      /\ c \in troubled' \/ Present(c)
      /\ Publish(About("liked", <<u, c>>)) /\ done' = done
  BY DEF Like, Trouble
<1>c. /\ inbox'["noticeLiked"] = inbox["noticeLiked"] \cup {About("liked", <<u, c>>)}
      /\ inbox'["noticeUnliked"] = inbox["noticeUnliked"]
  <2>1. About("liked", <<u, c>>).kind = "liked"
    BY DEF About
  <2>2. \A r \in Consumer : inbox'[r] = inbox[r] \cup
          IF r \in scene.consumers /\ "liked" \in Reads[r] THEN {About("liked", <<u, c>>)} ELSE {}
    BY <1>b, <2>1, PublishedToReaders DEF OrderInv
  <2>3. /\ "noticeLiked" \in scene.consumers /\ "liked" \in Reads["noticeLiked"]
        /\ "liked" \notin Reads["noticeUnliked"] /\ {"noticeLiked", "noticeUnliked"} \subseteq Consumer
    BY <1>b, ReadsAre
  <2> QED BY <2>2, <2>3
<1>d. \A k, i, l, j : About(k, i) = About(l, j) <=> k = l /\ i = j
  BY DEF About
<1>1. LikeTypes'
  BY <1>a, <1>b, FS_AddElement DEF LikesInv, LikeTypes, Notice, writer
<1>2. ASSUME NEW d \in born \ troubled' PROVE LikesOf(d)'
  <2>1. LikesOf(d) /\ d \in Comment
    BY <1>b, <1>a DEF LikesInv, OrderInv, RowsMatch
  <2>2. Present(d)' <=> Present(d)
    BY <1>a DEF Present, writer
  <2>3. \A l : /\ Waits("noticeLiked", "liked", l)' <=> Waits("noticeLiked", "liked", l) \/ l = <<u, c>>
               /\ Waits("noticeUnliked", "unliked", l)' <=> Waits("noticeUnliked", "unliked", l)
    BY <1>c, <1>d DEF Waits
  <2>4. CASE d # c
    <3>1. \A v \in User : <<v, d>> # <<u, c>>
      BY <2>4
    <3> QED BY <1>a, <1>b, <2>1, <2>2, <2>3, <3>1, LikesOfKept DEF Waits, Notice
  <2>5. CASE d = c
    <3>1. NoticeIsSound(c)'
      BY <1>a, <2>1, <2>5 DEF LikesOf, NoticeIsSound, Notice, Busy
    <3>2. LikesAreKnown(c)'
      BY <1>a, <1>b, <2>1, <2>3, <2>5 DEF LikesOf, LikesAreKnown
    <3>3. Present(c)
      BY <1>b, <2>5
    <3>4. ~Waits("noticeLiked", "liked", <<u, c>>) /\ ~Waits("noticeUnliked", "unliked", <<u, c>>)
      <4>1. \A s \in {"noticeLiked", "noticeUnliked"} : \A e \in inbox[s] : e.id # <<u, c>>
        BY <1>b, LikeEvents
      <4>2. \A k : About(k, <<u, c>>).id = <<u, c>>
        BY DEF About
      <4> QED BY <4>1, <4>2 DEF Waits
    <3>a. /\ WaitingLikes("noticeLiked", c)' = {l \in Likes(c)' : Waits("noticeLiked", "liked", l)'}
          /\ WaitingLikes("noticeUnliked", c)' = {l \in Likes(c)' : Waits("noticeUnliked", "unliked", l)'}
          /\ LikesBy(c, likes)' = {l \in Likes(c)' : l \in likes'}
      BY CountedLikesNext DEF CountedAmongAll
    <3>b. /\ WaitingLikes("noticeLiked", c) = {l \in Likes(c) : Waits("noticeLiked", "liked", l)}
          /\ WaitingLikes("noticeUnliked", c) = {l \in Likes(c) : Waits("noticeUnliked", "unliked", l)}
          /\ LikesBy(c, likes) = {l \in Likes(c) : l \in likes}
      BY CountedLikes DEF CountedAmongAll
    <3>5. CASE u = CommentAuthor[c]
      <4>1. Likes(c)' = Likes(c) /\ <<u, c>> \notin Likes(c)
        BY <1>b, <3>5 DEF Likes, LikesBy
      <4>2. /\ WaitingLikes("noticeLiked", c)' = WaitingLikes("noticeLiked", c)
            /\ WaitingLikes("noticeUnliked", c)' = WaitingLikes("noticeUnliked", c)
            /\ LikesBy(c, likes)' = LikesBy(c, likes)
        BY <1>b, <2>3, <3>a, <3>b, <4>1
      <4> QED BY <1>a, <2>1, <2>2, <2>5, <3>1, <3>2, <3>3, <4>2 DEF LikesOf, CountIsRight, Notice
    <3>6. CASE u # CommentAuthor[c]
      <4>1. Likes(c)' = Likes(c) \cup {<<u, c>>} /\ <<u, c>> \notin Likes(c)
        BY <1>b, <3>6 DEF Likes, LikesBy
      <4>2. /\ WaitingLikes("noticeLiked", c)' = WaitingLikes("noticeLiked", c) \cup {<<u, c>>}
            /\ WaitingLikes("noticeUnliked", c)' = WaitingLikes("noticeUnliked", c)
            /\ LikesBy(c, likes)' = LikesBy(c, likes) \cup {<<u, c>>}
            /\ <<u, c>> \notin WaitingLikes("noticeLiked", c) /\ <<u, c>> \notin LikesBy(c, likes)
        BY <1>b, <2>3, <3>4, <3>a, <3>b, <4>1
      <4>3. /\ IsFiniteSet(WaitingLikes("noticeLiked", c)) /\ IsFiniteSet(LikesBy(c, likes))
            /\ Cardinality(WaitingLikes("noticeLiked", c)) \in Nat
            /\ Cardinality(WaitingLikes("noticeUnliked", c)) \in Nat
            /\ Cardinality(LikesBy(c, likes)) \in Nat
        BY <3>b, LikesAreFinite DEF LikesInv
      <4>4. /\ Cardinality(WaitingLikes("noticeLiked", c)') = Cardinality(WaitingLikes("noticeLiked", c)) + 1
            /\ Cardinality(LikesBy(c, likes)') = Cardinality(LikesBy(c, likes)) + 1
        BY <4>2, <4>3, FS_AddElement
      <4>5. Notice(c).count \in Int /\ Notice(c)' = Notice(c)
        BY <1>a DEF LikesInv, LikeTypes, Notice
      <4>6. CountIsRight(c)'
        BY <2>1, <2>2, <2>5, <3>3, <4>2, <4>3, <4>4, <4>5 DEF LikesOf, CountIsRight
      <4> QED BY <2>5, <3>1, <3>2, <4>6 DEF LikesOf
    <3> QED BY <3>5, <3>6
  <2> QED BY <2>4, <2>5
<1> QED BY <1>1, <1>2, <1>a DEF LikesInv, writer

LEMMA UnlikeLikes ==
  ASSUME OrderInv, OrderInv', LikesInv, NEW u \in User, NEW c \in Comment, Unlike(u, c)
  PROVE  LikesInv'
<1>a. /\ UNCHANGED <<likesNotice, likedTask, unlikedTask, scene, writer, index, everLiked>>
      /\ troubled \subseteq troubled'
      /\ \A r \in {"noticeDeleted", "noticePost"} : inbox'[r] = inbox[r]
  BY LikesElsewhere, ReadsAre DEF OrderInv, notices, documents, Unlike
<1>b. /\ <<u, c>> \in likes /\ likes' = likes \ {<<u, c>>}
      /\ Publish(About("unliked", <<u, c>>)) /\ done' = done
      /\ \/ c \in troubled'
         \/ Present(c) /\ ~Waits("noticeLiked", "liked", <<u, c>>)
  BY DEF Unlike, Trouble
<1>c. /\ "noticeUnliked" \in scene.consumers =>
           inbox'["noticeUnliked"] = inbox["noticeUnliked"] \cup {About("unliked", <<u, c>>)}
      /\ inbox'["noticeLiked"] = inbox["noticeLiked"]
  <2>1. About("unliked", <<u, c>>).kind = "unliked"
    BY DEF About
  <2>2. \A r \in Consumer : inbox'[r] = inbox[r] \cup
          IF r \in scene.consumers /\ "unliked" \in Reads[r] THEN {About("unliked", <<u, c>>)} ELSE {}
    BY <1>b, <2>1, PublishedToReaders DEF OrderInv
  <2> QED BY <1>b, <2>2, ReadsAre
<1>d. \A k, i, l, j : About(k, i) = About(l, j) <=> k = l /\ i = j
  BY DEF About
<1>1. LikeTypes'
  BY <1>a DEF LikesInv, LikeTypes, Notice, writer
<1>2. ASSUME "noticeLiked" \in scene.consumers, NEW d \in born \ troubled' PROVE LikesOf(d)'
  <2>1. LikesOf(d) /\ d \in Comment
    BY <1>2, <1>a DEF LikesInv, OrderInv, RowsMatch
  <2>2. Present(d)' <=> Present(d)
    BY <1>a DEF Present, writer
  <2>a. "noticeUnliked" \in scene.consumers
    BY <1>2, SceneAssumption DEF OrderInv, RowsMatch
  <2>3. \A l : /\ Waits("noticeLiked", "liked", l)' <=> Waits("noticeLiked", "liked", l)
               /\ Waits("noticeUnliked", "unliked", l)' <=> Waits("noticeUnliked", "unliked", l) \/ l = <<u, c>>
    BY <1>c, <1>d, <2>a DEF Waits
  <2>4. CASE d # c
    <3>1. \A v \in User : <<v, d>> # <<u, c>>
      BY <2>4
    <3> QED BY <1>a, <1>b, <2>1, <2>2, <2>3, <3>1, LikesOfKept DEF Waits, Notice
  <2>5. CASE d = c
    <3>1. NoticeIsSound(c)'
      BY <1>a, <2>1, <2>5 DEF LikesOf, NoticeIsSound, Notice, Busy
    <3>2. Present(c) /\ ~Waits("noticeLiked", "liked", <<u, c>>)
      BY <1>b, <2>5
    <3>3. LikesAreKnown(c)'
      BY <1>a, <1>b, <2>1, <2>2, <2>3, <2>5, <3>2 DEF LikesOf, LikesAreKnown
    <3>4. ~Waits("noticeUnliked", "unliked", <<u, c>>)
      <4>1. \A e \in inbox["noticeUnliked"] : e.id # <<u, c>>
        BY <1>b, LikeEvents
      <4>2. About("unliked", <<u, c>>).id = <<u, c>>
        BY DEF About
      <4> QED BY <4>1, <4>2 DEF Waits
    <3>a. /\ WaitingLikes("noticeLiked", c)' = {l \in Likes(c)' : Waits("noticeLiked", "liked", l)'}
          /\ WaitingLikes("noticeUnliked", c)' = {l \in Likes(c)' : Waits("noticeUnliked", "unliked", l)'}
          /\ LikesBy(c, likes)' = {l \in Likes(c)' : l \in likes'}
      BY CountedLikesNext DEF CountedAmongAll
    <3>b. /\ WaitingLikes("noticeLiked", c) = {l \in Likes(c) : Waits("noticeLiked", "liked", l)}
          /\ WaitingLikes("noticeUnliked", c) = {l \in Likes(c) : Waits("noticeUnliked", "unliked", l)}
          /\ LikesBy(c, likes) = {l \in Likes(c) : l \in likes}
      BY CountedLikes DEF CountedAmongAll
    <3>c. Likes(c)' = Likes(c)
      BY <1>a DEF Likes, LikesBy
    <3>5. CASE u = CommentAuthor[c]
      <4>1. <<u, c>> \notin Likes(c)
        BY <3>5 DEF Likes, LikesBy
      <4>2. /\ WaitingLikes("noticeLiked", c)' = WaitingLikes("noticeLiked", c)
            /\ WaitingLikes("noticeUnliked", c)' = WaitingLikes("noticeUnliked", c)
            /\ LikesBy(c, likes)' = LikesBy(c, likes)
        <5>1. \A l \in Likes(c) : l # <<u, c>>
          BY <4>1
        <5>2. \A l \in Likes(c) : Waits("noticeLiked", "liked", l)' <=> Waits("noticeLiked", "liked", l)
          BY <1>b, <2>3, <5>1
        <5>3. \A l \in Likes(c) : Waits("noticeUnliked", "unliked", l)' <=> Waits("noticeUnliked", "unliked", l)
          BY <1>b, <2>3, <5>1
        <5>4. \A l \in Likes(c) : l \in likes' <=> l \in likes
          BY <1>b, <2>3, <5>1
        <5> QED BY <3>a, <3>b, <3>c, <5>2, <5>3, <5>4
      <4> QED BY <1>a, <2>1, <2>2, <2>5, <3>1, <3>3, <3>2, <4>2 DEF LikesOf, CountIsRight, Notice
    <3>6. CASE u # CommentAuthor[c]
      <4>1. <<u, c>> \in Likes(c)
        <5>1. <<u, c>> \in everLiked
          BY <1>b DEF OrderInv, RowsMatch
        <5> QED BY <3>6, <5>1 DEF Likes, LikesBy
      <4>2. /\ WaitingLikes("noticeLiked", c)' = WaitingLikes("noticeLiked", c)
            /\ WaitingLikes("noticeUnliked", c)' = WaitingLikes("noticeUnliked", c) \cup {<<u, c>>}
            /\ LikesBy(c, likes)' = LikesBy(c, likes) \ {<<u, c>>}
            /\ <<u, c>> \notin WaitingLikes("noticeUnliked", c) /\ <<u, c>> \in LikesBy(c, likes)
        BY <1>b, <2>3, <3>4, <3>a, <3>b, <3>c, <4>1
      <4>3. /\ IsFiniteSet(WaitingLikes("noticeUnliked", c)) /\ IsFiniteSet(LikesBy(c, likes))
            /\ Cardinality(WaitingLikes("noticeLiked", c)) \in Nat
            /\ Cardinality(WaitingLikes("noticeUnliked", c)) \in Nat
            /\ Cardinality(LikesBy(c, likes)) \in Nat
        BY <3>b, LikesAreFinite DEF LikesInv
      <4>4. /\ Cardinality(WaitingLikes("noticeUnliked", c)') = Cardinality(WaitingLikes("noticeUnliked", c)) + 1
            /\ Cardinality(LikesBy(c, likes)') = Cardinality(LikesBy(c, likes)) - 1
        <5>1. Cardinality(WaitingLikes("noticeUnliked", c)') = Cardinality(WaitingLikes("noticeUnliked", c)) + 1
          BY <4>2, <4>3, FS_AddElement
        <5>2. Cardinality(LikesBy(c, likes)') = Cardinality(LikesBy(c, likes)) - 1
          BY <4>2, <4>3, FS_RemoveElement
        <5> QED BY <5>1, <5>2
      <4>5. Notice(c).count \in Int /\ Notice(c)' = Notice(c)
        BY <1>a DEF LikesInv, LikeTypes, Notice
      <4>6. CountIsRight(c)'
        BY <2>1, <2>2, <2>5, <3>2, <4>2, <4>3, <4>4, <4>5 DEF LikesOf, CountIsRight
      <4> QED BY <2>5, <3>1, <3>3, <4>6 DEF LikesOf
    <3> QED BY <3>5, <3>6
  <2> QED BY <2>4, <2>5
<1> QED BY <1>1, <1>2, <1>a DEF LikesInv, writer

\* What the consumer of likes handles is of a comment that can be seen.
LEMMA BusyIsPresent ==
  ASSUME OrderInv, TaskWaits, LikeTypes, NEW c \in born \ troubled, Busy(likedTask, c)
  PROVE  Present(c)
<1>1. likedTask.event \in inbox["noticeLiked"] /\ likedTask.event.id[2] = c
  BY DEF TaskWaits, LikeTypes, Busy
<1> QED BY <1>1, LikeEvents

\* The notification of a comment goes, and is not about to be written.
LEMMA NoticeIsRemoved ==
  ASSUME NEW c, LikesOf(c), ~Busy(likedTask, c), Notice(c)' = NoNotice,
         ~Busy(likedTask, c)', Present(c)' <=> Present(c), index' = index,
         UNCHANGED <<likes, everLiked>>,
         inbox'["noticeLiked"] = inbox["noticeLiked"],
         inbox'["noticeUnliked"] = inbox["noticeUnliked"],
         Present(c) => Notice(c).count = 0
  PROVE  LikesOf(c)'
<1>1. NoticeIsSound(c)'
  BY DEF NoticeIsSound, NoNotice
<1>2. LikesAreKnown(c)'
  BY DEF LikesOf, LikesAreKnown, Waits
<1>3. CountIsRight(c)'
  BY DEF LikesOf, CountIsRight, NoNotice, WaitingLikes, LikesBy
<1> QED BY <1>1, <1>2, <1>3 DEF LikesOf

\* The notifications are a function to pairs of a count and a flag.
LEMMA NoticesAre ==
  ASSUME LikeTypes
  PROVE  /\ likesNotice = [c \in Comment |-> likesNotice[c]]
         /\ \A c \in Comment : Notice(c) = [count |-> Notice(c).count, linked |-> Notice(c).linked]
<1>1. /\ DOMAIN likesNotice = Comment
      /\ \A c \in Comment : Notice(c) = [count |-> Notice(c).count, linked |-> Notice(c).linked]
  BY DEF LikeTypes, Notice
<1>2. likesNotice = [c \in Comment |-> likesNotice[c]]
  BY <1>1 DEF LikeTypes
<1> QED BY <1>1, <1>2

LEMMA NoticesStay ==
  ASSUME NEW f, f = [c \in Comment |-> f[c]],
         \A c \in Comment : f[c] = [count |-> f[c].count, linked |-> f[c].linked]
  PROVE  f = [c \in Comment |-> [count |-> f[c].count, linked |-> f[c].linked]]
OBVIOUS

\* One notification is written.
LEMMA OneNotice ==
  ASSUME LikeTypes, NEW a \in Comment, NEW v, likesNotice' = [likesNotice EXCEPT ![a] = v]
  PROVE  /\ likesNotice' = [c \in Comment |-> likesNotice'[c]]
         /\ Notice(a)' = v
         /\ \A c \in Comment : c # a => Notice(c)' = Notice(c)
<1>1. likesNotice' = [c \in Comment |-> IF c = a THEN v ELSE likesNotice[c]]
  BY NoticesAre
<1>2. likesNotice'[a] = v /\ \A c \in Comment : c # a => likesNotice'[c] = likesNotice[c]
  BY <1>1
<1>3. likesNotice' = [c \in Comment |-> likesNotice'[c]]
  BY <1>1
<1> QED BY <1>2, <1>3 DEF Notice

LEMMA RemovalsLikes ==
  ASSUME OrderInv, OrderInv', TaskWaits, LikesInv,
         \/ \E e \in inbox["noticeDeleted"] : CommentGone(e)
         \/ \E e \in inbox["noticePost"] : PostGone(e)
         \/ UnlikedRemoves
  PROVE  LikesInv'
<1>a. UNCHANGED <<writer, scene, index, likes, everLiked, likedTask, troubled>>
  BY DEF CommentGone, PostGone, UnlikedRemoves, documents, cvars
<1>b. \A d : (Present(d)' <=> Present(d)) /\ (Busy(likedTask, d)' <=> Busy(likedTask, d))
  BY <1>a DEF Present, Busy, writer
<1>c. /\ LikeTypes /\ born \subseteq Comment /\ born' = born
      /\ \A c \in Comment : Notice(c) = [count |-> Notice(c).count, linked |-> Notice(c).linked]
      /\ NoNotice = [count |-> NoNotice.count, linked |-> NoNotice.linked] /\ NoNotice.count \in Int
  BY <1>a, NoticesAre DEF LikesInv, OrderInv, RowsMatch, NoNotice, writer
<1>d. ASSUME likesNotice' = [c \in Comment |-> likesNotice'[c]],
             \A c \in Comment : Notice(c)' \in {NoNotice, Notice(c)}, unlikedTask' \in {Idle, unlikedTask}
      PROVE  LikeTypes'
  <2>1. \A c \in Comment : likesNotice'[c] = [count |-> likesNotice'[c].count, linked |-> likesNotice'[c].linked]
    BY <1>c, <1>d DEF Notice
  <2>2. likesNotice' = [c \in Comment |-> [count |-> Notice(c)'.count, linked |-> Notice(c)'.linked]]
    BY <1>d, <2>1, NoticesStay DEF Notice
  <2>3. \A c \in Comment : Notice(c)'.count \in Int
    BY <1>c, <1>d DEF LikeTypes
  <2>4. \A c \in Comment \ born' : Notice(c)' = NoNotice
    BY <1>c, <1>d DEF LikeTypes
  <2> QED BY <1>a, <1>c, <1>d, <2>2, <2>3, <2>4 DEF LikeTypes
<1>1. CASE UnlikedRemoves
  <2>1. /\ unlikedTask # Idle /\ unlikedTask.comment \in born /\ unlikedTask' = Idle /\ inbox' = inbox
        /\ likesNotice' = [likesNotice EXCEPT ![unlikedTask.comment] = NoNotice]
    BY <1>1 DEF UnlikedRemoves, Idle, LikesInv, LikeTypes, cvars
  <2>a. PICK a \in born : a = unlikedTask.comment
    BY <2>1
  <2>2. /\ likesNotice' = [c \in Comment |-> likesNotice'[c]]
        /\ Notice(a)' = NoNotice
        /\ \A c \in Comment : c # a => Notice(c)' = Notice(c)
    BY <1>c, <2>1, <2>a, OneNotice
  <2>3. LikeTypes'
    BY <1>d, <2>1, <2>2
  <2>4. ASSUME NEW d \in born \ troubled, LikesOf(d) PROVE LikesOf(d)'
    <3>1. CASE d = a
      <4>1. Busy(unlikedTask, d)
        BY <2>1, <2>a, <3>1 DEF Busy
      <4>2. ~Busy(likedTask, d) /\ Notice(d).count = 0
        BY <2>4, <4>1 DEF LikesOf, NoticeIsSound
      <4> QED BY <1>a, <1>b, <2>1, <2>2, <2>4, <3>1, <4>2, NoticeIsRemoved
    <3>2. CASE d # a
      <4>1. ~Busy(unlikedTask, d) /\ ~Busy(unlikedTask, d)'
        BY <2>1, <2>a, <3>2 DEF Busy
      <4> QED BY <1>a, <1>b, <1>c, <2>1, <2>2, <2>4, <3>2, <4>1, LikesOfKept DEF Waits
    <3> QED BY <3>1, <3>2
  <2> QED BY <1>a, <1>c, <2>3, <2>4 DEF LikesInv
<1>2. ASSUME NEW s \in {"noticeDeleted", "noticePost"}, NEW e \in inbox[s], Handled(s, e),
             unlikedTask' = unlikedTask,
             likesNotice' = [c \in Comment |-> likesNotice'[c]],
             \A c \in Comment : Notice(c)' \in {NoNotice, Notice(c)},
             \A c \in born : Notice(c)' # Notice(c) => ~Present(c),
             \A c \in born \ troubled : LikesOf(c) =>
               \/ Notice(c)' = NoNotice /\ ~Present(c)
               \/ e # About("deleted", c) /\ e # About("postDeleted", PostOf[c])
      PROVE  LikesInv'
  <2>1. LikeTypes'
    BY <1>2, <1>d
  <2>2. /\ s \in Consumer /\ inbox'["noticeLiked"] = inbox["noticeLiked"]
        /\ inbox'["noticeUnliked"] = inbox["noticeUnliked"]
    BY <1>2, HandledOnlyThere, ReadsAre DEF OrderInv
  <2>3. ASSUME NEW d \in born \ troubled, LikesOf(d) PROVE LikesOf(d)'
    <3>1. CASE Notice(d)' = NoNotice /\ ~Present(d)
      <4>1. ~Busy(likedTask, d)
        BY <3>1, BusyIsPresent DEF LikesInv
      <4> QED BY <1>a, <1>b, <2>2, <2>3, <3>1, <4>1, NoticeIsRemoved
    <3>2. CASE Notice(d)' = Notice(d) /\ e # About("deleted", d) /\ e # About("postDeleted", PostOf[d])
      <4>1. /\ Waits("noticeDeleted", "deleted", d) => Waits("noticeDeleted", "deleted", d)'
            /\ Waits("noticePost", "postDeleted", PostOf[d]) => Waits("noticePost", "postDeleted", PostOf[d])'
        BY <1>2, <2>2, <3>2, HandledOnlyThere, ReadsAre DEF OrderInv, Waits
      <4>2. Busy(unlikedTask, d)' <=> Busy(unlikedTask, d)
        BY <1>2 DEF Busy
      <4> QED BY <1>a, <1>b, <1>c, <2>2, <2>3, <3>2, <4>1, <4>2, LikesOfKept DEF Waits
    <3> QED BY <1>2, <1>c, <2>3, <3>1, <3>2
  <2> QED BY <1>a, <2>1, <2>3 DEF LikesInv, writer
<1>3. ASSUME NEW e \in inbox["noticeDeleted"], CommentGone(e) PROVE LikesInv'
  <2>1. /\ Handled("noticeDeleted", e) /\ unlikedTask' = unlikedTask
        /\ likesNotice' = [likesNotice EXCEPT ![e.id] = NoNotice]
    BY <1>3 DEF CommentGone, WithoutLikesOf
  <2>2. e = About("deleted", e.id) /\ e.id \notin comments /\ e.id \in Comment
    BY ReadsAre DEF OrderInv, EventsTell, Events, Tells, RowsMatch
  <2>3. /\ likesNotice' = [c \in Comment |-> likesNotice'[c]]
        /\ Notice(e.id)' = NoNotice /\ ~Present(e.id)
        /\ \A c \in Comment : c # e.id => Notice(c)' = Notice(c)
    BY <1>c, <2>1, <2>2, OneNotice DEF Present
  <2>4. \A c : e = About("deleted", c) => c = e.id
    BY DEF About
  <2>5. \A c : e # About("postDeleted", c)
    BY <2>2 DEF About
  <2> QED BY <1>2, <1>c, <2>1, <2>3, <2>4, <2>5
<1>4. ASSUME NEW e \in inbox["noticePost"], PostGone(e) PROVE LikesInv'
  <2>1. /\ Handled("noticePost", e) /\ unlikedTask' = unlikedTask
        /\ likesNotice' = [c \in Comment |-> IF PostOf[c] = e.id /\ likesNotice[c].linked
                                             THEN NoNotice ELSE likesNotice[c]]
    BY <1>4 DEF PostGone
  <2>2. e = About("postDeleted", e.id) /\ e.id \notin posts
    BY ReadsAre DEF OrderInv, EventsTell, Events, Tells
  <2>3. /\ likesNotice' = [c \in Comment |-> likesNotice'[c]]
        /\ \A c \in Comment : Notice(c)' = IF PostOf[c] = e.id /\ Notice(c).linked THEN NoNotice ELSE Notice(c)
    BY <2>1 DEF Notice
  <2>4. ASSUME NEW c \in born \ troubled, LikesOf(c), PostOf[c] = e.id
        PROVE  Notice(c)' = NoNotice /\ ~Present(c)
    BY <1>c, <2>2, <2>3, <2>4 DEF LikesOf, NoticeIsSound, Present
  <2>5. \A c : e = About("postDeleted", c) => c = e.id
    BY DEF About
  <2>6. \A c : e # About("deleted", c)
    BY <2>2 DEF About
  <2>7. \A c \in born : Notice(c)' # Notice(c) => ~Present(c)
    BY <1>c, <2>2, <2>3 DEF Present
  <2> QED BY <1>2, <1>c, <2>1, <2>3, <2>4, <2>5, <2>6, <2>7
<1> QED BY <1>1, <1>3, <1>4

\* A step that has nothing to do with likes, but may handle or repeat other
\* events.
LEMMA LikesKept ==
  ASSUME OrderInv, OrderInv', LikesInv,
         UNCHANGED <<writer, scene, index, likes, everLiked, likesNotice>>,
         likedTask' \in {Idle, likedTask}, unlikedTask' \in {Idle, unlikedTask},
         troubled \subseteq troubled',
         \A d \in born \ troubled' :
           /\ Busy(unlikedTask, d) => unlikedTask' = unlikedTask
           /\ \A s \in {"noticeLiked", "noticeUnliked", "noticeDeleted", "noticePost"} :
                \A k : /\ \A u \in User : Waits(s, k, <<u, d>>)' <=> Waits(s, k, <<u, d>>)
                       /\ Waits(s, k, d)' <=> Waits(s, k, d)
                       /\ Waits(s, k, PostOf[d])' <=> Waits(s, k, PostOf[d])
  PROVE  LikesInv'
<1>1. LikeTypes'
  BY DEF LikesInv, LikeTypes, Notice, writer
<1>2. ASSUME "noticeLiked" \in scene.consumers, NEW d \in born \ troubled' PROVE LikesOf(d)'
  <2>1. LikesOf(d) /\ d \in Comment
    BY <1>2 DEF LikesInv, OrderInv, RowsMatch
  <2>2. /\ Present(d)' <=> Present(d)
        /\ Busy(likedTask, d)' => likedTask' = likedTask
        /\ Busy(unlikedTask, d)' <=> Busy(unlikedTask, d)
    BY DEF Present, Busy, writer
  <2> QED BY <2>1, <2>2, LikesOfKept DEF Notice
<1> QED BY <1>1, <1>2 DEF LikesInv, writer

\* A like or an unlike that is handled.
LEMMA LikeHandled ==
  ASSUME OrderInv, NEW s \in {"noticeLiked", "noticeUnliked"}, NEW e \in inbox[s], Handled(s, e)
  PROVE  /\ \A r \in {"noticeLiked", "noticeUnliked", "noticeDeleted", "noticePost"} :
              \A k, l : l # e.id => (Waits(r, k, l)' <=> Waits(r, k, l))
         /\ \A r \in {"noticeLiked", "noticeUnliked", "noticeDeleted", "noticePost"} \ {s} :
              \A k, l : Waits(r, k, l)' <=> Waits(r, k, l)
         /\ \A k, l : Waits(s, k, l)' => Waits(s, k, l)
         /\ ~Waits(s, IF s = "noticeLiked" THEN "liked" ELSE "unliked", e.id)'
         /\ Waits(s, IF s = "noticeLiked" THEN "liked" ELSE "unliked", e.id)
<1>1. e = About(IF s = "noticeLiked" THEN "liked" ELSE "unliked", e.id)
  BY LikeEvents
<1>2. /\ inbox'[s] = inbox[s] \ {e}
      /\ \A r \in {"noticeLiked", "noticeUnliked", "noticeDeleted", "noticePost"} \ {s} : inbox'[r] = inbox[r]
  BY HandledOnlyThere, ReadsAre DEF OrderInv
<1>3. \A k, l : l # e.id => About(k, l) # e
  BY DEF About
<1> QED BY <1>1, <1>2, <1>3 DEF Waits

LEMMA OthersLikes ==
  ASSUME OrderInv, OrderInv', LikesInv,
         \/ \E e \in inbox["noticeCreated"] : NotifyPostAuthor(e)
         \/ \E e \in inbox["noticeJudged"] : NotifyVerdict(e)
         \/ \E s \in Notifier : \/ \E e \in inbox[s] : NotifierFails(s, e)
                                \/ \E e \in done[s] : NotifierRestarts(s, e)
  PROVE  LikesInv'
<1>1. CASE \/ \E e \in inbox["noticeCreated"] : NotifyPostAuthor(e)
           \/ \E e \in inbox["noticeJudged"] : NotifyVerdict(e)
  <2>1. /\ UNCHANGED <<writer, scene, index, likes, everLiked, likesNotice, likedTask, unlikedTask>>
        /\ troubled \subseteq troubled'
    BY <1>1 DEF NotifyPostAuthor, NotifyVerdict, documents, Trouble
  <2>2. \E s \in {"noticeCreated", "noticeJudged"} : \E e \in inbox[s] : Handled(s, e)
    BY <1>1 DEF NotifyPostAuthor, NotifyVerdict
  <2>3. \A r \in {"noticeLiked", "noticeUnliked", "noticeDeleted", "noticePost"} : inbox'[r] = inbox[r]
    BY <2>2, HandledOnlyThere, ReadsAre DEF OrderInv
  <2> QED BY <2>1, <2>3, LikesKept DEF Waits
<1>2. ASSUME NEW s \in Notifier, NEW e \in inbox[s] \cup done[s],
             UNCHANGED <<writer, scene, index, likes, everLiked, likesNotice>>,
             likedTask' \in {Idle, likedTask}, unlikedTask' \in {Idle, unlikedTask},
             troubled \cup CommentsIn(e) \subseteq troubled',
             unlikedTask' # unlikedTask => unlikedTask.comment \in troubled',
             \A r \in Consumer : \A n : n # e => (n \in inbox'[r] <=> n \in inbox[r])
      PROVE  LikesInv'
  <2>1. ASSUME NEW d \in born \ troubled', NEW k, NEW u \in User
        PROVE  About(k, <<u, d>>) # e /\ About(k, d) # e /\ About(k, PostOf[d]) # e
    <3>1. d \in Comment
      BY DEF OrderInv, RowsMatch
    <3>2. e.id # d /\ e.id \notin User \X {d} /\ e.id # PostOf[d]
      BY <1>2, <3>1 DEF CommentsIn
    <3> QED BY <3>2 DEF About
  <2>2. ASSUME NEW d \in born \ troubled'
        PROVE  /\ Busy(unlikedTask, d) => unlikedTask' = unlikedTask
               /\ \A r \in {"noticeLiked", "noticeUnliked", "noticeDeleted", "noticePost"} :
                \A k : /\ \A u \in User : Waits(r, k, <<u, d>>)' <=> Waits(r, k, <<u, d>>)
                       /\ Waits(r, k, d)' <=> Waits(r, k, d)
                       /\ Waits(r, k, PostOf[d])' <=> Waits(r, k, PostOf[d])
    <3>1. Busy(unlikedTask, d) => unlikedTask' = unlikedTask
      BY <1>2 DEF Busy
    <3>2. ASSUME NEW r \in {"noticeLiked", "noticeUnliked", "noticeDeleted", "noticePost"}, NEW k
          PROVE  /\ \A u \in User : Waits(r, k, <<u, d>>)' <=> Waits(r, k, <<u, d>>)
                 /\ Waits(r, k, d)' <=> Waits(r, k, d)
                 /\ Waits(r, k, PostOf[d])' <=> Waits(r, k, PostOf[d])
      <4>1. \A n : n # e => (n \in inbox'[r] <=> n \in inbox[r])
        BY <1>2, ReadsAre
      <4>2. \A u \in User : About(k, <<u, d>>) # e
        BY <2>1
      <4>3. User # {}
        BY CommentsAssumption DEF OrderInv, RowsMatch
      <4>4. About(k, d) # e /\ About(k, PostOf[d]) # e
        BY <2>1, <4>3
      <4> QED BY <4>1, <4>2, <4>4 DEF Waits
    <3> QED BY <3>1, <3>2
  <2> QED BY <1>2, <2>2, LikesKept
<1>3. ASSUME NEW s \in Notifier, NEW e \in inbox[s], NotifierFails(s, e) PROVE LikesInv'
  <2>1. Handled(s, e) /\ s \in Consumer
    BY <1>3, ReadsAre DEF NotifierFails, Notifier
  <2>2. \A r \in Consumer : \A n : n # e => (n \in inbox'[r] <=> n \in inbox[r])
    BY <2>1, HandledOnlyThere DEF OrderInv
  <2> QED BY <1>2, <1>3, <2>2 DEF NotifierFails, documents, nvars, notices, Trouble
<1>4. ASSUME NEW s \in Notifier, NEW e \in done[s], NotifierRestarts(s, e) PROVE LikesInv'
  <2>1. inbox' = [inbox EXCEPT ![s] = @ \cup {e}] /\ s \in Consumer
    BY <1>4, ReadsAre DEF NotifierRestarts, Notifier
  <2>2. \A r \in Consumer : \A n : n # e => (n \in inbox'[r] <=> n \in inbox[r])
    BY <2>1 DEF OrderInv, Inboxes
  <2> QED BY <1>2, <1>4, <2>2 DEF NotifierRestarts, documents, notices, Trouble
<1> QED BY <1>1, <1>3, <1>4

\* What the consumer of likes passes over concerns nobody.
LEMMA SeenIfLiked ==
  ASSUME OrderInv, NEW s \in {"noticeLiked", "noticeUnliked"}, NEW e \in inbox[s],
         NEW c \in born \ troubled, c = e.id[2], LikesOf(c)
  PROVE  Present(c) /\ CommentIsKnown(c)
<1>1. Present(c) /\ e.id \in everLiked /\ e.id = <<e.id[1], c>> /\ e.id[1] \in User
  BY LikeEvents
<1> QED BY <1>1 DEF LikesOf, LikesAreKnown, CommentIsKnown

LEMMA LikedReadsLikes ==
  ASSUME OrderInv, OrderInv', LikesInv, NEW e \in inbox["noticeLiked"], LikedReads(e)
  PROVE  LikesInv'
<1>a. /\ UNCHANGED <<writer, scene, index, likes, everLiked, likesNotice, unlikedTask>>
      /\ troubled \subseteq troubled'
  BY DEF LikedReads, documents, notices, Trouble
<1>b. \A d : (Present(d)' <=> Present(d)) /\ (Busy(unlikedTask, d)' <=> Busy(unlikedTask, d))
             /\ Notice(d)' = Notice(d)
  BY <1>a DEF Present, Busy, writer, Notice
<1>c. e.id[2] \in born /\ e.id = <<e.id[1], e.id[2]>>
  BY LikeEvents
<1>d. likedTask = Idle
  BY DEF LikedReads
<1>1. CASE Concerns(e)
  <2>1. /\ likedTask' = [pc |-> "write", comment |-> e.id[2], event |-> e,
                         existing |-> Notice(e.id[2]) # NoNotice]
        /\ Busy(unlikedTask, e.id[2]) => e.id[2] \in troubled'
        /\ inbox' = inbox /\ e.id[1] # CommentAuthor[e.id[2]]
    BY <1>1 DEF LikedReads, Trouble, Notice, Concerns
  <2>2. LikeTypes'
    BY <1>a, <2>1 DEF LikesInv, LikeTypes, Notice, writer
  <2>3. ASSUME NEW d \in born \ troubled', LikesOf(d) PROVE LikesOf(d)'
    <3>1. CASE d # e.id[2]
      <4>1. ~Busy(likedTask, d)' /\ d \in Comment
        BY <2>1, <3>1 DEF Busy, OrderInv, RowsMatch
      <4> QED BY <1>a, <1>b, <2>1, <2>3, <4>1, LikesOfKept DEF Waits
    <3>2. CASE d = e.id[2]
      <4>1. ~Busy(unlikedTask, d)
        BY <2>1, <3>2
      <4>2. likedTask'.existing => Notice(d) # NoNotice
        BY <2>1, <3>2
      <4>3. NoticeIsSound(d)'
        BY <1>b, <2>3, <4>1, <4>2 DEF LikesOf, NoticeIsSound
      <4>4. LikesAreKnown(d)'
        BY <1>a, <1>b, <2>1, <2>3 DEF LikesOf, LikesAreKnown, Waits
      <4>5. CountIsRight(d)'
        BY <1>a, <1>b, <2>1, <2>3 DEF LikesOf, CountIsRight, Waits, WaitingLikes, LikesBy
      <4> QED BY <4>3, <4>4, <4>5 DEF LikesOf
    <3> QED BY <3>1, <3>2
  <2> QED BY <1>a, <2>2, <2>3 DEF LikesInv, writer
<1>2. CASE ~Concerns(e)
  <2>1. Handled("noticeLiked", e) /\ likedTask' = likedTask
    BY <1>2 DEF LikedReads
  <2>2. LikeTypes'
    BY <1>a, <2>1 DEF LikesInv, LikeTypes, Notice, writer
  <2>3. ASSUME NEW d \in born \ troubled', LikesOf(d) PROVE LikesOf(d)'
    <3>1. d \in Comment
      BY DEF OrderInv, RowsMatch
    <3>2. d = e.id[2] => e.id[1] = CommentAuthor[d]
      BY <1>2, <1>a, <2>3, SeenIfLiked DEF Concerns
    <3>3. \A u \in User : u # CommentAuthor[d] => <<u, d>> # e.id
      BY <1>c, <3>2
    <3> QED BY <1>a, <1>b, <2>1, <2>3, <3>1, <3>3, LikeHandled, LikesOfKept
  <2> QED BY <1>a, <2>2, <2>3 DEF LikesInv, writer
<1> QED BY <1>1, <1>2

\* One like or unlike of a comment is no longer waiting.
LEMMA OneHandled ==
  ASSUME OrderInv, OrderInv', LikeTypes, NEW s \in {"noticeLiked", "noticeUnliked"},
         NEW e \in inbox[s], Handled(s, e), UNCHANGED <<likes, everLiked>>,
         NEW c \in born, c = e.id[2], e.id[1] # CommentAuthor[c]
  PROVE  /\ LikesBy(c, likes)' = LikesBy(c, likes)
         /\ \A r \in {"noticeLiked", "noticeUnliked"} :
              /\ Cardinality(WaitingLikes(r, c)) \in Nat
              /\ Cardinality(WaitingLikes(r, c)') =
                   Cardinality(WaitingLikes(r, c)) - IF r = s THEN 1 ELSE 0
         /\ Cardinality(WaitingLikes(s, c)) > 0
<1>1. c \in Comment /\ e.id \in Likes(c)
  BY LikeEvents DEF OrderInv, RowsMatch, Likes, LikesBy
<1>a. /\ WaitingLikes("noticeLiked", c)' = {l \in Likes(c)' : Waits("noticeLiked", "liked", l)'}
      /\ WaitingLikes("noticeUnliked", c)' = {l \in Likes(c)' : Waits("noticeUnliked", "unliked", l)'}
      /\ Likes(c)' = Likes(c) /\ LikesBy(c, likes)' = LikesBy(c, likes)
  BY <1>1, CountedLikesNext DEF CountedAmongAll, Likes, LikesBy
<1>b. /\ WaitingLikes("noticeLiked", c) = {l \in Likes(c) : Waits("noticeLiked", "liked", l)}
      /\ WaitingLikes("noticeUnliked", c) = {l \in Likes(c) : Waits("noticeUnliked", "unliked", l)}
  BY <1>1, CountedLikes DEF CountedAmongAll
<1>2. \A r \in {"noticeLiked", "noticeUnliked"} :
        WaitingLikes(r, c)' = WaitingLikes(r, c) \ IF r = s THEN {e.id} ELSE {}
  BY <1>a, <1>b, LikeHandled
<1>3. e.id \in WaitingLikes(s, c)
  BY <1>b, <1>1, LikeHandled
<1>4. \A r \in {"noticeLiked", "noticeUnliked"} :
        IsFiniteSet(WaitingLikes(r, c)) /\ Cardinality(WaitingLikes(r, c)) \in Nat
  BY <1>1, <1>b, LikesAreFinite
<1>5. Cardinality(WaitingLikes(s, c)') = Cardinality(WaitingLikes(s, c)) - 1
  <2>1. WaitingLikes(s, c)' = WaitingLikes(s, c) \ {e.id}
    BY <1>2
  <2> QED BY <1>3, <1>4, <2>1, FS_RemoveElement
<1>6. \A r \in {"noticeLiked", "noticeUnliked"} : r # s => WaitingLikes(r, c)' = WaitingLikes(r, c)
  BY <1>2
<1>7. Cardinality(WaitingLikes(s, c)) > 0
  BY <1>3, <1>4, FS_EmptySet
<1> QED BY <1>a, <1>4, <1>5, <1>6, <1>7

LEMMA LikedWritesLikes ==
  ASSUME OrderInv, OrderInv', TaskWaits, LikesInv, LikedWrites
  PROVE  LikesInv'
<1>a. /\ UNCHANGED <<writer, scene, index, likes, everLiked, unlikedTask, troubled>>
      /\ likedTask # Idle /\ likedTask' = Idle
  BY DEF LikedWrites, documents, Idle
<1>b. PICK e \in inbox["noticeLiked"] : e = likedTask.event
  BY <1>a DEF TaskWaits
<1>c. PICK c \in born : c = e.id[2]
  BY LikeEvents
<1>d. /\ LikeTypes /\ c \in Comment /\ likedTask.comment = c /\ e.id[1] # CommentAuthor[c]
      /\ Handled("noticeLiked", e) /\ Busy(likedTask, c) /\ \A d : Busy(likedTask, d) => d = c
  BY <1>a, <1>b, <1>c DEF LikesInv, LikeTypes, LikedWrites, OrderInv, RowsMatch, Busy
<1>e. \A d : /\ Present(d)' <=> Present(d)
             /\ Busy(unlikedTask, d)' <=> Busy(unlikedTask, d)
             /\ ~Busy(likedTask, d)'
  BY <1>a DEF Present, Busy, writer
<1>1. likesNotice' = [likesNotice EXCEPT ![c] = WithLike(Notice(c), likedTask.existing)]
  BY <1>d DEF LikedWrites, Notice
<1>2. /\ likesNotice' = [d \in Comment |-> likesNotice'[d]]
      /\ Notice(c)' = WithLike(Notice(c), likedTask.existing)
      /\ \A d \in Comment : d # c => Notice(d)' = Notice(d)
  BY <1>1, <1>d, OneNotice
<1>3. /\ Notice(c).count \in Int
      /\ Notice(c)' = [count |-> Notice(c).count + 1, linked |-> ~likedTask.existing \/ Notice(c).linked]
      /\ Notice(c)'.count = Notice(c).count + 1
      /\ Notice(c)'.linked = (~likedTask.existing \/ Notice(c).linked)
  BY <1>2, <1>d DEF WithLike, LikeTypes
<1>4. LikeTypes'
  <2>1. \A d \in Comment : likesNotice'[d] = [count |-> likesNotice'[d].count, linked |-> likesNotice'[d].linked]
    BY <1>2, <1>3, <1>d, NoticesAre DEF Notice
  <2>2. likesNotice' = [d \in Comment |-> [count |-> Notice(d)'.count, linked |-> Notice(d)'.linked]]
    BY <1>2, <2>1, NoticesStay DEF Notice
  <2>3. \A d \in Comment : Notice(d)'.count \in Int
    BY <1>2, <1>3, <1>d DEF LikeTypes
  <2>4. \A d \in Comment \ born' : Notice(d)' = NoNotice
    BY <1>a, <1>2, <1>d DEF LikeTypes, writer
  <2> QED BY <1>a, <1>d, <2>2, <2>3, <2>4 DEF LikeTypes, writer
<1>5. ASSUME NEW d \in born \ troubled, LikesOf(d), d # c PROVE LikesOf(d)'
  <2>1. d \in Comment
    BY DEF OrderInv, RowsMatch
  <2>2. \A u \in User : <<u, d>> # e.id
    BY <1>c, <1>5
  <2> QED BY <1>a, <1>d, <1>e, <1>2, <1>5, <2>1, <2>2, LikeHandled, LikesOfKept
<1>6. ASSUME c \notin troubled, LikesOf(c) PROVE LikesOf(c)'
  <2>1. Present(c)
    BY <1>c, <1>6, LikeEvents
  <2>2. ~Busy(unlikedTask, c) /\ (likedTask.existing => Notice(c).linked)
    BY <1>6, <1>d DEF LikesOf, NoticeIsSound
  <2>3. Notice(c).count >= 0
    BY <1>3, <1>6, <2>2 DEF LikesOf, NoticeIsSound, NoNotice
  <2>4. NoticeIsSound(c)'
    <3>1. Notice(c)'.linked
      BY <1>3, <2>2
    <3>2. Notice(c)'.count > 0
      BY <1>3, <2>3
    <3>3. ~Busy(likedTask, c)' /\ ~Busy(unlikedTask, c)'
      BY <1>e, <2>2
    <3> QED BY <3>1, <3>2, <3>3 DEF NoticeIsSound
  <2>5. LikesAreKnown(c)'
    BY <1>a, <1>d, <1>e, <1>6, LikeHandled DEF LikesOf, LikesAreKnown
  <2>6. CountIsRight(c)'
    <3>1. /\ LikesBy(c, likes)' = LikesBy(c, likes)
          /\ Cardinality(WaitingLikes("noticeLiked", c)) \in Nat
          /\ Cardinality(WaitingLikes("noticeUnliked", c)) \in Nat
          /\ Cardinality(WaitingLikes("noticeLiked", c)') = Cardinality(WaitingLikes("noticeLiked", c)) - 1
          /\ Cardinality(WaitingLikes("noticeUnliked", c)') = Cardinality(WaitingLikes("noticeUnliked", c)) - 0
      BY <1>a, <1>c, <1>d, OneHandled
    <3> QED BY <1>3, <1>6, <1>e, <2>1, <3>1 DEF LikesOf, CountIsRight
  <2> QED BY <2>4, <2>5, <2>6 DEF LikesOf
<1> QED BY <1>a, <1>4, <1>5, <1>6 DEF LikesInv, writer

LEMMA UnlikedUpdatesLikes ==
  ASSUME OrderInv, OrderInv', LikesInv, NEW e \in inbox["noticeUnliked"], UnlikedUpdates(e)
  PROVE  LikesInv'
<1>a. /\ UNCHANGED <<writer, scene, index, likes, everLiked, likedTask>>
      /\ troubled \subseteq troubled' /\ unlikedTask = Idle /\ Handled("noticeUnliked", e)
  BY DEF UnlikedUpdates, documents, Trouble
<1>b. PICK c \in born : c = e.id[2]
  BY LikeEvents
<1>c. /\ LikeTypes /\ c \in Comment /\ Notice(c).count \in Int /\ e.id = <<e.id[1], c>>
  BY <1>b, LikeEvents DEF LikesInv, LikeTypes, OrderInv, RowsMatch
<1>d. \A d : /\ Present(d)' <=> Present(d)
             /\ Busy(likedTask, d)' <=> Busy(likedTask, d)
             /\ ~Busy(unlikedTask, d)
  BY <1>a DEF Present, Busy, writer
<1>1. CASE Concerns(e) /\ Notice(c) # NoNotice
  <2>1. /\ likesNotice' = [likesNotice EXCEPT ![c] = WithoutLike(Notice(c))]
        /\ unlikedTask' = IF Notice(c)'.count <= 0 THEN [pc |-> "remove", comment |-> c] ELSE Idle
        /\ Busy(likedTask, c) => c \in troubled'
    BY <1>1, <1>b DEF UnlikedUpdates, Notice, Trouble
  <2>2. /\ likesNotice' = [d \in Comment |-> likesNotice'[d]]
        /\ Notice(c)' = WithoutLike(Notice(c))
        /\ \A d \in Comment : d # c => Notice(d)' = Notice(d)
    BY <1>c, <2>1, OneNotice
  <2>3. /\ Notice(c)' = [count |-> Notice(c).count - 1, linked |-> Notice(c).linked]
        /\ Notice(c)'.count = Notice(c).count - 1 /\ Notice(c)'.linked = Notice(c).linked
    <3>1. Notice(c) = [count |-> Notice(c).count, linked |-> Notice(c).linked]
      BY <1>c, NoticesAre
    <3>2. ASSUME NEW n, NEW l, Notice(c) = [count |-> n, linked |-> l]
          PROVE  Notice(c)' = [count |-> n - 1, linked |-> l]
      BY <2>2, <3>2 DEF WithoutLike
    <3> QED BY <3>1, <3>2
  <2>4. LikeTypes'
    <3>1. \A d \in Comment : likesNotice'[d] = [count |-> likesNotice'[d].count, linked |-> likesNotice'[d].linked]
      BY <1>c, <2>2, <2>3, NoticesAre DEF Notice
    <3>2. likesNotice' = [d \in Comment |-> [count |-> Notice(d)'.count, linked |-> Notice(d)'.linked]]
      BY <2>2, <3>1, NoticesStay DEF Notice
    <3>3. \A d \in Comment : Notice(d)'.count \in Int
      BY <1>c, <2>2, <2>3 DEF LikeTypes
    <3>4. \A d \in Comment \ born' : Notice(d)' = NoNotice
      BY <1>a, <1>b, <1>c, <2>2 DEF LikeTypes, writer
    <3>5. unlikedTask' # Idle => unlikedTask'.pc = "remove" /\ unlikedTask'.comment \in born'
      BY <1>a, <1>b, <2>1 DEF writer, Idle
    <3> QED BY <1>a, <1>c, <3>2, <3>3, <3>4, <3>5 DEF LikeTypes
  <2>5. ASSUME NEW d \in born \ troubled, LikesOf(d), d # c PROVE LikesOf(d)'
    <3>1. d \in Comment
      BY DEF OrderInv, RowsMatch
    <3>2. \A u \in User : <<u, d>> # e.id
      BY <1>b, <2>5
    <3>3. ~Busy(unlikedTask, d)'
      BY <2>1, <2>5 DEF Busy
    <3> QED BY <1>a, <1>d, <2>2, <2>5, <3>1, <3>2, <3>3, LikeHandled, LikesOfKept
  <2>6. ASSUME c \notin troubled', LikesOf(c) PROVE LikesOf(c)'
    <3>1. Present(c)
      BY <1>a, <1>b, <2>6, LikeEvents
    <3>2. ~Busy(likedTask, c) /\ Notice(c).linked /\ Notice(c).count > 0
      BY <1>1, <1>d, <2>1, <2>6 DEF LikesOf, NoticeIsSound
    <3>3. NoticeIsSound(c)'
      <4>1. Busy(unlikedTask, c)' <=> Notice(c)'.count = 0
        <5>1. Notice(c)'.count >= 0
          BY <1>c, <2>3, <3>2
        <5>2. Notice(c)'.count <= 0 <=> Notice(c)'.count = 0
          BY <1>c, <2>3, <5>1
        <5>3. CASE Notice(c)'.count <= 0
          <6>1. unlikedTask' = [pc |-> "remove", comment |-> c]
            BY <2>1, <5>3
          <6>2. unlikedTask' # Idle /\ unlikedTask'.comment = c
            BY <6>1 DEF Idle
          <6> QED BY <5>2, <5>3, <6>2 DEF Busy
        <5>4. CASE ~(Notice(c)'.count <= 0)
          BY <2>1, <5>2, <5>4 DEF Busy
        <5> QED BY <5>3, <5>4
      <4>2. ~Busy(likedTask, c)' /\ Notice(c)'.linked
        BY <1>d, <2>3, <3>2
      <4>3. Notice(c)'.count > 0 \/ Notice(c)'.count = 0
        BY <1>c, <2>3, <3>2
      <4> QED BY <4>1, <4>2, <4>3 DEF NoticeIsSound
    <3>4. LikesAreKnown(c)'
      BY <1>a, <1>d, <2>6, LikeHandled DEF LikesOf, LikesAreKnown
    <3>5. CountIsRight(c)'
      <4>1. /\ LikesBy(c, likes)' = LikesBy(c, likes)
            /\ Cardinality(WaitingLikes("noticeLiked", c)) \in Nat
            /\ Cardinality(WaitingLikes("noticeUnliked", c)) \in Nat
            /\ Cardinality(WaitingLikes("noticeLiked", c)') = Cardinality(WaitingLikes("noticeLiked", c)) - 0
            /\ Cardinality(WaitingLikes("noticeUnliked", c)') = Cardinality(WaitingLikes("noticeUnliked", c)) - 1
        <5>1. e.id[1] # CommentAuthor[c]
          BY <1>1, <1>b DEF Concerns
        <5> QED BY <1>a, <1>b, <1>c, <5>1, OneHandled
      <4> QED BY <1>c, <1>d, <2>3, <2>6, <3>1, <4>1 DEF LikesOf, CountIsRight
    <3> QED BY <3>3, <3>4, <3>5 DEF LikesOf
  <2> QED BY <1>a, <2>4, <2>5, <2>6 DEF LikesInv, writer
<1>2. CASE ~(Concerns(e) /\ Notice(c) # NoNotice)
  <2>1. UNCHANGED <<likesNotice, unlikedTask, troubled>>
    BY <1>2, <1>b DEF UnlikedUpdates, Notice
  <2>2. LikeTypes'
    BY <1>a, <2>1 DEF LikesInv, LikeTypes, Notice, writer
  <2>3. ASSUME NEW d \in born \ troubled, LikesOf(d) PROVE LikesOf(d)'
    <3>1. d \in Comment
      BY DEF OrderInv, RowsMatch
    <3>2. d = c => e.id[1] = CommentAuthor[c]
      <4> SUFFICES ASSUME d = c, e.id[1] # CommentAuthor[c] PROVE FALSE
        OBVIOUS
      <4>1. Present(c) /\ Notice(c) = NoNotice
        BY <1>2, <1>b, <2>3, SeenIfLiked DEF Concerns
      <4>2. /\ Cardinality(WaitingLikes("noticeLiked", c)) \in Nat
            /\ Cardinality(WaitingLikes("noticeUnliked", c)) \in Nat
            /\ Cardinality(WaitingLikes("noticeUnliked", c)) > 0
        BY <1>a, <1>b, <1>c, OneHandled
      <4>3. /\ LikesBy(c, likes) \in SUBSET Likes(c) /\ IsFiniteSet(LikesBy(c, likes))
            /\ Cardinality(LikesBy(c, likes)) \in Nat
        BY <1>c, CountedLikes, LikesAreFinite DEF CountedAmongAll
      <4>4. WaitingLikes("noticeLiked", c) \subseteq LikesBy(c, likes)
        <5>1. ASSUME NEW l \in WaitingLikes("noticeLiked", c) PROVE l \in LikesBy(c, likes)
          <6>1. l \in Likes(c) /\ Waits("noticeLiked", "liked", l) /\ l = <<l[1], c>> /\ l[1] \in User
            BY <1>c, CountedLikes DEF CountedAmongAll
          <6>2. l \in likes
            BY <2>3, <6>1 DEF LikesOf, LikesAreKnown
          <6> QED BY <1>c, <6>1, <6>2, CountedLikes DEF CountedAmongAll
        <5> QED BY <5>1
      <4>5. Cardinality(WaitingLikes("noticeLiked", c)) <= Cardinality(LikesBy(c, likes))
        BY <4>3, <4>4, FS_Subset
      <4> QED BY <2>3, <4>1, <4>2, <4>3, <4>5 DEF LikesOf, CountIsRight, NoNotice
    <3>3. \A u \in User : u # CommentAuthor[d] => <<u, d>> # e.id
      BY <1>b, <3>2
    <3>4. Notice(d)' = Notice(d) /\ (Busy(unlikedTask, d)' <=> Busy(unlikedTask, d))
      BY <2>1 DEF Notice, Busy
    <3> QED BY <1>a, <1>d, <2>3, <3>1, <3>3, <3>4, LikeHandled, LikesOfKept
  <2> QED BY <1>a, <2>1, <2>2, <2>3 DEF LikesInv, writer
<1> QED BY <1>1, <1>2

LEMMA NextLikes ==
  OrderInv /\ OrderInv' /\ TaskWaits /\ LikesInv /\ [NotiNext]_vars => LikesInv'
<1> SUFFICES ASSUME OrderInv, OrderInv', TaskWaits, LikesInv, [NotiNext]_vars
             PROVE  LikesInv'
  OBVIOUS
<1>1. CASE NotifierStep
  BY <1>1, RemovalsLikes, OthersLikes, LikedReadsLikes, LikedWritesLikes, UnlikedUpdatesLikes
  DEF NotifierStep
<1>2. CASE UNCHANGED vars
  BY <1>2, LikesKept DEF vars, cvars, nvars, notices, documents, Waits
<1> QED
  BY <1>1, <1>2, WriterLikes, ProxyLikes, LikeLikes, UnlikeLikes DEF NotiNext

LEMMA LikesInvCounts == LikesInv => LikesAreCounted
BY DEF LikesInv, LikesOf, CountIsRight, LikesAreCounted, Notice

\* The notification of a comment's likes counts them
\* (CommentLikedEventConsumer, CommentUnLikedEventConsumer).
THEOREM LikesAreRight == NotiSpec => []LikesAreCounted
BY LikesInvCounts, InitHistory, NextHistory, InitLikes, NextLikes, PTL DEF NotiSpec

----------------------------------------------------------------------------
(***************************************************************************)
(* Counts.  A post's document, what is on its way to it and the comments    *)
(* themselves differ by no more than the slack: each step moves as much     *)
(* from one to another, or adds to the slack what it takes away.            *)
(***************************************************************************)
To(a, p) == {e \in inbox[a] : PostOf[e.id] = p}
Arriving(a, p) == Cardinality(To(a, p))
Held(a, p) == active[a][p] + flushing[a][p]
Shown(p) == doc[p].count
Existing(p) == Cardinality(comments \cap CommentsOf(p))
Balance(p) == Shown(p) + OnTheWay(p) - Existing(p)

CountsAreNumbers ==
  /\ \A p \in Post : doc[p] = [version |-> doc[p].version, count |-> doc[p].count] /\ doc[p].count \in Int
  /\ active \in [Aggregator -> [Post -> Int]] /\ flushing \in [Aggregator -> [Post -> Int]]
  /\ DOMAIN doc = Post /\ \A p \in posts : slack[p] \in Nat
  /\ slack = [p \in Post |-> slack[p]]
  /\ IsFiniteSet(born)
  /\ \A a \in Aggregator : IsFiniteSet(inbox[a])

CountsInv == CountsAreNumbers /\ CountsWithinSlack

LEMMA Numbers ==
  ASSUME RowsMatch, CountsAreNumbers, NEW p \in posts
  PROVE  /\ p \in Post /\ Shown(p) \in Int /\ slack[p] \in Nat
         /\ IsFiniteSet(comments \cap CommentsOf(p)) /\ Existing(p) \in Nat
         /\ \A a \in Aggregator : /\ IsFiniteSet(To(a, p)) /\ Arriving(a, p) \in Nat
                                  /\ active[a][p] \in Int /\ flushing[a][p] \in Int
                                  /\ Held(a, p) \in Int
<1>1. p \in Post /\ Shown(p) \in Int /\ slack[p] \in Nat
  BY DEF CountsAreNumbers, RowsMatch, Shown
<1>2. IsFiniteSet(comments \cap CommentsOf(p))
  BY FS_Subset DEF CountsAreNumbers, RowsMatch
<1>3. \A a \in Aggregator : IsFiniteSet(To(a, p))
  BY FS_Subset DEF CountsAreNumbers, To
<1>4. \A a \in Aggregator : active[a][p] \in Int /\ flushing[a][p] \in Int /\ Held(a, p) \in Int
  BY <1>1 DEF CountsAreNumbers, Held
<1> QED BY <1>1, <1>2, <1>3, <1>4, FS_CardinalityType DEF Existing, Arriving

\* The balance, written out.
LEMMA BalanceIs ==
  ASSUME RowsMatch, CountsAreNumbers, NEW p \in posts
  PROVE  /\ Balance(p) = Shown(p) + Arriving("countCreated", p) + Held("countCreated", p)
                         - Arriving("countDeleted", p) + Held("countDeleted", p) - Existing(p)
         /\ Balance(p) \in Int
         /\ Shown(p) \in Int /\ Existing(p) \in Nat /\ slack[p] \in Nat
         /\ Arriving("countCreated", p) \in Nat /\ Arriving("countDeleted", p) \in Nat
         /\ Held("countCreated", p) \in Int /\ Held("countDeleted", p) \in Int
<1>1. /\ Shown(p) \in Int /\ Existing(p) \in Nat /\ slack[p] \in Nat
      /\ \A a \in Aggregator : /\ Arriving(a, p) \in Nat /\ Held(a, p) \in Int
                               /\ active[a][p] \in Int /\ flushing[a][p] \in Int
  BY Numbers
<1>2. /\ Pending("countCreated", p) = Arriving("countCreated", p) + Held("countCreated", p)
      /\ Pending("countDeleted", p) = Held("countDeleted", p) - Arriving("countDeleted", p)
  <2>1. /\ Pending("countCreated", p) = 1 * Arriving("countCreated", p) + active["countCreated"][p]
                                          + flushing["countCreated"][p]
        /\ Pending("countDeleted", p) = (-1) * Arriving("countDeleted", p) + active["countDeleted"][p]
                                          + flushing["countDeleted"][p]
    BY DEF Pending, Arriving, To, Step
  <2> QED BY <1>1, <2>1 DEF Held, Aggregator
<1>3. Balance(p) = Shown(p) + (Pending("countCreated", p) + Pending("countDeleted", p)) - Existing(p)
  BY DEF Balance, OnTheWay
<1> QED BY <1>1, <1>2, <1>3 DEF Aggregator

CountsWere == \A p \in posts :
  /\ Balance(p) = Shown(p) + Arriving("countCreated", p) + Held("countCreated", p)
                  - Arriving("countDeleted", p) + Held("countDeleted", p) - Existing(p)
  /\ Balance(p) \in Int
  /\ Shown(p) \in Int /\ Existing(p) \in Nat /\ slack[p] \in Nat
  /\ Arriving("countCreated", p) \in Nat /\ Arriving("countDeleted", p) \in Nat
  /\ Held("countCreated", p) \in Int /\ Held("countDeleted", p) \in Int

LEMMA CountsWereSo == OrderInv /\ CountsAreNumbers => CountsWere
BY BalanceIs DEF OrderInv, CountsWere

LEMMA CountsAreSo == OrderInv' /\ CountsAreNumbers' => CountsWere'
BY CountsWereSo, PTL

\* By how much the balance of a post changes.
LEMMA BalanceMoves ==
  ASSUME OrderInv, OrderInv', CountsAreNumbers, CountsAreNumbers', NEW p \in posts, p \in posts'
  PROVE  /\ Balance(p)' = Balance(p) + (Shown(p)' - Shown(p))
              + (Arriving("countCreated", p)' - Arriving("countCreated", p))
              - (Arriving("countDeleted", p)' - Arriving("countDeleted", p))
              + (Held("countCreated", p)' - Held("countCreated", p))
              + (Held("countDeleted", p)' - Held("countDeleted", p))
              - (Existing(p)' - Existing(p))
         /\ Balance(p) \in Int /\ Shown(p) \in Int /\ Existing(p) \in Nat /\ slack[p] \in Nat
         /\ Arriving("countCreated", p) \in Nat /\ Arriving("countDeleted", p) \in Nat
         /\ Held("countCreated", p) \in Int /\ Held("countDeleted", p) \in Int
<1>1. CountsWere /\ CountsWere'
  BY CountsWereSo, CountsAreSo
<1> QED BY <1>1 DEF CountsWere

LEMMA InitCounts == NotiInit => CountsInv
<1> SUFFICES ASSUME NotiInit PROVE CountsInv
  OBVIOUS
<1>1. CountsAreNumbers
  <2>1. /\ doc = [p \in Post |-> [version |-> 0, count |-> 0]] /\ slack = [p \in Post |-> 0]
        /\ active = [a \in Aggregator |-> [p \in Post |-> 0]] /\ flushing = [a \in Aggregator |-> [p \in Post |-> 0]]
        /\ born = {} /\ \A a \in Aggregator : inbox[a] = {}
    BY ReadsAre DEF NotiInit, Init, None, Aggregator, Empty
  <2>2. \A p \in Post : doc[p] = [version |-> doc[p].version, count |-> doc[p].count] /\ doc[p].count \in Int
    BY <2>1
  <2>3. active \in [Aggregator -> [Post -> Int]] /\ flushing \in [Aggregator -> [Post -> Int]]
    BY <2>1
  <2>4. DOMAIN doc = Post /\ slack = [p \in Post |-> slack[p]] /\ \A p \in Post : slack[p] \in Nat
    BY <2>1
  <2>5. IsFiniteSet(born) /\ \A a \in Aggregator : IsFiniteSet(inbox[a])
    BY <2>1, FS_EmptySet
  <2>6. posts = Post
    BY DEF NotiInit, Init
  <2> QED BY <2>2, <2>3, <2>4, <2>5, <2>6 DEF CountsAreNumbers
<1>2. CountsWithinSlack
  <2>1. ASSUME NEW p \in Post PROVE Size(Balance(p)) <= slack[p]
    <3>1. \A a \in Aggregator : To(a, p) = {} /\ active[a][p] = 0 /\ flushing[a][p] = 0
      BY ReadsAre DEF NotiInit, Init, Aggregator, To
    <3>2. comments \cap CommentsOf(p) = {} /\ doc[p].count = 0 /\ slack[p] = 0
      BY DEF NotiInit, Init, None
    <3>3. /\ Shown(p) = 0 /\ Existing(p) = 0
          /\ \A a \in Aggregator : Arriving(a, p) = 0 /\ Held(a, p) = 0
      BY <3>1, <3>2, FS_EmptySet DEF Shown, Existing, Arriving, Held
    <3>4. Balance(p) = 0
      BY <1>1, <3>3, BalanceIs, InitOrder DEF Aggregator, OrderInv, NotiInit, Init
    <3> QED BY <3>2, <3>4 DEF Size
  <2> QED BY <2>1 DEF CountsWithinSlack, Balance, Shown, Existing, NotiInit, Init
<1> QED BY <1>1, <1>2 DEF CountsInv

LEMMA WithinSlack ==
  ASSUME NEW b \in Int, NEW s \in Nat, NEW d \in Int, NEW s2 \in Int, NEW b2,
         Size(b) <= s, b2 = b + d, s2 >= s + Size(d)
  PROVE  Size(b2) <= s2
BY DEF Size

\* What is left to show of a step.
LEMMA CountsNext ==
  ASSUME OrderInv, CountsInv, CountsAreNumbers', scene' = scene, posts' \subseteq posts,
         "countCreated" \in scene.consumers =>
           \A p \in posts' : \E d \in Int : Balance(p)' = Balance(p) + d /\ slack'[p] >= slack[p] + Size(d)
  PROVE  CountsInv'
<1> SUFFICES ASSUME "countCreated" \in scene.consumers, NEW p \in posts'
             PROVE  Size(Balance(p)') <= slack'[p]
  BY DEF CountsInv, CountsWithinSlack, Balance, Shown, Existing
<1>1. PICK d \in Int : Balance(p)' = Balance(p) + d /\ slack'[p] >= slack[p] + Size(d)
  OBVIOUS
<1>2. slack[p] \in Nat /\ Size(Balance(p)) <= slack[p] /\ slack'[p] \in Nat
  BY DEF CountsInv, CountsAreNumbers, CountsWithinSlack, Balance, Shown, Existing
<1>3. Balance(p) \in Int
  BY BalanceIs DEF OrderInv, CountsInv
<1>4. \A b \in Int, r \in Nat, s2 \in Int : \A b2 :
        Size(b) <= r /\ b2 = b + d /\ s2 >= r + Size(d) => Size(b2) <= s2
  BY WithinSlack
<1> QED BY <1>1, <1>2, <1>3, <1>4

\* A step that has nothing to do with counts, but may add to the slack.
LEMMA CountsKept ==
  ASSUME OrderInv, CountsInv, CountsAreNumbers', scene' = scene, UNCHANGED <<doc, buffers>>,
         posts' \subseteq posts,
         \A p \in posts' :
           /\ comments' \cap CommentsOf(p) = comments \cap CommentsOf(p)
           /\ slack'[p] >= slack[p]
           /\ \A a \in Aggregator : To(a, p)' = To(a, p)
  PROVE  CountsInv'
<1>1. ASSUME NEW p \in posts' PROVE Balance(p)' = Balance(p) + 0 /\ slack'[p] >= slack[p] + Size(0)
  <2>1. Balance(p)' = Balance(p)
    BY <1>1 DEF Balance, Shown, Existing, OnTheWay, Pending, To, Aggregator, buffers, CommentsOf
  <2>2. Balance(p) \in Int /\ slack[p] \in Nat
    BY BalanceIs, <1>1 DEF OrderInv, CountsInv, CountsAreNumbers
  <2> QED BY <1>1, <2>1, <2>2 DEF Size
<1> QED BY <1>1, CountsNext

\* An event of the comment, or none.
LEMMA OneMoreEvent ==
  ASSUME OrderInv, CountsAreNumbers, NEW kind, NEW id, Publish(About(kind, id)), done' = done
  PROVE  /\ \A a \in Aggregator : IsFiniteSet(inbox'[a])
         /\ kind \notin {"created", "deleted"} => \A a \in Aggregator : inbox'[a] = inbox[a]
         /\ \A a \in Aggregator, p \in Post :
              IF a \in scene.consumers /\ kind \in Reads[a] /\ PostOf[id] = p
              THEN To(a, p)' = To(a, p) \cup {About(kind, id)}
              ELSE To(a, p)' = To(a, p)
<1>1. Aggregator \subseteq Consumer /\ About(kind, id).kind = kind /\ About(kind, id).id = id
  BY ReadsAre DEF Aggregator, About
<1>2. \A a \in Aggregator : inbox'[a] = inbox[a] \cup
        IF a \in scene.consumers /\ kind \in Reads[a] THEN {About(kind, id)} ELSE {}
  BY <1>1, PublishedToReaders DEF OrderInv
<1>3. \A a \in Aggregator : IsFiniteSet(inbox'[a])
  <2>1. \A a \in Aggregator : IsFiniteSet(inbox[a]) /\ IsFiniteSet(inbox[a] \cup {About(kind, id)})
    BY FS_AddElement DEF CountsAreNumbers
  <2>2. \A a \in Aggregator : inbox'[a] \in {inbox[a], inbox[a] \cup {About(kind, id)}}
    BY <1>2
  <2> QED BY <2>1, <2>2
<1>4. kind \notin {"created", "deleted"} => \A a \in Aggregator : inbox'[a] = inbox[a]
  <2>1. \A a \in Aggregator : Reads[a] \subseteq {"created", "deleted"}
    BY ReadsAre DEF Aggregator
  <2> QED BY <1>2, <2>1
<1>5. \A a \in Aggregator, p \in Post :
        IF a \in scene.consumers /\ kind \in Reads[a] /\ PostOf[id] = p
        THEN To(a, p)' = To(a, p) \cup {About(kind, id)}
        ELSE To(a, p)' = To(a, p)
  BY <1>1, <1>2 DEF To
<1> QED BY <1>3, <1>4, <1>5

LEMMA DisturbedSlack ==
  ASSUME RowsMatch, CountsAreNumbers, NEW cs, Disturbed(cs)
  PROVE  /\ slack' = [p \in Post |-> slack'[p]]
         /\ \A p \in posts : slack[p] \in Nat /\ slack'[p] = slack[p] + Cardinality(cs \cap CommentsOf(p))
<1>1. slack' = [p \in Post |-> slack[p] + Cardinality(cs \cap CommentsOf(p))]
  BY DEF Disturbed
<1>2. slack' = [p \in Post |-> slack'[p]]
  BY <1>1
<1>3. \A p \in posts : slack'[p] = slack[p] + Cardinality(cs \cap CommentsOf(p)) /\ slack[p] \in Nat
  BY <1>1 DEF RowsMatch, CountsAreNumbers
<1> QED BY <1>2, <1>3

\* Whether the comment is one of the post's.
LEMMA OneOf ==
  ASSUME NEW c \in Comment, NEW p
  PROVE  /\ {c} \cap CommentsOf(p) = IF PostOf[c] = p THEN {c} ELSE {}
         /\ Cardinality({c} \cap CommentsOf(p)) = IF PostOf[c] = p THEN 1 ELSE 0
<1>1. {c} \cap CommentsOf(p) = IF PostOf[c] = p THEN {c} ELSE {}
  BY DEF CommentsOf
<1>2. Cardinality({c} \cap CommentsOf(p)) = IF PostOf[c] = p THEN 1 ELSE 0
  BY <1>1, FS_Singleton, FS_EmptySet
<1> QED BY <1>1, <1>2

\* A comment comes or goes: the count of its post follows, or the slack does.
LEMMA CommentCounts ==
  ASSUME OrderInv, OrderInv', CountsInv, UNCHANGED <<scene, done, doc, buffers, posts>>,
         NEW c \in Comment, NEW kind \in {"created", "deleted"},
         IsFiniteSet(born'),
         "countCreated" \in scene.consumers =>
           About(kind, c) \notin inbox[IF kind = "created" THEN "countCreated" ELSE "countDeleted"],
         \A p \in posts : Existing(p)' =
             Existing(p) + IF PostOf[c] = p THEN IF kind = "created" THEN 1 ELSE -1 ELSE 0,
         \/ Publish(About(kind, c)) /\ slack' = slack
         \/ Disturbed({c}) /\ inbox' = inbox
  PROVE  CountsInv'
<1>a. /\ RowsMatch /\ CountsAreNumbers /\ active' = active /\ flushing' = flushing /\ doc' = doc
  BY DEF OrderInv, CountsInv, buffers
<1>b. \A p : Shown(p)' = Shown(p) /\ \A a : Held(a, p)' = Held(a, p)
  BY <1>a DEF Shown, Held
<1>1. CASE Publish(About(kind, c)) /\ slack' = slack
  <2>1. CountsAreNumbers'
    BY <1>1, <1>a, OneMoreEvent DEF CountsAreNumbers
  <2>2. ASSUME "countCreated" \in scene.consumers, NEW p \in posts'
        PROVE  Balance(p)' = Balance(p) + 0 /\ slack'[p] >= slack[p] + Size(0)
    <3>1. "countDeleted" \in scene.consumers /\ p \in posts /\ p \in Post
      BY <1>a, <2>2, SceneAssumption DEF RowsMatch
    <3>2. \A a \in Aggregator : To(a, p)' = To(a, p) \cup
             IF kind \in Reads[a] /\ PostOf[c] = p THEN {About(kind, c)} ELSE {}
      BY <1>1, <1>a, <2>2, <3>1, OneMoreEvent DEF Aggregator
    <3>3. /\ kind \in Reads["countCreated"] <=> kind = "created"
          /\ kind \in Reads["countDeleted"] <=> kind = "deleted"
      BY ReadsAre
    <3>4. \A a \in Aggregator : kind \in Reads[a] => About(kind, c) \notin To(a, p)
      BY <2>2, <3>3 DEF Aggregator, To
    <3>5. \A a \in Aggregator : Arriving(a, p)' =
             Arriving(a, p) + IF kind \in Reads[a] /\ PostOf[c] = p THEN 1 ELSE 0
      <4>1. ASSUME NEW a \in Aggregator PROVE Arriving(a, p)' =
                Arriving(a, p) + IF kind \in Reads[a] /\ PostOf[c] = p THEN 1 ELSE 0
        <5>1. IsFiniteSet(To(a, p)) /\ Arriving(a, p) \in Nat
          BY <1>a, <3>1, Numbers
        <5>2. CASE kind \in Reads[a] /\ PostOf[c] = p
          <6>1. To(a, p)' = To(a, p) \cup {About(kind, c)} /\ About(kind, c) \notin To(a, p)
            BY <3>2, <3>4, <5>2
          <6>2. Cardinality(To(a, p)') = Cardinality(To(a, p)) + 1
            BY <5>1, <6>1, FS_AddElement
          <6> QED BY <5>2, <6>2 DEF Arriving
        <5>3. CASE ~(kind \in Reads[a] /\ PostOf[c] = p)
          <6>1. To(a, p)' = To(a, p)
            BY <3>2, <5>3
          <6>2. Arriving(a, p)' = Arriving(a, p)
            BY <6>1 DEF Arriving
          <6> QED BY <5>1, <5>3, <6>2
        <5> QED BY <5>2, <5>3
      <4> QED BY <4>1
    <3>6. /\ Arriving("countCreated", p)' = Arriving("countCreated", p)
               + IF kind = "created" /\ PostOf[c] = p THEN 1 ELSE 0
          /\ Arriving("countDeleted", p)' = Arriving("countDeleted", p)
               + IF kind = "deleted" /\ PostOf[c] = p THEN 1 ELSE 0
      BY <3>3, <3>5 DEF Aggregator
    <3>7. Balance(p)' = Balance(p) /\ Balance(p) \in Int /\ slack[p] \in Nat
      BY <1>a, <1>b, <2>1, <3>1, <3>6, BalanceMoves
    <3> QED BY <1>1, <3>7 DEF Size
  <2> QED BY <2>1, <2>2, CountsNext
<1>2. CASE Disturbed({c}) /\ inbox' = inbox
  <2>1. /\ slack' = [p \in Post |-> slack'[p]]
        /\ \A p \in posts : slack[p] \in Nat /\ slack'[p] = slack[p] + IF PostOf[c] = p THEN 1 ELSE 0
    <3>1. \A p \in Post : Cardinality({c} \cap CommentsOf(p)) = IF PostOf[c] = p THEN 1 ELSE 0
      BY OneOf
    <3>2. /\ slack' = [p \in Post |-> slack'[p]]
          /\ \A p \in posts : slack[p] \in Nat /\ slack'[p] = slack[p] + Cardinality({c} \cap CommentsOf(p))
      BY <1>a, <1>2, DisturbedSlack
    <3> QED BY <1>a, <3>1, <3>2 DEF RowsMatch
  <2>2. \A p \in posts' : slack'[p] \in Nat
    BY <2>1
  <2>3. CountsAreNumbers'
    BY <1>a, <1>2, <2>1, <2>2 DEF CountsAreNumbers
  <2>4. ASSUME NEW p \in posts'
        PROVE  \E d \in Int : Balance(p)' = Balance(p) + d /\ slack'[p] >= slack[p] + Size(d)
    <3>1. \A a : Arriving(a, p)' = Arriving(a, p)
      BY <1>2 DEF Arriving, To
    <3>2. Balance(p)' = Balance(p) - IF PostOf[c] = p THEN IF kind = "created" THEN 1 ELSE -1 ELSE 0
      BY <1>a, <1>b, <2>3, <2>4, <3>1, BalanceMoves
    <3>3. DEFINE d == IF PostOf[c] = p THEN IF kind = "created" THEN -1 ELSE 1 ELSE 0
    <3>4. d \in Int /\ Size(d) = IF PostOf[c] = p THEN 1 ELSE 0
      BY DEF Size
    <3>5. Balance(p) \in Int /\ p \in posts
      BY <1>a, <2>4, BalanceIs
    <3>6. Balance(p)' = Balance(p) + d
      BY <3>2, <3>5
    <3>7. slack'[p] >= slack[p] + Size(d)
      BY <2>1, <3>4, <3>5
    <3> QED BY <3>4, <3>6, <3>7
  <2> QED BY <2>3, <2>4, CountsNext
<1> QED BY <1>1, <1>2

LEMMA WriterCounts ==
  ASSUME OrderInv, OrderInv', CountsInv, WriterStep
  PROVE  CountsInv'
<1>a. /\ UNCHANGED <<scene, done, doc, buffers>> /\ RowsMatch /\ CountsAreNumbers /\ posts \subseteq Post
      /\ \A p \in posts : slack[p] \in Nat
  BY WriterElsewhere DEF OrderInv, CountsInv, documents, CountsAreNumbers, RowsMatch
<1>b. ASSUME slack' = [p \in Post |-> slack'[p]], \A p \in posts' : slack'[p] \in Nat,
             IsFiniteSet(born'), \A a \in Aggregator : IsFiniteSet(inbox'[a])
      PROVE  CountsAreNumbers'
  BY <1>a, <1>b DEF CountsAreNumbers, buffers
<1>c. ASSUME posts' \subseteq posts, comments' = comments, slack' = slack, born' = born,
             \A a \in Aggregator : inbox'[a] = inbox[a]
      PROVE  CountsInv'
  <2>1. CountsAreNumbers'
    BY <1>a, <1>b, <1>c DEF CountsAreNumbers
  <2> QED BY <1>a, <1>c, <2>1, CountsKept DEF To
<1>1. ASSUME NEW c \in Comment, AskForPost(c) PROVE CountsInv'
  BY <1>1, <1>c DEF AskForPost
<1>2. ASSUME NEW c \in Comment, CreateComment(c) PROVE CountsInv'
  <2>1. /\ posts' = posts /\ comments' = comments \cup {c} /\ born' = born \cup {c} /\ c \notin comments
        /\ c \notin born
        /\ \/ Publish(About("created", c)) /\ slack' = slack
           \/ Disturbed({c}) /\ inbox' = inbox
    BY <1>2 DEF CreateComment, CreateRow, OrderInv, RowsMatch
  <2>2. IsFiniteSet(born')
    BY <1>a, <2>1, FS_AddElement DEF CountsAreNumbers
  <2>3. ASSUME NEW p \in posts PROVE Existing(p)' = Existing(p) + IF PostOf[c] = p THEN 1 ELSE 0
    <3>1. /\ IsFiniteSet(comments \cap CommentsOf(p)) /\ c \notin comments \cap CommentsOf(p)
          /\ Existing(p) \in Nat
      BY <1>a, <2>1, Numbers
    <3>2. CASE PostOf[c] = p
      <4>1. comments' \cap CommentsOf(p) = (comments \cap CommentsOf(p)) \cup {c}
        BY <2>1, <3>2 DEF CommentsOf
      <4>2. Cardinality(comments' \cap CommentsOf(p)) = Cardinality(comments \cap CommentsOf(p)) + 1
        BY <3>1, <4>1, FS_AddElement
      <4> QED BY <3>2, <4>2 DEF Existing, CommentsOf
    <3>3. CASE PostOf[c] # p
      <4>1. comments' \cap CommentsOf(p) = comments \cap CommentsOf(p)
        BY <2>1, <3>3 DEF CommentsOf
      <4>2. Existing(p)' = Existing(p)
        BY <4>1 DEF Existing, CommentsOf
      <4> QED BY <3>1, <3>3, <4>2
    <3> QED BY <3>2, <3>3
  <2>4. About("created", c) \notin inbox["countCreated"]
    BY <2>1, ReadsAre DEF OrderInv, EventsTell, Events, Tells, About
  <2> QED BY <1>a, <2>1, <2>2, <2>3, <2>4, CommentCounts
<1>3. ASSUME NEW c \in Comment, DeleteComment(c) PROVE CountsInv'
  <2>1. /\ posts' = posts /\ comments' = comments \ {c} /\ born' = born /\ c \in comments
        /\ \/ Publish(About("deleted", c)) /\ slack' = slack
           \/ Disturbed({c}) /\ inbox' = inbox
    BY <1>3 DEF DeleteComment, DeleteRow
  <2>2. IsFiniteSet(born')
    BY <1>a, <2>1 DEF CountsAreNumbers
  <2>3. ASSUME NEW p \in posts PROVE Existing(p)' = Existing(p) + IF PostOf[c] = p THEN -1 ELSE 0
    <3>1. IsFiniteSet(comments \cap CommentsOf(p)) /\ Existing(p) \in Nat
      BY <1>a, Numbers
    <3>2. CASE PostOf[c] = p
      <4>1. comments' \cap CommentsOf(p) = (comments \cap CommentsOf(p)) \ {c} /\ c \in comments \cap CommentsOf(p)
        BY <2>1, <3>2 DEF CommentsOf
      <4>2. Cardinality(comments' \cap CommentsOf(p)) = Cardinality(comments \cap CommentsOf(p)) - 1
        BY <3>1, <4>1, FS_RemoveElement
      <4>3. Existing(p)' = Existing(p) - 1
        BY <4>2 DEF Existing, CommentsOf
      <4> QED BY <3>1, <3>2, <4>3
    <3>3. CASE PostOf[c] # p
      <4>1. comments' \cap CommentsOf(p) = comments \cap CommentsOf(p)
        BY <2>1, <3>3 DEF CommentsOf
      <4>2. Existing(p)' = Existing(p)
        BY <4>1 DEF Existing, CommentsOf
      <4> QED BY <3>1, <3>3, <4>2
    <3> QED BY <3>2, <3>3
  <2>4. About("deleted", c) \notin inbox["countDeleted"]
    BY <2>1, ReadsAre DEF OrderInv, EventsTell, Events, Tells, About
  <2> QED BY <1>a, <2>1, <2>2, <2>3, <2>4, CommentCounts
<1>4. ASSUME NEW p \in Post, DeletePost(p) PROVE CountsInv'
  <2>1. /\ posts' = posts \ {p} /\ comments' = comments /\ born' = born
        /\ \/ Publish(About("postDeleted", p)) /\ slack' = slack
           \/ Disturbed(CommentsOf(p)) /\ inbox' = inbox
    BY <1>4 DEF DeletePost
  <2>2. \A a \in Aggregator : inbox'[a] = inbox[a]
    BY <1>a, <2>1, OneMoreEvent
  <2>3. /\ slack' = [q \in Post |-> slack'[q]]
        /\ \A q \in posts' : slack'[q] = slack[q]
    <3>1. CASE slack' = slack
      BY <1>a, <3>1 DEF CountsAreNumbers
    <3>2. CASE Disturbed(CommentsOf(p))
      <4>1. \A q \in posts' : CommentsOf(p) \cap CommentsOf(q) = {}
        BY <2>1 DEF CommentsOf
      <4>2. /\ slack' = [q \in Post |-> slack'[q]]
            /\ \A q \in posts : slack[q] \in Nat /\ slack'[q] = slack[q] + Cardinality(CommentsOf(p) \cap CommentsOf(q))
        BY <1>a, <3>2, DisturbedSlack
      <4> QED BY <1>a, <2>1, <4>1, <4>2, FS_EmptySet
    <3> QED BY <2>1, <3>1, <3>2
  <2>4. CountsAreNumbers'
    BY <1>a, <1>b, <2>1, <2>2, <2>3 DEF CountsAreNumbers
  <2> QED BY <1>a, <2>1, <2>2, <2>3, <2>4, CountsKept DEF To
<1>5. ASSUME NEW p \in Post, DeleteAllPostComments(p) PROVE CountsInv'
  <2>1. UNCHANGED <<posts, born, slack, inbox>> /\ p \notin posts /\ comments' = comments \ CommentsOf(p)
    BY <1>5, <1>a DEF DeleteAllPostComments, WithoutRowsOf, RowsMatch
  <2>2. \A q \in posts : comments' \cap CommentsOf(q) = comments \cap CommentsOf(q)
    BY <2>1 DEF CommentsOf
  <2>3. CountsAreNumbers'
    BY <1>a, <1>b, <2>1 DEF CountsAreNumbers
  <2> QED BY <1>a, <2>1, <2>2, <2>3, CountsKept DEF To
<1>6. ASSUME NEW p \in Post, NEW verdict \in Judgement, JudgePost(p, verdict) PROVE CountsInv'
  <2>1. UNCHANGED <<posts, comments, born, slack>> /\ Publish(About("postJudged", p))
    BY <1>6 DEF JudgePost
  <2>2. \A a \in Aggregator : inbox'[a] = inbox[a]
    BY <1>a, <2>1, OneMoreEvent
  <2> QED BY <1>c, <2>1, <2>2
<1>7. ASSUME NEW p \in Post, ClearingFails(p) PROVE CountsInv'
  <2>1. UNCHANGED <<posts, comments, born, slack, inbox>>
    BY <1>7 DEF ClearingFails
  <2> QED BY <1>c, <2>1
<1> QED
  BY <1>1, <1>2, <1>3, <1>4, <1>5, <1>6, <1>7 DEF WriterStep

LEMMA IndexCounts ==
  ASSUME OrderInv, OrderInv', CountsInv,
         \/ \E e \in inbox["indexPost"] : UpsertPost(e) \/ DeletePostDocument(e) \/ IndexPostFails(e)
         \/ \E e \in inbox["indexCreated"] : UpsertComment(e)
         \/ \E e \in inbox["indexDeleted"] : DeleteCommentDocument(e)
         \/ \E s \in Consumer : \E e \in inbox[s] : IndexFails(s, e)
  PROVE  CountsInv'
<1>a. /\ UNCHANGED <<scene, posts, comments, born, buffers>> /\ RowsMatch /\ CountsAreNumbers
      /\ posts \subseteq Post /\ \A p \in posts : slack[p] \in Nat
  BY DEF UpsertPost, DeletePostDocument, IndexPostFails, UpsertComment, DeleteCommentDocument, IndexFails, writer,
         OrderInv, CountsInv, RowsMatch, CountsAreNumbers
<1>b. \A a \in Aggregator : inbox'[a] = inbox[a]
  <2>1. \E s \in {"indexPost", "indexCreated", "indexDeleted"} : \E e \in inbox[s] : Handled(s, e)
    BY DEF UpsertPost, DeletePostDocument, IndexPostFails, UpsertComment, DeleteCommentDocument, IndexFails
  <2> QED BY <2>1, HandledOnlyThere, ReadsAre DEF OrderInv, Aggregator
<1>c. \A p : /\ Existing(p)' = Existing(p)
             /\ \A a \in Aggregator : Arriving(a, p)' = Arriving(a, p) /\ Held(a, p)' = Held(a, p)
  BY <1>a, <1>b DEF Existing, CommentsOf, Arriving, To, Held, buffers
<1>d. ASSUME doc' = doc, slack' = [p \in Post |-> slack'[p]],
             \A p \in posts : slack'[p] \in Nat /\ slack'[p] >= slack[p]
      PROVE  CountsInv'
  <2>1. CountsAreNumbers'
    BY <1>a, <1>b, <1>d DEF CountsAreNumbers, buffers
  <2> QED BY <1>a, <1>b, <1>d, <2>1, CountsKept DEF To
<1>e. ASSUME doc' = doc, slack' = slack PROVE CountsInv'
  <2>1. slack' = [p \in Post |-> slack'[p]]
    BY <1>a, <1>e DEF CountsAreNumbers
  <2>2. \A p \in posts : slack'[p] \in Nat /\ slack'[p] >= slack[p]
    BY <1>a, <1>e
  <2> QED BY <1>d, <1>e, <2>1, <2>2
<1>1. ASSUME NEW e \in inbox["indexPost"], UpsertPost(e) PROVE CountsInv'
  <2>1. e.id \in Post
    BY <1>1, ReadsAre DEF OrderInv, EventsTell, Events, Tells
  <2>2. CASE doc' = doc /\ slack' = slack
    BY <1>e, <2>2
  <2>3. CASE /\ doc' = [doc EXCEPT ![e.id] = NewDocument(e)]
             /\ slack' = [slack EXCEPT ![e.id] = @ + Size(doc[e.id].count)]
    <3>1. DOMAIN doc = Post /\ DOMAIN slack = Post /\ Shown(e.id) \in Int
      BY <1>a, <2>1 DEF CountsAreNumbers, Shown
    <3>2. /\ DOMAIN doc' = Post /\ slack' = [p \in Post |-> slack'[p]]
          /\ doc'[e.id] = NewDocument(e) /\ \A p \in Post : p # e.id => doc'[p] = doc[p]
          /\ slack'[e.id] = slack[e.id] + Size(Shown(e.id))
          /\ \A p \in Post : p # e.id => slack'[p] = slack[p]
      <4>1. doc' = [p \in Post |-> IF p = e.id THEN NewDocument(e) ELSE doc[p]]
        BY <2>3, <3>1, <1>a DEF CountsAreNumbers
      <4>2. slack' = [p \in Post |-> IF p = e.id THEN slack[e.id] + Size(Shown(e.id)) ELSE slack[p]]
        BY <2>3, <3>1, <1>a DEF CountsAreNumbers, Size, Shown
      <4>3. slack' = [p \in Post |-> slack'[p]]
        BY <4>2
      <4> QED BY <2>1, <4>1, <4>2, <4>3
    <3>3. /\ NewDocument(e) = [version |-> NewDocument(e).version, count |-> NewDocument(e).count]
          /\ NewDocument(e).count = 0
      BY DEF NewDocument
    <3>4. Size(Shown(e.id)) \in Nat
      BY <3>1 DEF Size
    <3>5. CountsAreNumbers'
      <4>1. \A p \in Post : doc'[p] = [version |-> doc'[p].version, count |-> doc'[p].count] /\ doc'[p].count \in Int
        BY <1>a, <3>2, <3>3 DEF CountsAreNumbers
      <4>2. \A p \in posts : slack'[p] \in Nat
        BY <1>a, <3>2, <3>4
      <4> QED BY <1>a, <1>b, <3>2, <4>1, <4>2 DEF CountsAreNumbers, buffers
    <3>6. ASSUME NEW p \in posts
          PROVE  \E d \in Int : Balance(p)' = Balance(p) + d /\ slack'[p] >= slack[p] + Size(d)
      <4>1. Balance(p)' = Balance(p) + (Shown(p)' - Shown(p)) /\ Balance(p) \in Int /\ Shown(p) \in Int
            /\ slack[p] \in Nat
        <5>1. /\ Arriving("countCreated", p)' = Arriving("countCreated", p)
              /\ Arriving("countDeleted", p)' = Arriving("countDeleted", p)
              /\ Held("countCreated", p)' = Held("countCreated", p)
              /\ Held("countDeleted", p)' = Held("countDeleted", p)
              /\ Existing(p)' = Existing(p) /\ p \in posts' /\ Shown(p)' \in Int
          BY <1>a, <1>c, <3>5 DEF Aggregator, CountsAreNumbers, Shown
        <5> QED BY <1>a, <3>5, <5>1, BalanceMoves
      <4>2. CASE p = e.id
        <5>1. Shown(p)' = 0
          BY <3>2, <3>3, <4>2 DEF Shown
        <5>2. Balance(p)' = Balance(p) + (0 - Shown(p)) /\ 0 - Shown(p) \in Int
              /\ Size(0 - Shown(p)) = Size(Shown(p))
          BY <4>1, <5>1 DEF Size
        <5>3. slack'[p] >= slack[p] + Size(0 - Shown(p))
          BY <3>2, <3>4, <4>1, <4>2, <5>2
        <5> QED BY <5>2, <5>3
      <4>3. CASE p # e.id
        <5>1. Shown(p)' = Shown(p) /\ slack'[p] = slack[p]
          BY <1>a, <3>2, <4>3 DEF Shown
        <5>2. Balance(p)' = Balance(p) + 0 /\ slack'[p] >= slack[p] + Size(0)
          BY <4>1, <5>1 DEF Size
        <5> QED BY <5>2
      <4> QED BY <4>2, <4>3
    <3> QED BY <1>a, <3>5, <3>6, CountsNext
  <2> QED BY <1>1, <2>2, <2>3 DEF UpsertPost, Written
<1>2. ASSUME NEW e \in inbox["indexPost"], e.kind = "postDeleted", doc' = WithoutPost(e.id),
             slack' = slack
      PROVE  CountsInv'
  <2>1. e.id \in Post \ posts
    BY <1>2, ReadsAre DEF OrderInv, EventsTell, Events, Tells
  <2>2. /\ slack' = slack /\ DOMAIN doc' = Post /\ doc'[e.id] = None
        /\ \A p \in Post : p # e.id => doc'[p] = doc[p]
    BY <1>2, <1>a, <2>1 DEF WithoutPost, CountsAreNumbers
  <2>3. CountsAreNumbers'
    <3>1. \A p \in Post : doc'[p] = [version |-> doc'[p].version, count |-> doc'[p].count] /\ doc'[p].count \in Int
      BY <1>a, <2>2 DEF CountsAreNumbers, None
    <3> QED BY <1>a, <1>b, <2>2, <3>1 DEF CountsAreNumbers, buffers
  <2>4. ASSUME NEW p \in posts PROVE Balance(p)' = Balance(p) + 0 /\ slack'[p] >= slack[p] + Size(0)
    <3>1. Shown(p)' = Shown(p)
      BY <1>a, <2>1, <2>2 DEF Shown
    <3> QED BY <1>a, <1>c, <2>2, <2>3, <3>1, BalanceMoves DEF Aggregator, Size
  <2> QED BY <1>a, <2>3, <2>4, CountsNext
<1>3. ASSUME NEW s \in Consumer, NEW e \in inbox[s], IndexFails(s, e) PROVE CountsInv'
  <2>1. e.id \in born /\ e.id \in Comment
    BY <1>3, ReadsAre DEF IndexFails, OrderInv, RowsMatch, EventsTell, Events, Tells
  <2>2. doc' = doc /\ Disturbed({e.id})
    BY <1>3 DEF IndexFails, documents
  <2>3. /\ slack' = [p \in Post |-> slack'[p]]
        /\ \A p \in posts : slack[p] \in Nat /\ slack'[p] = slack[p] + Cardinality({e.id} \cap CommentsOf(p))
    BY <1>a, <2>2, DisturbedSlack
  <2>4. \A p : Cardinality({e.id} \cap CommentsOf(p)) \in Nat
    BY <2>1, OneOf
  <2>5. ASSUME NEW p \in posts PROVE slack'[p] \in Nat /\ slack'[p] >= slack[p]
    <3>1. Cardinality({e.id} \cap CommentsOf(p)) \in Nat
      BY <2>4
    <3>2. slack[p] \in Nat /\ slack'[p] = slack[p] + Cardinality({e.id} \cap CommentsOf(p))
      BY <2>3
    <3> QED BY <3>1, <3>2
  <2> QED BY <1>d, <2>2, <2>3, <2>5
<1>4. CASE \/ \E e \in inbox["indexCreated"] : UpsertComment(e)
           \/ \E e \in inbox["indexDeleted"] : DeleteCommentDocument(e)
  BY <1>4, <1>e DEF UpsertComment, DeleteCommentDocument
<1>5. CASE \E e \in inbox["indexPost"] : DeletePostDocument(e) \/ IndexPostFails(e)
  BY <1>2, <1>5, <1>e DEF DeletePostDocument, IndexPostFails
<1> QED BY <1>1, <1>3, <1>4, <1>5

LEMMA SizeIs == \A n \in Int : Size(n) \in Nat /\ Size(-n) = Size(n) /\ Size(0) = 0
BY DEF Size

\* Counts from one place to the next.
LEMMA GatherCounts ==
  ASSUME OrderInv, OrderInv', CountsInv, NEW a \in Aggregator, NEW e \in inbox[a], EachMessage(a, e)
  PROVE  CountsInv'
<1>a. /\ UNCHANGED <<scene, posts, comments, born, doc, flushing, slack>> /\ RowsMatch /\ CountsAreNumbers
      /\ posts \subseteq Post /\ Handled(a, e) /\ a \in Consumer
  BY ReadsAre DEF EachMessage, writer, documents, OrderInv, CountsInv, RowsMatch, Aggregator
<1>b. PICK q \in Post : q = PostOf[e.id]
  <2>1. e.id \in Comment
    BY <1>a, ReadsAre DEF OrderInv, RowsMatch, EventsTell, Events, Tells, Aggregator
  <2> QED BY <1>a, <2>1, CommentsAssumption DEF RowsMatch
<1>1. /\ inbox'[a] = inbox[a] \ {e} /\ \A b \in Aggregator : b # a => inbox'[b] = inbox[b]
  BY <1>a, HandledOnlyThere, ReadsAre DEF OrderInv, Aggregator
<1>2. /\ active'[a][q] = active[a][q] + Step(a)
      /\ \A p \in Post : p # q => active'[a][p] = active[a][p]
      /\ \A b \in Aggregator : b # a => active'[b] = active[b]
      /\ active' \in [Aggregator -> [Post -> Int]] /\ Step(a) \in Int
  <2>1. active \in [Aggregator -> [Post -> Int]] /\ Step(a) \in Int
    BY <1>a DEF CountsAreNumbers, Step
  <2>2. active' = [active EXCEPT ![a] = [active[a] EXCEPT ![q] = active[a][q] + Step(a)]]
    BY <1>b, <2>1 DEF EachMessage, Gather
  <2>3. active[a] \in [Post -> Int] /\ active[a][q] + Step(a) \in Int
    BY <2>1
  <2>4. PICK f : f = [active[a] EXCEPT ![q] = active[a][q] + Step(a)]
    OBVIOUS
  <2>5. f \in [Post -> Int] /\ f[q] = active[a][q] + Step(a) /\ \A p \in Post : p # q => f[p] = active[a][p]
    BY <2>3, <2>4
  <2>6. active' = [active EXCEPT ![a] = f]
    BY <2>2, <2>4
  <2> HIDE <2>2, <2>4
  <2>7. active'[a] = f /\ active' \in [Aggregator -> [Post -> Int]]
        /\ \A b \in Aggregator : b # a => active'[b] = active[b]
    BY <2>1, <2>5, <2>6
  <2> QED BY <2>1, <2>5, <2>7
<1>3. CountsAreNumbers'
  <2>1. \A b \in Aggregator : IsFiniteSet(inbox'[b])
    <3>1. \A b \in Aggregator : IsFiniteSet(inbox[b])
      BY <1>a DEF CountsAreNumbers
    <3>2. IsFiniteSet(inbox[a] \ {e})
      BY <1>a, <3>1, FS_RemoveElement
    <3> QED BY <1>1, <3>1, <3>2
  <2> QED BY <1>a, <1>2, <2>1 DEF CountsAreNumbers
<1>4. ASSUME NEW p \in posts
      PROVE  /\ Arriving(a, p)' = Arriving(a, p) - IF p = q THEN 1 ELSE 0
             /\ Held(a, p)' = Held(a, p) + IF p = q THEN Step(a) ELSE 0
             /\ \A b \in Aggregator : b # a => Arriving(b, p)' = Arriving(b, p) /\ Held(b, p)' = Held(b, p)
  <2>1. /\ IsFiniteSet(To(a, p)) /\ Arriving(a, p) \in Nat /\ active[a][p] \in Int /\ flushing[a][p] \in Int
        /\ p \in Post
    BY <1>a, Numbers
  <2>2. \A b \in Aggregator : b # a => Arriving(b, p)' = Arriving(b, p) /\ Held(b, p)' = Held(b, p)
    BY <1>a, <1>1, <1>2 DEF Arriving, To, Held
  <2>3. CASE p = q
    <3>1. To(a, p)' = To(a, p) \ {e} /\ e \in To(a, p)
      BY <1>1, <1>b, <2>3 DEF To
    <3>2. Arriving(a, p)' = Arriving(a, p) - 1
      BY <2>1, <3>1, FS_RemoveElement DEF Arriving
    <3>3. Held(a, p)' = Held(a, p) + Step(a)
      BY <1>a, <1>2, <2>1, <2>3 DEF Held
    <3> QED BY <2>2, <2>3, <3>2, <3>3
  <2>4. CASE p # q
    <3>1. To(a, p)' = To(a, p)
      BY <1>1, <1>b, <2>4 DEF To
    <3>2. Held(a, p)' = Held(a, p) /\ Held(a, p) \in Int
      BY <1>a, <1>2, <2>1, <2>4 DEF Held
    <3> QED BY <2>1, <2>2, <2>4, <3>1, <3>2 DEF Arriving
  <2> QED BY <2>3, <2>4
<1>5. ASSUME NEW p \in posts PROVE Balance(p)' = Balance(p) + 0 /\ slack'[p] >= slack[p] + Size(0)
  <2>1. Shown(p)' = Shown(p) /\ Existing(p)' = Existing(p) /\ p \in posts'
    BY <1>a DEF Shown, Existing, CommentsOf
  <2>2. CASE a = "countCreated"
    <3>1. /\ Arriving("countCreated", p)' = Arriving("countCreated", p) - IF p = q THEN 1 ELSE 0
          /\ Held("countCreated", p)' = Held("countCreated", p) + IF p = q THEN 1 ELSE 0
          /\ Arriving("countDeleted", p)' = Arriving("countDeleted", p)
          /\ Held("countDeleted", p)' = Held("countDeleted", p)
      BY <1>4, <2>2 DEF Step, Aggregator
    <3> QED BY <1>a, <1>3, <2>1, <3>1, BalanceMoves DEF Size
  <2>3. CASE a = "countDeleted"
    <3>1. /\ Arriving("countDeleted", p)' = Arriving("countDeleted", p) - IF p = q THEN 1 ELSE 0
          /\ Held("countDeleted", p)' = Held("countDeleted", p) + IF p = q THEN -1 ELSE 0
          /\ Arriving("countCreated", p)' = Arriving("countCreated", p)
          /\ Held("countCreated", p)' = Held("countCreated", p)
      BY <1>4, <2>3 DEF Step, Aggregator
    <3> QED BY <1>a, <1>3, <2>1, <3>1, BalanceMoves DEF Size
  <2> QED BY <2>2, <2>3 DEF Aggregator
<1> QED BY <1>a, <1>3, <1>5, CountsNext

LEMMA BufferCounts ==
  ASSUME OrderInv, OrderInv', CountsInv, NEW a \in Aggregator, Rotate(a) \/ Flush(a) \/ FlushFails(a)
  PROVE  CountsInv'
<1>a. /\ UNCHANGED <<scene, posts, comments, born, inbox>> /\ RowsMatch /\ CountsAreNumbers
      /\ posts \subseteq Post
  BY DEF Rotate, Flush, FlushFails, writer, documents, OrderInv, CountsInv, RowsMatch
<1>b. /\ Empty \in [Post -> Int] /\ \A p \in Post : Empty[p] = 0
      /\ active \in [Aggregator -> [Post -> Int]] /\ flushing \in [Aggregator -> [Post -> Int]]
      /\ \A p \in Post : active[a][p] \in Int /\ flushing[a][p] \in Int
  BY <1>a DEF Empty, CountsAreNumbers
<1>c. ASSUME NEW p \in posts, CountsAreNumbers', NEW n \in Int, NEW h \in Int,
             Shown(p)' = Shown(p) + n, Held(a, p)' = Held(a, p) + h,
             \A b \in Aggregator : b # a => Held(b, p)' = Held(b, p)
      PROVE  Balance(p)' = Balance(p) + (n + h)
  <2>1. /\ Existing(p)' = Existing(p) /\ p \in posts'
        /\ \A b \in Aggregator : Arriving(b, p)' = Arriving(b, p)
    BY <1>a DEF Existing, CommentsOf, Arriving, To
  <2>2. /\ Held("countCreated", p)' = Held("countCreated", p) + IF a = "countCreated" THEN h ELSE 0
        /\ Held("countDeleted", p)' = Held("countDeleted", p) + IF a = "countDeleted" THEN h ELSE 0
        /\ a = "countCreated" \/ a = "countDeleted"
    <3>1. Held("countCreated", p) \in Int /\ Held("countDeleted", p) \in Int
      BY <1>a, Numbers DEF Aggregator
    <3> QED BY <1>c, <3>1 DEF Aggregator
  <2>3. /\ Arriving("countCreated", p)' = Arriving("countCreated", p)
        /\ Arriving("countDeleted", p)' = Arriving("countDeleted", p)
    BY <2>1 DEF Aggregator
  <2> QED BY <1>a, <1>c, <2>1, <2>2, <2>3, BalanceMoves
<1>1. CASE Rotate(a)
  <2>1. /\ UNCHANGED <<doc, slack>> /\ flushing[a] = Empty
        /\ flushing' = [flushing EXCEPT ![a] = active[a]] /\ active' = [active EXCEPT ![a] = flushing[a]]
    BY <1>1 DEF Rotate, documents
  <2>2. /\ flushing' \in [Aggregator -> [Post -> Int]] /\ active' \in [Aggregator -> [Post -> Int]]
        /\ flushing'[a] = active[a] /\ active'[a] = flushing[a]
        /\ \A b \in Aggregator : b # a => flushing'[b] = flushing[b] /\ active'[b] = active[b]
    BY <1>b, <2>1
  <2>3. CountsAreNumbers'
    BY <1>a, <2>1, <2>2 DEF CountsAreNumbers
  <2>4. ASSUME NEW p \in posts PROVE Balance(p)' = Balance(p) + 0 /\ slack'[p] >= slack[p] + Size(0)
    <3>0. Shown(p) \in Int /\ slack[p] \in Nat /\ Shown(p)' = Shown(p)
      BY <1>a, <2>1, Numbers DEF Shown
    <3>1. Shown(p)' = Shown(p) + 0 /\ Shown(p) \in Int /\ slack[p] \in Nat
      BY <3>0
    <3>2. /\ Held(a, p)' = Held(a, p) + 0
          /\ \A b \in Aggregator : b # a => Held(b, p)' = Held(b, p)
      BY <1>a, <1>b, <2>1, <2>2 DEF Held
    <3>3. Balance(p)' = Balance(p) + (0 + 0)
      BY <1>c, <2>3, <3>1, <3>2
    <3> QED BY <2>1, <3>1, <3>3 DEF Size
  <2> QED BY <1>a, <2>3, <2>4, CountsNext
<1>2. CASE Flush(a)
  <2>1. PICK failed \in SUBSET Post :
          /\ \A p \in Post : doc[p] = None => p \in failed
          /\ doc' = [p \in Post |-> IF p \in failed THEN doc[p]
                                    ELSE [doc[p] EXCEPT !.count = @ + flushing[a][p]]]
          /\ slack' = [p \in Post |-> slack[p] + IF p \in failed THEN Size(flushing[a][p]) ELSE 0]
          /\ flushing' = [flushing EXCEPT ![a] = Empty] /\ active' = active
    BY <1>2 DEF Flush
  <2>2. /\ flushing' \in [Aggregator -> [Post -> Int]]
        /\ flushing'[a] = Empty
        /\ \A b \in Aggregator : b # a => flushing'[b] = flushing[b]
    BY <1>b, <2>1
  <2>3. ASSUME NEW p \in Post
        PROVE  /\ doc'[p] = [version |-> doc[p].version,
                             count |-> IF p \in failed THEN doc[p].count
                                       ELSE doc[p].count + flushing[a][p]]
               /\ doc[p].count \in Int
    <3>1. doc[p] = [version |-> doc[p].version, count |-> doc[p].count] /\ doc[p].count \in Int
      BY <1>a DEF CountsAreNumbers
    <3>2. CASE p \in failed
      BY <2>1, <3>1, <3>2
    <3>3. CASE p \notin failed
      <4>1. doc'[p] = [doc[p] EXCEPT !.count = @ + flushing[a][p]]
        BY <2>1, <3>3
      <4>2. ASSUME NEW v, NEW n, doc[p] = [version |-> v, count |-> n]
            PROVE  doc'[p] = [version |-> v, count |-> n + flushing[a][p]]
        BY <4>1, <4>2
      <4> QED BY <3>1, <3>3, <4>2
    <3> QED BY <3>2, <3>3
  <2>4. CountsAreNumbers'
    <3>1. ASSUME NEW p \in Post
          PROVE  doc'[p] = [version |-> doc'[p].version, count |-> doc'[p].count] /\ doc'[p].count \in Int
      <4>1. PICK n : n = IF p \in failed THEN doc[p].count ELSE doc[p].count + flushing[a][p]
        OBVIOUS
      <4>2. n \in Int
        <5>1. doc[p].count \in Int /\ flushing[a][p] \in Int
          BY <1>b, <2>3
        <5>2. CASE p \in failed
          BY <4>1, <5>1, <5>2
        <5>3. CASE p \notin failed
          BY <4>1, <5>1, <5>3
        <5> QED BY <5>2, <5>3
      <4>3. doc'[p] = [version |-> doc[p].version, count |-> n]
        BY <2>3, <4>1
      <4> QED BY <4>2, <4>3
    <3>2. slack' = [p \in Post |-> slack'[p]] /\ DOMAIN doc' = Post
      BY <2>1
    <3>3. ASSUME NEW p \in posts PROVE slack'[p] \in Nat
      <4>1. p \in Post /\ slack[p] \in Nat /\ flushing[a][p] \in Int
        BY <1>a, <1>b DEF CountsAreNumbers
      <4>2. Size(flushing[a][p]) \in Nat
        BY <4>1, SizeIs
      <4>3. slack'[p] = slack[p] + IF p \in failed THEN Size(flushing[a][p]) ELSE 0
        BY <2>1, <4>1
      <4> QED BY <4>1, <4>2, <4>3
    <3> QED BY <1>a, <1>b, <2>1, <2>2, <3>1, <3>2, <3>3 DEF CountsAreNumbers
  <2>5. ASSUME NEW p \in posts
        PROVE  \E d \in Int : Balance(p)' = Balance(p) + d /\ slack'[p] >= slack[p] + Size(d)
    <3>a. /\ p \in Post /\ flushing[a][p] \in Int /\ active[a][p] \in Int /\ Shown(p) \in Int
          /\ Balance(p) \in Int /\ slack[p] \in Nat
      BY <1>a, <1>b, BalanceIs
    <3>1. /\ Held(a, p)' = Held(a, p) + (-flushing[a][p])
          /\ \A b \in Aggregator : b # a => Held(b, p)' = Held(b, p)
      BY <1>b, <2>1, <2>2, <3>a DEF Held
    <3>2. CASE p \in failed
      <4>1. Shown(p)' = Shown(p) + 0
        <5>1. doc'[p] = doc[p]
          BY <2>1, <3>2, <3>a
        <5> QED BY <5>1, <3>a DEF Shown
      <4>2. Balance(p)' = Balance(p) + (0 + (-flushing[a][p]))
        BY <1>c, <2>4, <3>1, <3>a, <4>1
      <4>3. slack'[p] = slack[p] + Size(flushing[a][p])
        BY <2>1, <3>2, <3>a
      <4>4. /\ 0 + (-flushing[a][p]) \in Int
            /\ slack'[p] >= slack[p] + Size(0 + (-flushing[a][p]))
        BY <3>a, <4>3 DEF Size
      <4> QED BY <4>2, <4>4
    <3>3. CASE p \notin failed
      <4>1. Shown(p)' = Shown(p) + flushing[a][p]
        <5>1. PICK n : n = doc[p].count + flushing[a][p]
          OBVIOUS
        <5>2. doc'[p] = [version |-> doc[p].version, count |-> n]
          BY <2>3, <3>3, <3>a, <5>1
        <5>3. doc'[p].count = n
          BY <5>2
        <5> QED BY <5>1, <5>3 DEF Shown
      <4>2. Balance(p)' = Balance(p) + (flushing[a][p] + (-flushing[a][p]))
        BY <1>c, <2>4, <3>1, <3>a, <4>1
      <4>3. slack'[p] = slack[p] + 0
        BY <2>1, <3>3, <3>a
      <4>4. Balance(p)' = Balance(p) + 0 /\ slack'[p] >= slack[p] + Size(0)
        BY <3>a, <4>2, <4>3 DEF Size
      <4> QED BY <4>4
    <3> QED BY <3>2, <3>3
  <2> QED BY <1>a, <2>4, <2>5, CountsNext
<1>3. CASE FlushFails(a)
  <2>1. /\ UNCHANGED <<doc, active>> /\ flushing' = [flushing EXCEPT ![a] = Empty]
        /\ slack' = [p \in Post |-> slack[p] + Size(flushing[a][p])]
    BY <1>3 DEF FlushFails, documents
  <2>2. /\ flushing' \in [Aggregator -> [Post -> Int]]
        /\ flushing'[a] = Empty
        /\ \A b \in Aggregator : b # a => flushing'[b] = flushing[b]
    BY <1>b, <2>1
  <2>3. CountsAreNumbers'
    <3>1. slack' = [p \in Post |-> slack'[p]]
      BY <2>1
    <3>2. ASSUME NEW p \in posts PROVE slack'[p] \in Nat
      <4>1. p \in Post /\ slack[p] \in Nat /\ flushing[a][p] \in Int
        BY <1>a, <1>b DEF CountsAreNumbers
      <4>2. Size(flushing[a][p]) \in Nat
        BY <4>1, SizeIs
      <4>3. slack'[p] = slack[p] + Size(flushing[a][p])
        BY <2>1, <4>1
      <4> QED BY <4>1, <4>2, <4>3
    <3> QED BY <1>a, <1>b, <2>1, <2>2, <3>1, <3>2 DEF CountsAreNumbers
  <2>4. ASSUME NEW p \in posts
        PROVE  \E d \in Int : Balance(p)' = Balance(p) + d /\ slack'[p] >= slack[p] + Size(d)
    <3>a. /\ p \in Post /\ flushing[a][p] \in Int /\ active[a][p] \in Int /\ Shown(p) \in Int
          /\ Balance(p) \in Int /\ slack[p] \in Nat
      BY <1>a, <1>b, BalanceIs
    <3>1. /\ Held(a, p)' = Held(a, p) + (-flushing[a][p])
          /\ \A b \in Aggregator : b # a => Held(b, p)' = Held(b, p)
      BY <1>b, <2>1, <2>2, <3>a DEF Held
    <3>2. Shown(p)' = Shown(p) + 0
      BY <2>1, <3>a DEF Shown
    <3>3. Balance(p)' = Balance(p) + (0 + (-flushing[a][p]))
      BY <1>c, <2>3, <3>1, <3>a, <3>2
    <3>4. slack'[p] = slack[p] + Size(flushing[a][p])
      BY <2>1, <3>a
    <3>5. /\ 0 + (-flushing[a][p]) \in Int
          /\ slack'[p] >= slack[p] + Size(0 + (-flushing[a][p]))
      BY <3>a, <3>4 DEF Size
    <3> QED BY <3>3, <3>5
  <2> QED BY <1>a, <2>3, <2>4, CountsNext
<1> QED BY <1>1, <1>2, <1>3

\* How many comments of the post have an event that comes again.
Repeated(again, p) == Cardinality({e.id : e \in again} \cap Comment \cap CommentsOf(p))

LEMMA RestartCounts ==
  ASSUME OrderInv, OrderInv', CountsInv, ProxyRestarts
  PROVE  CountsInv'
<1>a. /\ UNCHANGED <<scene, posts, comments, born, doc>> /\ RowsMatch /\ CountsAreNumbers
      /\ posts \subseteq Post
      /\ active' = [a \in Aggregator |-> Empty] /\ flushing' = [a \in Aggregator |-> Empty]
  BY DEF ProxyRestarts, writer, documents, OrderInv, CountsInv, RowsMatch
<1>b. PICK s \in scene.consumers \cap Proxy,
           again \in {{}} \cup {{e} : e \in UNION {done[r] : r \in Proxy}} :
        /\ again \subseteq done[s]
        /\ inbox' = [inbox EXCEPT ![s] = @ \cup again]
        /\ slack' = [p \in Post |-> slack[p]
                       + Buffered("countCreated", p) + Buffered("countDeleted", p)
                       + Repeated(again, p)]
  BY DEF ProxyRestarts, Repeated
<1>c. /\ inbox'[s] = inbox[s] \cup again /\ s \in Consumer
      /\ \A r \in Consumer : r # s => inbox'[r] = inbox[r]
      /\ Aggregator \subseteq Consumer
  BY <1>b, ReadsAre DEF OrderInv, Inboxes, Proxy, Aggregator
<1>1. \A a \in Aggregator, p \in Post : active'[a][p] = 0 /\ flushing'[a][p] = 0 /\ Held(a, p)' = 0
  BY <1>a DEF Empty, Held
<1>2. ASSUME NEW p \in posts
      PROVE  /\ Repeated(again, p) \in Nat
             /\ \A a \in Aggregator : /\ a # s => Arriving(a, p)' = Arriving(a, p)
                                      /\ Arriving(a, p)' - Arriving(a, p) \in 0 .. Repeated(again, p)
  <2> DEFINE cs == {e.id : e \in again} \cap Comment \cap CommentsOf(p)
  <2>1. \A a \in Aggregator : IsFiniteSet(To(a, p)) /\ Arriving(a, p) \in Nat
    BY <1>a, Numbers
  <2>2. ASSUME NEW a \in Aggregator, a # s PROVE Arriving(a, p)' = Arriving(a, p)
    BY <1>c, <2>2 DEF Arriving, To
  <2>3. CASE again = {}
    <3>1. cs = {} /\ Repeated(again, p) = 0
      BY <2>3, FS_EmptySet DEF Repeated
    <3>2. ASSUME NEW a \in Aggregator PROVE Arriving(a, p)' = Arriving(a, p)
      BY <1>c, <2>2, <2>3 DEF Arriving, To
    <3> QED BY <2>1, <3>1, <3>2
  <2>4. ASSUME NEW e, again = {e}
        PROVE  /\ Repeated(again, p) \in Nat
               /\ \A a \in Aggregator : Arriving(a, p)' - Arriving(a, p) \in 0 .. Repeated(again, p)
    <3>1. cs = {e.id} \/ cs = {}
      BY <2>4
    <3>a. cs = {e.id} => Repeated(again, p) = 1
      BY FS_Singleton DEF Repeated
    <3>b. cs = {} => Repeated(again, p) = 0
      BY FS_EmptySet DEF Repeated
    <3>2. Repeated(again, p) \in Nat /\ (cs = {e.id} => Repeated(again, p) = 1)
      BY <3>1, <3>a, <3>b
    <3> HIDE DEF cs
    <3>3. ASSUME NEW a \in Aggregator
          PROVE  Arriving(a, p)' - Arriving(a, p) \in 0 .. Repeated(again, p)
      <4>1. CASE a # s \/ PostOf[e.id] # p \/ e \in inbox[a]
        <5>1. To(a, p)' = To(a, p)
          BY <1>c, <2>4, <4>1 DEF To
        <5> QED BY <2>1, <3>2, <5>1 DEF Arriving
      <4>2. CASE a = s /\ PostOf[e.id] = p /\ e \notin inbox[a]
        <5>1. To(a, p)' = To(a, p) \cup {e} /\ e \notin To(a, p)
          BY <1>c, <2>4, <4>2 DEF To
        <5>2. Arriving(a, p)' = Arriving(a, p) + 1
          BY <2>1, <5>1, FS_AddElement DEF Arriving
        <5>3. e \in done[a] /\ e.id \in Comment
          <6>1. e \in done[a] /\ a \in Consumer
            BY <1>b, <1>c, <2>4, <4>2
          <6>2. e.kind \in {"created", "deleted"} /\ Tells(e)
            BY <6>1, ReadsAre DEF OrderInv, EventsTell, Events, Aggregator
          <6> QED BY <1>a, <6>1, <6>2 DEF Tells, RowsMatch
        <5>4. cs = {e.id}
          BY <2>4, <4>2, <5>3 DEF CommentsOf, cs
        <5> QED BY <2>1, <3>2, <5>2, <5>4
      <4> QED BY <4>1, <4>2
    <3> QED BY <3>2, <3>3
  <2>5. again = {} \/ \E e : again = {e}
    BY <1>b
  <2> QED BY <2>2, <2>3, <2>4, <2>5
<1>3. ASSUME NEW p \in posts
      PROVE  /\ slack'[p] \in Nat
             /\ slack'[p] = slack[p] + Buffered("countCreated", p) + Buffered("countDeleted", p)
                       + Repeated(again, p)
             /\ \A a \in Aggregator : Buffered(a, p) \in Nat /\ Size(Held(a, p)) <= Buffered(a, p)
  <2>1. \A a \in Aggregator : active[a][p] \in Int /\ flushing[a][p] \in Int
    BY <1>a, Numbers
  <2>2. ASSUME NEW a \in Aggregator PROVE Buffered(a, p) \in Nat /\ Size(Held(a, p)) <= Buffered(a, p)
    BY <2>1 DEF Buffered, Size, Held
  <2>3. slack[p] \in Nat /\ p \in Post
    BY <1>a DEF CountsAreNumbers
  <2>4. slack'[p] = slack[p] + Buffered("countCreated", p) + Buffered("countDeleted", p)
                       + Repeated(again, p)
    BY <1>b, <2>3
  <2>5. Repeated(again, p) \in Nat
    BY <1>2
  <2>6. Buffered("countCreated", p) \in Nat /\ Buffered("countDeleted", p) \in Nat
    BY <2>2 DEF Aggregator
  <2>7. slack'[p] \in Nat
    BY <2>3, <2>4, <2>5, <2>6
  <2> QED BY <2>2, <2>4, <2>7
<1>4. CountsAreNumbers'
  <2>1. \A a \in Aggregator : IsFiniteSet(inbox'[a])
    <3>1. IsFiniteSet(again)
      BY <1>b, FS_Singleton, FS_EmptySet
    <3>2. \A a \in Aggregator : IsFiniteSet(inbox[a]) /\ inbox'[a] \in {inbox[a], inbox[a] \cup again}
      BY <1>a, <1>c DEF CountsAreNumbers
    <3>3. \A a \in Aggregator : IsFiniteSet(inbox[a] \cup again)
      BY <3>1, <3>2, FS_Union
    <3> QED BY <3>2, <3>3
  <2>2. Empty \in [Post -> Int]
    BY DEF Empty
  <2>3. slack' = [p \in Post |-> slack'[p]]
    BY <1>b
  <2> QED BY <1>a, <1>3, <2>1, <2>2, <2>3 DEF CountsAreNumbers
<1>5. ASSUME NEW p \in posts
      PROVE  \E d \in Int : Balance(p)' = Balance(p) + d /\ slack'[p] >= slack[p] + Size(d)
  <2>1. Shown(p)' = Shown(p) /\ Existing(p)' = Existing(p) /\ p \in posts' /\ p \in Post
    BY <1>a DEF Shown, Existing, CommentsOf
  <2>2. PICK k \in Nat, x \in Int, y \in Int :
          /\ k = Repeated(again, p)
          /\ x = Arriving("countCreated", p)' - Arriving("countCreated", p)
          /\ y = Arriving("countDeleted", p)' - Arriving("countDeleted", p)
          /\ x \in 0 .. k /\ y \in 0 .. k /\ (x = 0 \/ y = 0)
    <3>1. /\ Arriving("countCreated", p)' - Arriving("countCreated", p) \in
               0 .. Repeated(again, p)
          /\ Arriving("countDeleted", p)' - Arriving("countDeleted", p) \in
               0 .. Repeated(again, p)
          /\ Repeated(again, p) \in Nat
      BY <1>2 DEF Aggregator
    <3>2. \/ Arriving("countCreated", p)' - Arriving("countCreated", p) = 0
          \/ Arriving("countDeleted", p)' - Arriving("countDeleted", p) = 0
      <4>1. Arriving("countCreated", p) \in Nat /\ Arriving("countDeleted", p) \in Nat
        BY <1>a, Numbers DEF Aggregator
      <4>2. \/ Arriving("countCreated", p)' = Arriving("countCreated", p)
            \/ Arriving("countDeleted", p)' = Arriving("countDeleted", p)
        BY <1>2 DEF Aggregator
      <4> QED BY <4>1, <4>2
    <3>3. \A j \in Nat : \A i \in 0 .. j : i \in Int
      OBVIOUS
    <3> QED BY <3>1, <3>2, <3>3
  <2>3. PICK h \in Int, i \in Int : h = Held("countCreated", p) /\ i = Held("countDeleted", p)
    BY <1>a, Numbers DEF Aggregator
  <2>4. Held("countCreated", p)' = 0 /\ Held("countDeleted", p)' = 0
    BY <1>1, <2>1 DEF Aggregator
  <2>5. Balance(p)' = Balance(p) + (x - y - h - i) /\ Balance(p) \in Int /\ slack[p] \in Nat
    BY <1>a, <1>4, <2>1, <2>2, <2>3, <2>4, BalanceMoves
  <2>6. PICK m \in Nat, n \in Nat : /\ m = Buffered("countCreated", p) /\ n = Buffered("countDeleted", p)
                                    /\ Size(h) <= m /\ Size(i) <= n
    BY <1>3, <2>3 DEF Aggregator
  <2>7. slack'[p] = slack[p] + m + n + k
    BY <1>3, <2>2, <2>6
  <2>8. Size(x - y - h - i) <= m + n + k
    BY <2>2, <2>6 DEF Size
  <2>9. x - y - h - i \in Int /\ Size(x - y - h - i) \in Nat
    BY SizeIs
  <2> QED BY <2>5, <2>7, <2>8, <2>9
<1> QED BY <1>a, <1>4, <1>5, CountsNext

LEMMA NextCounts == OrderInv /\ OrderInv' /\ TaskWaits /\ CountsInv /\ [NotiNext]_vars => CountsInv'
<1> SUFFICES ASSUME OrderInv, OrderInv', TaskWaits, CountsInv, [NotiNext]_vars
             PROVE  CountsInv'
  OBVIOUS
<1>1. ASSUME UNCHANGED <<writer, scene, doc, buffers, slack>>, \A a \in Aggregator : inbox'[a] = inbox[a]
      PROVE  CountsInv'
  <2>1. CountsAreNumbers'
    BY <1>1 DEF CountsInv, CountsAreNumbers, writer, buffers
  <2>2. \A p \in posts : slack'[p] >= slack[p]
    <3>1. \A p \in posts : slack[p] \in Nat /\ slack'[p] = slack[p]
      BY <1>1 DEF CountsInv, CountsAreNumbers
    <3> QED BY <3>1
  <2> QED BY <1>1, <2>1, <2>2, CountsKept DEF writer, To
<1>2. CASE NotifierStep
  BY <1>1, <1>2, NotifierElsewhere, ReadsAre DEF OrderInv, Notifier, Aggregator, documents
<1>3. ASSUME NEW u \in User, NEW c \in Comment, Like(u, c) \/ Unlike(u, c) PROVE CountsInv'
  BY <1>1, <1>3, LikesElsewhere, ReadsAre DEF OrderInv, Aggregator, documents
<1>4. CASE UNCHANGED vars
  BY <1>1, <1>4 DEF vars, cvars, documents
<1>5. CASE ProxyStep
  BY <1>5, IndexCounts, GatherCounts, BufferCounts, RestartCounts
  DEF ProxyStep, CountCreated, CountDeleted, Aggregator
<1> QED
  BY <1>2, <1>3, <1>4, <1>5, WriterCounts DEF NotiNext

LEMMA CountsInvWithin == CountsInv => CountsWithinSlack
BY DEF CountsInv

\* What a post's document says of its comments, with what is still on its way,
\* is off by no more than the mishaps explain (CommentCreatedAggregator,
\* CommentDeletedAggregator, Post.services).
THEOREM CountsAreWithinSlack == NotiSpec => []CountsWithinSlack
BY CountsInvWithin, InitHistory, NextHistory, InitCounts, NextCounts, PTL DEF NotiSpec
============================================================================
