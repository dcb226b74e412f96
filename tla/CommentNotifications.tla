------------------------ MODULE CommentNotifications ------------------------
(***************************************************************************)
(* notification-service over the comments of Comments: the author of a post *)
(* learns of each comment, the author of a comment of its likes (one        *)
(* notification that is updated in place), and the author of a judged post  *)
(* of a bad verdict.  What the events leave out is asked of                 *)
(* elasticsearch-proxy, whose documents may be behind or ahead.             *)
(*                                                                          *)
(* Each topic has a consumer of its own, which handles a message at a time; *)
(* those for likes and unlikes write the same notification, in several      *)
(* steps.  How likes become events is the subject of LikePipeline.          *)
(***************************************************************************)
EXTENDS Comments

CONSTANT MaxLikes   \* bound: likes ever given

VARIABLES
  likes,       \* who likes which comment, by the events published
  everLiked,
  got,         \* comments with a PostGotComment notification
  likesNotice, \* per comment, its CommentLikes notification
  verdicts,    \* per post, its moderation notifications
  likedTask,   \* progress of CommentLikedEventConsumer
  unlikedTask  \* and CommentUnLikedEventConsumer

notices == <<got, likesNotice, verdicts>>
nvars == <<likes, everLiked, notices, likedTask, unlikedTask>>
vars == <<cvars, nvars>>

Idle == [pc |-> "idle"]
NoNotice == [count |-> 0, linked |-> FALSE]

NotiInit ==
  /\ Init
  /\ likes = {} /\ everLiked = {}
  /\ got = {}
  /\ likesNotice = [c \in Comment |-> NoNotice]
  /\ verdicts = [p \in Post |-> 0]
  /\ likedTask = Idle /\ unlikedTask = Idle

Trouble(cs) == troubled' = troubled \cup cs

----------------------------------------------------------------------------
(* Likes, as their events tell                                              *)

Present(c) == c \in comments /\ PostOf[c] \in posts

\* Of a comment that is shown; an earlier like of it may be on its way.
Like(u, c) ==
  /\ "noticeLiked" \in scene.consumers
  /\ c \in index /\ <<u, c>> \notin everLiked /\ Cardinality(everLiked) < MaxLikes
  /\ likes' = likes \cup {<<u, c>>} /\ everLiked' = everLiked \cup {<<u, c>>}
  /\ Publish(About("liked", <<u, c>>))
  /\ Trouble(IF Present(c) THEN {} ELSE {c})
  /\ UNCHANGED <<writer, scene, done, documents, buffers, slack, histories, faults,
                 notices, likedTask, unlikedTask>>

Unlike(u, c) ==
  /\ <<u, c>> \in likes
  /\ likes' = likes \ {<<u, c>>}
  /\ Publish(About("unliked", <<u, c>>))
  /\ Trouble(IF Present(c) /\ ~Waits("noticeLiked", "liked", <<u, c>>) THEN {} ELSE {c})
  /\ UNCHANGED <<writer, scene, done, documents, buffers, slack, histories, faults,
                 everLiked, notices, likedTask, unlikedTask>>

----------------------------------------------------------------------------
(* A post got a comment                                                     *)

ToSelf(c) == FALSE       \* slip: authors are told of their own comments
ToAuthor(c) == CommentAuthor[c] = PostAuthor[PostOf[c]]

\* getPostsDetailsWithoutAuthorDetailsHydration
PostIsKnown(p) == doc[p] # None

\* PostGotCommentNotificationService: create fails on the unique index if the
\* notification is there already.
WithNoticeOf(c) == got \cup IF ToAuthor(c) THEN {} ELSE {c}
WithoutNoticeOf(c) == got \ {c}

NotifyPostAuthor(e) ==
  /\ e \in inbox["noticeCreated"]
  /\ IF PostIsKnown(PostOf[e.id])
     THEN got' = WithNoticeOf(e.id) /\ UNCHANGED troubled
     ELSE UNCHANGED got /\ Trouble({e.id})      \* PostDoesNotExistError
  /\ Handled("noticeCreated", e)
  /\ UNCHANGED <<writer, scene, documents, buffers, slack, histories, faults, likes,
                 everLiked, likesNotice, verdicts, likedTask, unlikedTask>>

\* deleteMany of the comment's CommentLikes notifications.
WithoutLikesOf(c) == [likesNotice EXCEPT ![c] = NoNotice]

CommentGone(e) ==
  /\ e \in inbox["noticeDeleted"]
  /\ got' = WithoutNoticeOf(e.id)
  /\ likesNotice' = WithoutLikesOf(e.id)
  /\ Handled("noticeDeleted", e)
  /\ UNCHANGED <<writer, scene, documents, buffers, slack, histories, troubled, faults,
                 likes, everLiked, verdicts, likedTask, unlikedTask>>

\* deleteMany by metadata.postId, which moderation notifications do not have.
PostGone(e) ==
  /\ e \in inbox["noticePost"]
  /\ got' = got \ CommentsOf(e.id)
  /\ likesNotice' = [c \in Comment |-> IF PostOf[c] = e.id /\ likesNotice[c].linked
                                       THEN NoNotice ELSE likesNotice[c]]
  /\ Handled("noticePost", e)
  /\ UNCHANGED <<writer, scene, documents, buffers, slack, histories, troubled, faults,
                 likes, everLiked, verdicts, likedTask, unlikedTask>>

\* PostModerationNotificationService; create only adds.
NoticesOf(verdict) == IF verdict = "ok" THEN 0 ELSE 1

NotifyVerdict(e) ==
  /\ e \in inbox["noticeJudged"]
  /\ verdicts' = [verdicts EXCEPT ![e.id] = @ + NoticesOf(judged[e.id])]
  /\ Handled("noticeJudged", e)
  /\ UNCHANGED <<writer, scene, documents, buffers, slack, histories, troubled, faults,
                 likes, everLiked, got, likesNotice, likedTask, unlikedTask>>

----------------------------------------------------------------------------
(* A comment was liked or unliked                                           *)

CommentIsKnown(c) == c \in index               \* getCommnetDetailsFromIds
\* Of a comment that is not found, and of the author's own like, there is no
\* notification.
Concerns(e) == CommentIsKnown(e.id[2]) /\ CommentAuthor[e.id[2]] # e.id[1]

Busy(task, c) == task # Idle /\ task.comment = c

\* upsertCommentLikesNotification begins with a findOne.
LikedReads(e) ==
  /\ e \in inbox["noticeLiked"] /\ likedTask = Idle
  /\ LET c == e.id[2] IN
     IF Concerns(e)
     THEN /\ likedTask' = [pc |-> "write", comment |-> c, event |-> e,
                           existing |-> likesNotice[c] # NoNotice]
          /\ Trouble(IF Busy(unlikedTask, c) THEN {c} ELSE {})
          /\ UNCHANGED <<inbox, done>>
     ELSE Handled("noticeLiked", e) /\ UNCHANGED <<likedTask, troubled>>
  /\ UNCHANGED <<writer, scene, documents, buffers, slack, histories, faults, likes,
                 everLiked, notices, unlikedTask>>

LikedOnce(notice, existing) == [count |-> 1, linked |-> TRUE]  \* slip: always the create
\* updateOne with upsert, or create.  The upsert of a notification that went
\* away leaves one without the post it belongs to.
WithLike(notice, existing) ==
  [count |-> notice.count + 1, linked |-> ~existing \/ notice.linked]

LikedWrites ==
  /\ likedTask.pc = "write"
  /\ LET c == likedTask.comment IN
     likesNotice' = [likesNotice EXCEPT ![c] = WithLike(@, likedTask.existing)]
  /\ Handled("noticeLiked", likedTask.event)
  /\ likedTask' = Idle
  /\ UNCHANGED <<writer, scene, documents, buffers, slack, histories, troubled, faults,
                 likes, everLiked, got, verdicts, unlikedTask>>

WithoutLike(notice) == [notice EXCEPT !.count = @ - 1]

\* findOneAndUpdate; the notification is deleted next if no like is left.
UnlikedUpdates(e) ==
  /\ e \in inbox["noticeUnliked"] /\ unlikedTask = Idle
  /\ LET c == e.id[2] IN
     IF Concerns(e) /\ likesNotice[c] # NoNotice
     THEN /\ likesNotice' = [likesNotice EXCEPT ![c] = WithoutLike(@)]
          /\ unlikedTask' = IF likesNotice'[c].count <= 0
                            THEN [pc |-> "remove", comment |-> c] ELSE Idle
          /\ Trouble(IF Busy(likedTask, c) THEN {c} ELSE {})
     ELSE UNCHANGED <<likesNotice, unlikedTask, troubled>>
  /\ Handled("noticeUnliked", e)
  /\ UNCHANGED <<writer, scene, documents, buffers, slack, histories, faults, likes,
                 everLiked, got, verdicts, likedTask>>

\* deleteOne by the key of the notification, whatever it says by now.
UnlikedRemoves ==
  /\ unlikedTask.pc = "remove"
  /\ likesNotice' = [likesNotice EXCEPT ![unlikedTask.comment] = NoNotice]
  /\ unlikedTask' = Idle
  /\ UNCHANGED <<cvars, likes, everLiked, got, verdicts, likedTask>>

----------------------------------------------------------------------------
Notifier == {"noticeCreated", "noticeDeleted", "noticePost", "noticeJudged",
             "noticeLiked", "noticeUnliked"}

CommentsIn(e) ==
  {c \in Comment : e.id = c \/ e.id \in User \X {c} \/ e.id = PostOf[c]}

\* MongoDB or elasticsearch-proxy does not answer: a log entry.
NotifierFails(s, e) ==
  /\ s \in Notifier /\ e \in inbox[s] /\ Fault
  /\ likedTask # Idle => likedTask.event # e
  /\ Handled(s, e) /\ Trouble(CommentsIn(e))
  /\ UNCHANGED <<writer, scene, documents, buffers, slack, histories, nvars>>

\* One of the events handled before comes again.
NotifierRestarts(s, e) ==
  /\ s \in Notifier /\ e \in done[s] /\ Fault
  /\ inbox' = [inbox EXCEPT ![s] = @ \cup {e}]
  /\ done'  = [done EXCEPT ![s] = @ \ {e}]
  /\ likedTask' = Idle /\ unlikedTask' = Idle
  /\ Trouble(CommentsIn(e) \cup IF unlikedTask = Idle THEN {} ELSE {unlikedTask.comment})
  /\ UNCHANGED <<writer, scene, documents, buffers, slack, histories, likes, everLiked, notices>>

NotifierStep ==
  \/ \E e \in inbox["noticeCreated"] : NotifyPostAuthor(e)
  \/ \E e \in inbox["noticeDeleted"] : CommentGone(e)
  \/ \E e \in inbox["noticePost"] : PostGone(e)
  \/ \E e \in inbox["noticeJudged"] : NotifyVerdict(e)
  \/ \E e \in inbox["noticeLiked"] : LikedReads(e)
  \/ \E e \in inbox["noticeUnliked"] : UnlikedUpdates(e)
  \/ LikedWrites \/ UnlikedRemoves
  \/ \E s \in Notifier : \/ \E e \in inbox[s] : NotifierFails(s, e)
                         \/ \E e \in done[s] : NotifierRestarts(s, e)

NotiNext ==
  \/ WriterStep /\ UNCHANGED nvars
  \/ ProxyStep /\ UNCHANGED nvars
  \/ \E u \in User, c \in Comment : Like(u, c) \/ Unlike(u, c)
  \/ NotifierStep

NotiSpec == NotiInit /\ [][NotiNext]_vars

----------------------------------------------------------------------------
\* The author of a post has a notification of each comment somebody else made,
\* none of a comment that is gone, and exactly one of a bad verdict, as soon as
\* the events are handled: nothing but a lost, repeated or overtaken event
\* changes that.
ByAnother(c) == CommentAuthor[c] # PostAuthor[PostOf[c]]
PostAuthorsKnow ==
  /\ "noticeCreated" \in scene.consumers =>
       \A c \in born \ troubled :
         /\ Present(c) => (c \in got <=> ByAnother(c) /\ ~Waits("noticeCreated", "created", c))
         /\ ~Present(c) => \/ c \notin got
                           \/ Waits("noticeDeleted", "deleted", c)
                           \/ Waits("noticePost", "postDeleted", PostOf[c])
  /\ "noticeJudged" \in scene.consumers /\ faults = 0 => \A p \in Post :
       verdicts[p] = IF judged[p] \in {"pending", "ok"} \/ Waits("noticeJudged", "postJudged", p)
                     THEN 0 ELSE 1

\* The notification of a comment's likes counts those that are there, as long
\* as nobody takes a like back before it was handled, and the two consumers do
\* not handle likes of the comment at the same moment.  (When they do, the
\* deletion at zero can take a new like with it.)
LikesBy(c, pairs) == {l \in pairs : l[2] = c /\ l[1] # CommentAuthor[c]}
WaitingLikes(s, c) == LikesBy(c, {e.id : e \in inbox[s]})
LikesAreCounted ==
  "noticeLiked" \in scene.consumers =>
    \A c \in born \ troubled :
      IF Present(c)
      THEN likesNotice[c].count + Cardinality(WaitingLikes("noticeLiked", c))
             - Cardinality(WaitingLikes("noticeUnliked", c)) = Cardinality(LikesBy(c, likes))
      ELSE \/ likesNotice[c] = NoNotice
           \/ Waits("noticeDeleted", "deleted", c)
           \/ Waits("noticePost", "postDeleted", PostOf[c])
============================================================================
