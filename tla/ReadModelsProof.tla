---------------------------- MODULE ReadModelsProof ----------------------------
(***************************************************************************)
(* Proofs about what is read of the data of other services, for any posts,  *)
(* entries, lists and bounds.  Of the copies of posts (PostReadModels):     *)
(* documents and timelines follow the database, although the events of a    *)
(* post come in any order and more than once, and no two services are in    *)
(* step.  Of the lists a client scrolls through (Lists): to the end of any  *)
(* of them, whatever comes and goes meanwhile, he is shown what was listed  *)
(* all the while, and once, but for what the cursors leave out.             *)
(***************************************************************************)
EXTENDS PostReadModels, Lists, SequenceTheorems, FiniteSetTheorems, TLAPS

Proxy == "elasticsearch-proxy"
Feed  == "feed-service"

\* Events that were sent, wherever they are now.
Sent == topic[Proxy] \cup topic[Feed] \cup handled[Proxy] \cup handled[Feed] \cup missed

Types ==
  /\ row \in [Post -> Version \cup {None}] /\ doc \in [Post -> Version \cup {None}]
  /\ topic \in [Service -> SUBSET Event] /\ handled \in [Service -> SUBSET Event]
  /\ deletions \in [Service -> SUBSET Post] /\ missed \in SUBSET Event
  /\ \/ upsert = Idle
     \/ upsert \in [pc : {"write"}, event : topic[Proxy], unread : BOOLEAN, found : Nat]
  /\ feedTask = Idle \/ feedTask \in [pc : {"append", "cache"}, event : topic[Feed]]
  /\ born \in SUBSET Post /\ faults \in Nat

\* Before a post is created nothing is heard of it, and only when it is gone
\* does somebody hear so.
Lives ==
  /\ acceptable \subseteq born /\ \A e \in Sent : e.post \in born
  /\ \A p \in Post : p \notin born => row[p] = None /\ doc[p] = None
  /\ \A s \in Service : \A p \in deletions[s] : p \in born /\ row[p] = None

\* Nothing known of a post is newer than its row, and of each change there is
\* one version.
UpTo(version, p) ==
  /\ version.updated <= row[p].updated
  /\ version.updated = row[p].updated => version = row[p]
NothingNewer ==
  /\ \A e \in Sent : row[e.post] # None => UpTo(e.version, e.post)
  /\ \A p \in Post : row[p] # None => UpTo(doc[p], p)

\* What getUpdatedAt found is still true, unless the document was deleted.
FoundIsCurrent ==
  upsert # Idle =>
    LET p == upsert.event.post
    IN  /\ upsert.unread => upsert.found = 0
        /\ doc[p] # None /\ ~ upsert.unread => upsert.found = doc[p].updated
        /\ doc[p] = None /\ row[p] # None => upsert.found = 0

\* Of the last change there is an event, wherever it is.
LastHasEvent ==
  \A p \in Post : row[p] # None =>
    \E e \in topic[Proxy] \cup handled[Proxy] \cup missed :
      e.post = p /\ e.version = row[p]

\* The last change is in the document, or an event that tells of it is not
\* handled yet or was missed.
Told(p) == \E e \in topic[Proxy] \cup missed : e.post = p /\ e.version = row[p]
LastIsTold == \A p \in Post : row[p] # None => doc[p] = row[p] \/ Told(p)

IndexInv ==
  Types /\ Lives /\ NothingNewer /\ FoundIsCurrent /\ LastHasEvent /\ LastIsTold

\* What came of the events so far: the timelines of judged posts only, and none
\* left out while nothing fails.
Judged == \A e \in topic[Feed] \cup handled[Feed] : IsForFeed(e) => e.post \in acceptable
TaskIsForFeed ==
  feedTask # Idle =>
    /\ IsForFeed(feedTask.event)
    /\ feedTask.pc = "cache" =>
         \/ row[feedTask.event.post] = None
         \/ feedTask.event.post \in timeline \cup unwritten

FeedInv == Judged /\ TaskIsForFeed /\ FeedIsComplete

\* Steps with the same bearing on the invariants.
FeedActs == FeedStep \/ FeedCallFails \/ GetTimeline \/ \E p \in Post : BulkUpsert(p)
Deletes ==
  \E p \in Post : \/ DeleteDocument(p) \/ DeleteFromTimelines(p)
                  \/ \E s \in Service : DeletionFails(s, p)
Restarts == ProxyRestarts \/ FeedRestarts

----------------------------------------------------------------------------
LEMMA NoneIsNoVersion == None \notin Version /\ \A v \in Version : v.updated > 0
BY ReadModelsAssumption DEF None, Version

LEMMA Parts ==
  /\ \A e \in Event : e.post \in Post /\ e.version \in Version
  /\ \A v \in Version \cup {None} : v.updated \in Nat
  /\ None.updated = 0 /\ Idle.pc = "idle"
BY ReadModelsAssumption DEF Idle, None, Version, Event

LEMMA NewEvents ==
  /\ [status |-> "pending", updated |-> 1] \in Version
  /\ \A v \in Version, verdict \in Verdict : v.updated <= MaxVerdicts =>
       [status |-> verdict, updated |-> v.updated + 1] \in Version
  /\ \A p \in Post, c \in BOOLEAN, v \in Version :
       [post |-> p, completed |-> c, version |-> v] \in Event
BY ReadModelsAssumption DEF Version, Event

\* Creation and verdict: the row changes, and an event tells of the new version,
\* or is lost.
Announced(e) ==
  /\ row' = [row EXCEPT ![e.post] = e.version]
  /\ e.version.updated = row[e.post].updated + 1
  /\ e.post \notin born \/ row[e.post] # None
  /\ born' = born \cup {e.post}
  /\ acceptable' = acceptable \cup IF IsForFeed(e) THEN {e.post} ELSE {}
  /\ \/ topic' = [s \in Service |-> topic[s] \cup {e}] /\ UNCHANGED <<missed, faults>>
     \/ Fault /\ missed' = missed \cup {e} /\ UNCHANGED topic
  /\ UNCHANGED <<hot, handled, deletions, doc, upsert, feed>>

LEMMA CreationIsAnnounced ==
  ASSUME Types, Lives, NEW p \in Post, CreatePost(p)
  PROVE  \E e \in Event : Announced(e)
<1> DEFINE v == [status |-> "pending", updated |-> 1]
           e == [post |-> p, completed |-> FALSE, version |-> v]
<1>1. e \in Event /\ row[p] = None /\ ~ IsForFeed(e)
  BY NewEvents DEF Lives, CreatePost, IsForFeed
<1>2. Announced(e)
  BY <1>1, Parts DEF CreatePost, Send, Announced
<1> QED
  BY <1>1, <1>2

LEMMA VerdictIsAnnounced ==
  ASSUME Types, Lives, NEW p \in Post, NEW verdict \in Verdict, SetModeration(p, verdict)
  PROVE  \E e \in Event : Announced(e)
<1> DEFINE v == [status |-> verdict, updated |-> row[p].updated + 1]
           e == [post |-> p, completed |-> TRUE, version |-> v]
<1>1. e \in Event
  BY NewEvents DEF Types, SetModeration
<1>2. IsForFeed(e) <=> verdict # "failed"
  BY DEF IsForFeed
<1>3. p \in born /\ born' = born \cup {p}
  BY DEF SetModeration, Lives
<1>4. acceptable' = acceptable \cup IF IsForFeed(e) THEN {p} ELSE {}
  BY <1>2 DEF SetModeration
<1>5. Announced(e)
  BY <1>3, <1>4 DEF SetModeration, Send, Announced
<1> QED
  BY <1>1, <1>5

LEMMA InitIndexInv == Init => IndexInv
BY ReadModelsAssumption
   DEF Init, IndexInv, Types, Lives, Sent, Proxy, Feed, Service, NothingNewer,
       FoundIsCurrent, LastHasEvent, LastIsTold, None, Idle

LEMMA InitFeedInv == Init => FeedInv
BY DEF Init, FeedInv, Judged, TaskIsForFeed, FeedIsComplete, Feed, Service, Idle

LEMMA NextTypes == Types /\ Lives /\ [Next]_vars => Types'
<1> SUFFICES ASSUME Types, Lives, [Next]_vars PROVE Types'
  OBVIOUS
<1> USE Parts DEF Types, Proxy, Feed, Service, events, writer, index, feed
<1>1. ASSUME NEW e \in Event, Announced(e) PROVE Types'
  BY <1>1 DEF Announced, Fault
<1>2. ASSUME NEW p \in Post, DeletePost(p) PROVE Types'
  BY <1>2 DEF DeletePost, Fault
<1>3. CASE \E e \in topic[Proxy] : UpsertReads(e)
  BY <1>3 DEF UpsertReads, Fault
<1>4. CASE UpsertWrites
  BY <1>4 DEF UpsertWrites, Handle, Upserted, Overwritten
<1>5. CASE UpsertFails
  BY <1>5 DEF UpsertFails, Handle, Fault
<1>6. CASE FeedActs
  BY <1>6
     DEF FeedActs, FeedStep, FeedTakes, Handle, AppendPost, CachePost,
         FeedCallFails, Fault, BulkUpsert, GetTimeline, AddPostsToUserFeed
<1>7. CASE Deletes
  BY <1>7
     DEF Deletes, DeleteDocument, DeleteFromTimelines, DeletionFails,
         HandleDeletion, Fault
<1>8. CASE Restarts
  BY <1>8 DEF Restarts, ProxyRestarts, FeedRestarts, Redeliver, Fault
<1>9. CASE UNCHANGED vars
  BY <1>9 DEF vars
<1> QED
  BY CreationIsAnnounced, VerdictIsAnnounced, <1>1, <1>2, <1>3, <1>4, <1>5, <1>6,
     <1>7, <1>8, <1>9 DEF Next, ProxyStep, FeedActs, Deletes, Restarts

LEMMA NextLives == Types /\ Lives /\ [Next]_vars => Lives'
<1> SUFFICES ASSUME Types, Lives, [Next]_vars PROVE Lives'
  OBVIOUS
<1> USE Parts
   DEF Types, Lives, Sent, Proxy, Feed, Service, events, writer, index, feed
<1>1. ASSUME NEW e \in Event, Announced(e) PROVE Lives'
  BY <1>1 DEF Announced, Fault
<1>2. ASSUME NEW p \in Post, DeletePost(p) PROVE Lives'
  BY <1>2 DEF DeletePost, Fault
<1>3. CASE \E e \in topic[Proxy] : UpsertReads(e)
  BY <1>3 DEF UpsertReads, Fault
<1>4. CASE UpsertWrites
  BY <1>4 DEF UpsertWrites, Handle, Upserted, Overwritten
<1>5. CASE UpsertFails
  BY <1>5 DEF UpsertFails, Handle, Fault
<1>6. CASE FeedActs
  BY <1>6
     DEF FeedActs, FeedStep, FeedTakes, Handle, AppendPost, CachePost,
         FeedCallFails, Fault, BulkUpsert, GetTimeline, AddPostsToUserFeed
<1>7. CASE Deletes
  BY <1>7
     DEF Deletes, DeleteDocument, DeleteFromTimelines, DeletionFails,
         HandleDeletion, Fault
<1>8. CASE Restarts
  BY <1>8 DEF Restarts, ProxyRestarts, FeedRestarts, Redeliver, Fault
<1>9. CASE UNCHANGED vars
  BY <1>9 DEF vars
<1> QED
  BY CreationIsAnnounced, VerdictIsAnnounced, <1>1, <1>2, <1>3, <1>4, <1>5, <1>6,
     <1>7, <1>8, <1>9 DEF Next, ProxyStep, FeedActs, Deletes, Restarts

LEMMA NoneOrVersion ==
  ASSUME Types, NEW p \in Post
  PROVE  /\ doc[p] # None => doc[p] \in Version /\ doc[p].updated > 0
         /\ row[p] # None => row[p] \in Version /\ row[p].updated > 0
BY Parts, NoneIsNoVersion DEF Types

LEMMA NextNothingNewer ==
  Types /\ Lives /\ NothingNewer /\ [Next]_vars => NothingNewer'
<1> SUFFICES ASSUME Types, Lives, NothingNewer, [Next]_vars PROVE NothingNewer'
  OBVIOUS
<1> USE Parts
   DEF Types, Lives, NothingNewer, UpTo, Sent, Proxy, Feed, Service, events, writer,
       index, feed
<1>1. ASSUME NEW e \in Event, Announced(e) PROVE NothingNewer'
  BY <1>1 DEF Announced, Fault
<1>2. ASSUME NEW p \in Post, DeletePost(p) PROVE NothingNewer'
  BY <1>2 DEF DeletePost, Fault
<1>3. CASE \E e \in topic[Proxy] : UpsertReads(e)
  BY <1>3 DEF UpsertReads, Fault
<1>4. CASE UpsertWrites
  BY <1>4 DEF UpsertWrites, Handle, Upserted, Overwritten
<1>5. CASE UpsertFails
  BY <1>5 DEF UpsertFails, Handle, Fault
<1>6. CASE FeedActs
  BY <1>6
     DEF FeedActs, FeedStep, FeedTakes, Handle, AppendPost, CachePost,
         FeedCallFails, Fault, BulkUpsert, GetTimeline, AddPostsToUserFeed
<1>7. CASE Deletes
  BY <1>7
     DEF Deletes, DeleteDocument, DeleteFromTimelines, DeletionFails,
         HandleDeletion, Fault
<1>8. CASE Restarts
  BY <1>8 DEF Restarts, ProxyRestarts, FeedRestarts, Redeliver, Fault
<1>9. CASE UNCHANGED vars
  BY <1>9 DEF vars
<1> QED
  BY CreationIsAnnounced, VerdictIsAnnounced, <1>1, <1>2, <1>3, <1>4, <1>5, <1>6,
     <1>7, <1>8, <1>9 DEF Next, ProxyStep, FeedActs, Deletes, Restarts

LEMMA NextFoundIsCurrent ==
  Types /\ Lives /\ FoundIsCurrent /\ [Next]_vars => FoundIsCurrent'
<1> SUFFICES ASSUME Types, Lives, FoundIsCurrent, [Next]_vars PROVE FoundIsCurrent'
  OBVIOUS
<1> USE Parts
   DEF Types, Lives, Sent, FoundIsCurrent, Proxy, Feed, Service, events, writer,
       index, feed
<1>1. ASSUME NEW e \in Event, Announced(e) PROVE FoundIsCurrent'
  BY <1>1 DEF Announced, Fault
<1>2. ASSUME NEW p \in Post, DeletePost(p) PROVE FoundIsCurrent'
  BY <1>2 DEF DeletePost, Fault
<1>3. CASE \E e \in topic[Proxy] : UpsertReads(e)
  BY <1>3 DEF UpsertReads, Fault
<1>4. CASE UpsertWrites
  BY <1>4 DEF UpsertWrites, Handle, Upserted, Overwritten
<1>5. CASE UpsertFails
  BY <1>5 DEF UpsertFails, Handle, Fault
<1>6. CASE FeedActs
  BY <1>6
     DEF FeedActs, FeedStep, FeedTakes, Handle, AppendPost, CachePost,
         FeedCallFails, Fault, BulkUpsert, GetTimeline, AddPostsToUserFeed
<1>7. CASE Deletes
  BY <1>7
     DEF Deletes, DeleteDocument, DeleteFromTimelines, DeletionFails,
         HandleDeletion, Fault
<1>8. CASE Restarts
  BY <1>8 DEF Restarts, ProxyRestarts, FeedRestarts, Redeliver, Fault
<1>9. CASE UNCHANGED vars
  BY <1>9 DEF vars
<1> QED
  BY CreationIsAnnounced, VerdictIsAnnounced, <1>1, <1>2, <1>3, <1>4, <1>5, <1>6,
     <1>7, <1>8, <1>9 DEF Next, ProxyStep, FeedActs, Deletes, Restarts

LEMMA NextLastHasEvent ==
  Types /\ Lives /\ LastHasEvent /\ [Next]_vars => LastHasEvent'
<1> SUFFICES ASSUME Types, Lives, LastHasEvent, [Next]_vars PROVE LastHasEvent'
  OBVIOUS
<1> USE Parts
   DEF Types, Lives, Sent, LastHasEvent, Proxy, Feed, Service, events, writer,
       index, feed
<1>1. ASSUME NEW e \in Event, Announced(e) PROVE LastHasEvent'
  BY <1>1 DEF Announced, Fault
<1>2. ASSUME NEW p \in Post, DeletePost(p) PROVE LastHasEvent'
  BY <1>2 DEF DeletePost, Fault
<1>3. CASE \E e \in topic[Proxy] : UpsertReads(e)
  BY <1>3 DEF UpsertReads, Fault
<1>4. CASE UpsertWrites
  BY <1>4 DEF UpsertWrites, Handle, Upserted, Overwritten
<1>5. CASE UpsertFails
  BY <1>5 DEF UpsertFails, Handle, Fault
<1>6. CASE FeedActs
  BY <1>6
     DEF FeedActs, FeedStep, FeedTakes, Handle, AppendPost, CachePost,
         FeedCallFails, Fault, BulkUpsert, GetTimeline, AddPostsToUserFeed
<1>7. CASE Deletes
  BY <1>7
     DEF Deletes, DeleteDocument, DeleteFromTimelines, DeletionFails,
         HandleDeletion, Fault
<1>8. CASE Restarts
  BY <1>8 DEF Restarts, ProxyRestarts, FeedRestarts, Redeliver, Fault
<1>9. CASE UNCHANGED vars
  BY <1>9 DEF vars
<1> QED
  BY CreationIsAnnounced, VerdictIsAnnounced, <1>1, <1>2, <1>3, <1>4, <1>5, <1>6,
     <1>7, <1>8, <1>9 DEF Next, ProxyStep, FeedActs, Deletes, Restarts

LEMMA NextLastIsTold ==
  IndexInv /\ [Next]_vars => LastIsTold'
<1> SUFFICES ASSUME Types, Lives, NothingNewer, FoundIsCurrent, LastHasEvent, LastIsTold,
                    [Next]_vars
             PROVE  LastIsTold'
  BY DEF IndexInv
<1> USE Parts
   DEF Types, Lives, LastIsTold, Told, Proxy, Feed, Service, events, writer, index,
       feed
<1>1. ASSUME NEW e \in Event, Announced(e) PROVE LastIsTold'
  BY <1>1 DEF Announced, Fault
<1>2. ASSUME NEW p \in Post, DeletePost(p) PROVE LastIsTold'
  BY <1>2 DEF DeletePost, Fault
<1>3. CASE \E e \in topic[Proxy] : UpsertReads(e)
  BY <1>3 DEF UpsertReads, Fault
<1>4. CASE UpsertWrites
  <2>1. PICK e \in topic[Proxy] : e = upsert.event /\ e \in Event /\ e \in Sent /\ upsert # Idle
    BY <1>4, Parts DEF UpsertWrites, Types, Sent, Service, Proxy
  <2>2. ASSUME NEW p \in Post, row'[p] # None, p # e.post
        PROVE  doc'[p] = row'[p] \/ Told(p)'
    BY <1>4, <2>1, <2>2
       DEF UpsertWrites, Handle, writer, Types, LastIsTold, Told, Service, Proxy
  <2>3. ASSUME row[e.post] # None PROVE doc'[e.post] = row[e.post] \/ Told(e.post)'
    <3>1. /\ UpTo(e.version, e.post) /\ UpTo(doc[e.post], e.post)
          /\ e.post \in Post /\ e.version \in Version
      BY <2>1, <2>3, Parts DEF NothingNewer, Types, Service, Proxy
    <3>2. /\ e.version.updated \in Nat /\ e.version.updated > 0
          /\ doc[e.post].updated \in Nat /\ row[e.post].updated \in Nat
          /\ doc[e.post] # None => doc[e.post].updated > 0
      BY <3>1, Parts, NoneIsNoVersion, NoneOrVersion DEF Types
    <3>3. CASE upsert.unread
      <4>1. /\ upsert.found = 0 /\ doc'[e.post] = e.version
            /\ e.version # row[e.post] => e.version.updated < row[e.post].updated
        BY <1>4, <2>1, <3>1, <3>2, <3>3
           DEF FoundIsCurrent, UpTo, UpsertWrites, Upserted, Types
      <4>2. PICK d \in topic[Proxy] \cup handled[Proxy] \cup missed :
              d.post = e.post /\ d.version = row[e.post]
        BY <2>3, <3>1 DEF LastHasEvent
      <4>3. d \in topic[Proxy] /\ d # e => d \in topic'[Proxy]
        BY <1>4, <2>1 DEF UpsertWrites, Handle, Types, Service, Proxy
      <4>4. d \in handled[Proxy] /\ e.version # row[e.post] => d \in missed'
        BY <1>4, <2>1, <3>3, <4>1, <4>2, <3>2 DEF UpsertWrites, Overwritten, Proxy
      <4>5. d \in missed => d \in missed'
        BY <1>4 DEF UpsertWrites
      <4>6. row' = row
        BY <1>4 DEF UpsertWrites, writer
      <4> QED
        BY <4>1, <4>2, <4>3, <4>4, <4>5, <4>6 DEF Told
    <3> SUFFICES ASSUME ~ upsert.unread PROVE doc'[e.post] = row[e.post] \/ Told(e.post)'
      BY <3>3
    <3>4. upsert.found = doc[e.post].updated
      BY <2>1, <2>3, <3>1, Parts DEF FoundIsCurrent
    <3>5. doc'[e.post] = Upserted(e, doc[e.post].updated)
      BY <1>4, <2>1, <3>1, <3>4 DEF UpsertWrites, Types
    <3>6. doc'[e.post] = IF Newer(e, doc[e.post].updated) THEN e.version ELSE doc[e.post]
      BY <3>2, <3>5, Parts DEF Upserted, Newer
    <3>7. CASE e.version = row[e.post]
      BY <3>1, <3>2, <3>7, <3>6 DEF UpTo, Newer
    <3>8. CASE e.version # row[e.post] /\ doc[e.post] = row[e.post]
      BY <3>1, <3>2, <3>8, <3>6 DEF UpTo, Newer
    <3>9. CASE e.version # row[e.post] /\ Told(e.post)
      BY <1>4, <2>1, <3>1, <3>9
         DEF Told, UpsertWrites, Handle, writer, Types, Service, Proxy
    <3> QED
      BY <2>3, <3>1, <3>7, <3>8, <3>9 DEF LastIsTold
  <2> QED
    BY <1>4, <2>1, <2>2, <2>3, Parts
       DEF LastIsTold, UpsertWrites, writer, Types, Service, Proxy
<1>5. CASE UpsertFails
  BY <1>5 DEF UpsertFails, Handle, Fault
<1>6. CASE FeedActs
  BY <1>6
     DEF FeedActs, FeedStep, FeedTakes, Handle, AppendPost, CachePost,
         FeedCallFails, Fault, BulkUpsert, GetTimeline, AddPostsToUserFeed
<1>7. CASE Deletes
  BY <1>7
     DEF Deletes, DeleteDocument, DeleteFromTimelines, DeletionFails,
         HandleDeletion, Fault
<1>8. CASE Restarts
  BY <1>8 DEF Restarts, ProxyRestarts, FeedRestarts, Redeliver, Fault
<1>9. CASE UNCHANGED vars
  BY <1>9 DEF vars
<1> QED
  BY CreationIsAnnounced, VerdictIsAnnounced, <1>1, <1>2, <1>3, <1>4, <1>5, <1>6,
     <1>7, <1>8, <1>9 DEF Next, ProxyStep, FeedActs, Deletes, Restarts

LEMMA NextFeedInv == Types /\ Lives /\ FeedInv /\ [Next]_vars => FeedInv'
<1> SUFFICES ASSUME Types, Lives, FeedInv, [Next]_vars PROVE FeedInv'
  OBVIOUS
<1> USE Parts
   DEF Types, Lives, Sent, FeedInv, Judged, TaskIsForFeed, FeedIsComplete, Proxy,
       Feed, Service, events, writer, index, feed
<1>1. ASSUME NEW e \in Event, Announced(e) PROVE FeedInv'
  BY <1>1 DEF Announced, Fault
<1>2. ASSUME NEW p \in Post, DeletePost(p) PROVE FeedInv'
  BY <1>2 DEF DeletePost, Fault
<1>3. CASE \E e \in topic[Proxy] : UpsertReads(e)
  BY <1>3 DEF UpsertReads, Fault
<1>4. CASE UpsertWrites
  BY <1>4 DEF UpsertWrites, Handle, Upserted, Overwritten
<1>5. CASE UpsertFails
  BY <1>5 DEF UpsertFails, Handle, Fault
<1>6. CASE FeedActs
  BY <1>6
     DEF FeedActs, FeedStep, FeedTakes, Handle, AppendPost, CachePost,
         FeedCallFails, Fault, BulkUpsert, GetTimeline, AddPostsToUserFeed
<1>7. CASE Deletes
  BY <1>7
     DEF Deletes, DeleteDocument, DeleteFromTimelines, DeletionFails,
         HandleDeletion, Fault
<1>8. CASE Restarts
  BY <1>8 DEF Restarts, ProxyRestarts, FeedRestarts, Redeliver, Fault
<1>9. CASE UNCHANGED vars
  BY <1>9 DEF vars
<1> QED
  BY CreationIsAnnounced, VerdictIsAnnounced, <1>1, <1>2, <1>3, <1>4, <1>5, <1>6,
     <1>7, <1>8, <1>9 DEF Next, ProxyStep, FeedActs, Deletes, Restarts

----------------------------------------------------------------------------
LEMMA NextIndexInv == IndexInv /\ [Next]_vars => IndexInv'
BY NextTypes, NextLives, NextNothingNewer, NextFoundIsCurrent, NextLastHasEvent,
   NextLastIsTold
   DEF IndexInv

\* The document of a post that exists is of its last change, once all events of
\* the post that elasticsearch-proxy was given are handled, and none was lost or
\* overwritten blindly, after a read that failed.
THEOREM DocumentsAgree == Spec => []IndexAgrees
<1>1. IndexInv => IndexAgrees
  BY DEF IndexInv, LastIsTold, Told, IndexAgrees, Settled, Proxy
<1> QED
  BY <1>1, InitIndexInv, NextIndexInv, PTL DEF Spec

\* No document goes back to an older version of its post, whatever comes twice or
\* late (Post.services.ts, "if events are retried"), but by a write whose own read
\* failed.
THEOREM DocumentsNeverGoBack == Spec => IndexNeverBack
<1> DEFINE Forward == \A p \in Post : Blind(p) \/ NotOlder(p)
<1>1. IndexInv /\ [Next]_vars => [Forward]_vars
  <2> SUFFICES ASSUME IndexInv, [Next]_vars, NEW p \in Post, ~ Blind(p),
                      doc[p] # None, doc'[p] # None
               PROVE  doc'[p].updated >= doc[p].updated
    BY DEF NotOlder
  <2>1. Types /\ FoundIsCurrent
    BY DEF IndexInv
  <2>2. CASE doc'[p] = doc[p]
    BY <2>1, <2>2, Parts DEF Types
  <2>3. CASE UpsertWrites /\ doc'[p] # doc[p]
    BY <2>1, <2>3, Parts, NoneIsNoVersion, NoneOrVersion
       DEF Blind, UpsertWrites, Upserted, Newer, FoundIsCurrent, Types, Service, Proxy
  <2>4. UpsertWrites \/ doc'[p] = doc[p]
    BY <2>1, Parts
       DEF Next, ProxyStep, FeedStep, CreatePost, SetModeration, DeletePost,
           UpsertReads,
       UpsertFails, FeedTakes, AppendPost, CachePost, FeedCallFails, BulkUpsert, GetTimeline,
       DeleteDocument, DeleteFromTimelines, DeletionFails, ProxyRestarts, FeedRestarts, vars,
       index, writer, Types
  <2> QED
    BY <2>2, <2>3, <2>4
<1> QED
  BY <1>1, InitIndexInv, NextIndexInv, PTL DEF Spec, IndexNeverBack

\* Timelines and cache hold judged posts only, and while nothing fails all of them,
\* but those of hot authors, although nobody waits for the database.
THEOREM FeedsAreComplete == Spec => []FeedIsComplete
<1>1. Types /\ Lives /\ FeedInv /\ [Next]_vars => (Types /\ Lives /\ FeedInv)'
  BY NextTypes, NextLives, NextFeedInv
<1>2. Init => Types /\ Lives /\ FeedInv
  BY InitIndexInv, InitFeedInv DEF IndexInv
<1>3. FeedInv => FeedIsComplete
  BY DEF FeedInv
<1> QED
  BY <1>1, <1>2, <1>3, PTL DEF Spec

----------------------------------------------------------------------------
(* Lists: sorting and pages                                                  *)

\* A list is sorted by an order of the entries, here as a set of pairs.
IsOrder(R) ==
  /\ \A i \in Id : <<i, i>> \notin R
  /\ \A i, j \in Id : i = j \/ <<i, j>> \in R \/ <<j, i>> \in R
  /\ \A i, j, k \in Id : <<i, j>> \in R /\ <<j, k>> \in R => <<i, k>> \in R

Rank(R, S, i) == Cardinality({j \in S : <<j, i>> \in R})
AtMost(n, m) == IF n < m THEN n ELSE m

\* What First returns: the entry of each rank, in turn.
IsFirst(page, R, S, n) ==
  /\ page = [p \in 1 .. AtMost(Cardinality(S), n) |-> page[p]]
  /\ \A p \in 1 .. AtMost(Cardinality(S), n) : page[p] \in S /\ Rank(R, S, page[p]) = p - 1

LEMMA EntriesFinite == \A S \in SUBSET Id : IsFiniteSet(S) /\ Cardinality(S) \in Nat
<1>1. \A S \in SUBSET Id : IsFiniteSet(S)
  BY FS_Subset, ListsAssumption
<1> QED BY <1>1, FS_CardinalityType

\* Who comes first has the lower rank.
LEMMA RankBelow ==
  ASSUME NEW R, IsOrder(R), NEW S \in SUBSET Id, NEW i \in S, NEW j \in S, <<i, j>> \in R
  PROVE  Rank(R, S, i) < Rank(R, S, j)
<1> DEFINE above(x) == {k \in S : <<k, x>> \in R}
<1>1. above(i) \subseteq above(j) /\ i \in above(j) /\ i \notin above(i)
  BY DEF IsOrder
<1> HIDE DEF above
<1>2. above(i) \in SUBSET Id /\ above(j) \in SUBSET Id
  BY DEF above
<1>3. IsFiniteSet(above(i)) /\ IsFiniteSet(above(j)) /\ Cardinality(above(i)) \in Nat
      /\ Cardinality(above(j)) \in Nat
  BY <1>2, EntriesFinite
<1>4. Cardinality(above(i) \cup {i}) = Cardinality(above(i)) + 1
  BY <1>1, <1>3, FS_AddElement
<1>5. Cardinality(above(i) \cup {i}) <= Cardinality(above(j))
  BY <1>1, <1>3, FS_Subset
<1>6. Cardinality(above(i)) < Cardinality(above(j))
  BY <1>3, <1>4, <1>5
<1> QED BY <1>6 DEF Rank, above

\* A rank is a number below the size of the set.
LEMMA RankRange ==
  ASSUME NEW R, IsOrder(R), NEW S \in SUBSET Id, NEW i \in S
  PROVE  Rank(R, S, i) \in 0 .. Cardinality(S) - 1
<1> DEFINE above == {k \in S : <<k, i>> \in R}
<1>1. above \subseteq S \ {i} /\ above \in SUBSET Id
  BY DEF IsOrder
<1> HIDE DEF above
<1>2. IsFiniteSet(S) /\ Cardinality(S) \in Nat /\ IsFiniteSet(above) /\ Cardinality(above) \in Nat
  BY <1>1, EntriesFinite
<1>3. Cardinality(S \ {i}) = Cardinality(S) - 1 /\ IsFiniteSet(S \ {i})
  BY <1>2, FS_RemoveElement
<1>4. Cardinality(above) <= Cardinality(S \ {i})
  BY <1>1, <1>3, FS_Subset
<1>5. Cardinality(above) \in 0 .. Cardinality(S) - 1
  BY <1>2, <1>3, <1>4
<1> QED BY <1>5 DEF Rank, above

\* Every such number is the rank of an entry.
LEMMA RankOnto ==
  ASSUME NEW R, IsOrder(R), NEW S \in SUBSET Id, NEW k \in 0 .. Cardinality(S) - 1
  PROVE  \E i \in S : Rank(R, S, i) = k
<1> DEFINE n == Cardinality(S)
           f == [i \in S |-> Rank(R, S, i)]
           T == 0 .. n - 1
<1>1. IsFiniteSet(S) /\ n \in Nat
  BY EntriesFinite
<1>2. f \in [S -> T]
  BY RankRange
<1>3. \A i, j \in S : f[i] = f[j] => i = j
  <2> SUFFICES ASSUME NEW i \in S, NEW j \in S, f[i] = f[j], i # j PROVE FALSE
    OBVIOUS
  <2>1. <<i, j>> \in R \/ <<j, i>> \in R
    BY DEF IsOrder
  <2>2. Rank(R, S, i) < Rank(R, S, j) \/ Rank(R, S, j) < Rank(R, S, i)
    BY <2>1, RankBelow
  <2>3. Rank(R, S, i) \in Nat /\ Rank(R, S, j) \in Nat
    BY <1>1, RankRange
  <2> QED BY <2>2, <2>3
<1>4. f \in Injection(S, T)
  BY <1>2, <1>3 DEF Injection, IsInjective
<1>5. IsFiniteSet(T) /\ Cardinality(T) = n
  <2> DEFINE m == n - 1
  <2>0. m \in Int /\ 0 \in Int
    BY <1>1
  <2> HIDE DEF m
  <2>1. IsFiniteSet(0 .. m) /\ Cardinality(0 .. m) = IF 0 > m THEN 0 ELSE m - 0 + 1
    BY <2>0, FS_Interval
  <2> USE DEF m
  <2> QED BY <1>1, <2>1
<1>6. f \in Surjection(S, T)
  BY <1>1, <1>4, <1>5, FS_Injection
<1> QED BY <1>6 DEF Surjection

\* What a page of a sorted list is.
Holds(page, i) == \E p \in DOMAIN page : page[p] = i
Sorted(page, R) == \A p, q \in DOMAIN page : p < q => <<page[p], page[q]>> \in R
Prefix(page, R, S, n) ==
  /\ page \in Seq(S) /\ Len(page) \in Nat /\ Len(page) <= n
  /\ Sorted(page, R)
  /\ \A i \in S : Holds(page, i) \/ (Len(page) = n /\ \A p \in DOMAIN page : <<page[p], i>> \in R)

\* A list by rank is a sorted beginning of the set, full or all of it.
LEMMA FirstIsPrefix ==
  ASSUME NEW R, IsOrder(R), NEW S \in SUBSET Id, NEW n \in Nat, NEW page, IsFirst(page, R, S, n)
  PROVE  /\ Prefix(page, R, S, n) /\ Len(page) = AtMost(Cardinality(S), n)
         /\ \A p \in DOMAIN page : Rank(R, S, page[p]) = p - 1
<1> DEFINE k == AtMost(Cardinality(S), n)
<1>1. Cardinality(S) \in Nat /\ k \in Nat /\ k <= n /\ k <= Cardinality(S)
      /\ (k = n \/ k = Cardinality(S))
  BY EntriesFinite DEF AtMost
<1>2. page \in [1 .. k -> S]
  BY DEF IsFirst
<1> HIDE DEF k
<1>3. page \in Seq(S) /\ Len(page) = k /\ DOMAIN page = 1 .. k
  BY <1>1, <1>2
<1>4. \A p \in DOMAIN page : page[p] \in S /\ Rank(R, S, page[p]) = p - 1
  BY <1>3 DEF IsFirst, k
<1>5. \A i \in S : Rank(R, S, i) \in Nat /\ Rank(R, S, i) < Cardinality(S)
  BY <1>1, RankRange
<1>6. \A i, j \in S : Rank(R, S, i) < Rank(R, S, j) => <<i, j>> \in R
  <2> SUFFICES ASSUME NEW i \in S, NEW j \in S, Rank(R, S, i) < Rank(R, S, j), <<i, j>> \notin R
               PROVE FALSE
    OBVIOUS
  <2>1. Rank(R, S, i) \in Nat /\ Rank(R, S, j) \in Nat
    BY <1>5
  <2>2. i # j
    BY <2>1
  <2>3. <<j, i>> \in R
    BY <2>2 DEF IsOrder
  <2> QED BY <2>1, <2>3, RankBelow
<1>7. Sorted(page, R)
  <2> SUFFICES ASSUME NEW p \in DOMAIN page, NEW q \in DOMAIN page, p < q
               PROVE  <<page[p], page[q]>> \in R
    BY DEF Sorted
  <2>1. Rank(R, S, page[p]) < Rank(R, S, page[q])
    BY <1>1, <1>3, <1>4
  <2> QED BY <1>4, <1>6, <2>1
<1>8. \A i \in S : Rank(R, S, i) < k => Holds(page, i)
  <2> SUFFICES ASSUME NEW i \in S, Rank(R, S, i) < k PROVE Holds(page, i)
    OBVIOUS
  <2>1. Rank(R, S, i) + 1 \in DOMAIN page
    BY <1>1, <1>3, <1>5
  <2> DEFINE p == Rank(R, S, i) + 1
  <2>2. Rank(R, S, page[p]) = Rank(R, S, i) /\ page[p] \in S
    BY <1>4, <1>5, <2>1
  <2>3. page[p] = i
    <3> SUFFICES ASSUME page[p] # i PROVE FALSE
      OBVIOUS
    <3>1. <<page[p], i>> \in R \/ <<i, page[p]>> \in R
      BY <2>2 DEF IsOrder
    <3>2. Rank(R, S, page[p]) < Rank(R, S, i) \/ Rank(R, S, i) < Rank(R, S, page[p])
      BY <2>2, <3>1, RankBelow
    <3> QED BY <1>5, <2>2, <3>2
  <2> QED BY <2>1, <2>3 DEF Holds
<1>9. ASSUME NEW i \in S, ~ Holds(page, i)
      PROVE  k = n /\ \A p \in DOMAIN page : <<page[p], i>> \in R
  <2>1. ~ (Rank(R, S, i) < k)
    BY <1>8, <1>9
  <2>2. k = n
    BY <1>1, <1>5, <2>1
  <2>3. \A p \in DOMAIN page : Rank(R, S, page[p]) < Rank(R, S, i)
    BY <1>1, <1>3, <1>4, <1>5, <2>1
  <2> QED BY <1>4, <1>6, <2>2, <2>3
<1> QED BY <1>1, <1>3, <1>4, <1>7, <1>9 DEF Prefix, k

\* The orders of the lists.
NewerFirstPairs == {pair \in Id \X Id : NewerFirst(pair[1], pair[2])}
LaterPairs == {pair \in Id \X Id : Later(pair[1], pair[2])}
EarlierPairs == {pair \in Id \X Id : Earlier(pair[1], pair[2])}
ByTimePairs == {pair \in Id \X Id : ByTime(pair[1], pair[2])}
ByPlacePairs == {pair \in Id \X Id : ByPlace(pair[1], pair[2])}

\* The lists of the program are sorted by total orders.
LEMMA Orders ==
  ASSUME time \in [Id -> Nat]
  PROVE  IsOrder(NewerFirstPairs) /\ IsOrder(LaterPairs) /\ IsOrder(EarlierPairs)
         /\ IsOrder(ByTimePairs) /\ IsOrder(ByPlacePairs)
<1>1. Id \subseteq Nat /\ \A i \in Id : time[i] \in Nat
  BY ListsAssumption
<1>2. IsOrder(NewerFirstPairs)
  BY <1>1 DEF IsOrder, NewerFirstPairs, NewerFirst
<1>3. IsOrder(LaterPairs)
  BY <1>1 DEF IsOrder, LaterPairs, Later
<1>4. IsOrder(EarlierPairs)
  BY <1>1 DEF IsOrder, EarlierPairs, Earlier
<1>5. IsOrder(ByTimePairs)
  BY <1>1 DEF IsOrder, ByTimePairs, ByTime
<1>6. IsOrder(ByPlacePairs)
  BY <1>1 DEF IsOrder, ByPlacePairs, ByPlace
<1> QED BY <1>2, <1>3, <1>4, <1>5, <1>6

\* A list chosen by rank is that of its order.
LEMMA ChosenByRank ==
  ASSUME NEW R, IsOrder(R), NEW S \in SUBSET Id, NEW n \in Nat, NEW page,
         page = [p \in 1 .. AtMost(Cardinality(S), n) |-> CHOOSE i \in S : Rank(R, S, i) = p - 1]
  PROVE  IsFirst(page, R, S, n)
<1> DEFINE k == AtMost(Cardinality(S), n)
<1>1. Cardinality(S) \in Nat /\ k \in Nat /\ k <= Cardinality(S)
  BY EntriesFinite DEF AtMost
<1>2. ASSUME NEW p \in 1 .. k
      PROVE  page[p] \in S /\ Rank(R, S, page[p]) = p - 1
  <2>1. p - 1 \in 0 .. Cardinality(S) - 1
    BY <1>1
  <2>2. \E i \in S : Rank(R, S, i) = p - 1
    BY <2>1, RankOnto
  <2>3. page[p] = CHOOSE i \in S : Rank(R, S, i) = p - 1
    OBVIOUS
  <2> QED BY <2>2, <2>3
<1> QED BY <1>2 DEF IsFirst

LEMMA FirstNewer ==
  ASSUME time \in [Id -> Nat], NEW S \in SUBSET Id, NEW n \in Nat
  PROVE  IsFirst(First(S, NewerFirst, n), NewerFirstPairs, S, n)
<1>1. \A i \in S : {j \in S : <<j, i>> \in NewerFirstPairs} = {j \in S : NewerFirst(j, i)}
  BY DEF NewerFirstPairs
<1>2. \A i \in S : Rank(NewerFirstPairs, S, i) = Cardinality({j \in S : NewerFirst(j, i)})
  BY <1>1 DEF Rank
<1>3. First(S, NewerFirst, n) = [p \in 1 .. AtMost(Cardinality(S), n) |->
         CHOOSE i \in S : Rank(NewerFirstPairs, S, i) = p - 1]
  BY <1>2 DEF First, AtMost
<1> QED BY <1>3, Orders, ChosenByRank

LEMMA FirstLater ==
  ASSUME time \in [Id -> Nat], NEW S \in SUBSET Id, NEW n \in Nat
  PROVE  IsFirst(First(S, Later, n), LaterPairs, S, n)
<1>1. \A i \in S : {j \in S : <<j, i>> \in LaterPairs} = {j \in S : Later(j, i)}
  BY DEF LaterPairs
<1>2. \A i \in S : Rank(LaterPairs, S, i) = Cardinality({j \in S : Later(j, i)})
  BY <1>1 DEF Rank
<1>3. First(S, Later, n) = [p \in 1 .. AtMost(Cardinality(S), n) |->
         CHOOSE i \in S : Rank(LaterPairs, S, i) = p - 1]
  BY <1>2 DEF First, AtMost
<1> QED BY <1>3, Orders, ChosenByRank

LEMMA FirstEarlier ==
  ASSUME time \in [Id -> Nat], NEW S \in SUBSET Id, NEW n \in Nat
  PROVE  IsFirst(First(S, Earlier, n), EarlierPairs, S, n)
<1>1. \A i \in S : {j \in S : <<j, i>> \in EarlierPairs} = {j \in S : Earlier(j, i)}
  BY DEF EarlierPairs
<1>2. \A i \in S : Rank(EarlierPairs, S, i) = Cardinality({j \in S : Earlier(j, i)})
  BY <1>1 DEF Rank
<1>3. First(S, Earlier, n) = [p \in 1 .. AtMost(Cardinality(S), n) |->
         CHOOSE i \in S : Rank(EarlierPairs, S, i) = p - 1]
  BY <1>2 DEF First, AtMost
<1> QED BY <1>3, Orders, ChosenByRank

LEMMA FirstByTime ==
  ASSUME time \in [Id -> Nat], NEW S \in SUBSET Id, NEW n \in Nat
  PROVE  IsFirst(First(S, ByTime, n), ByTimePairs, S, n)
<1>1. \A i \in S : {j \in S : <<j, i>> \in ByTimePairs} = {j \in S : ByTime(j, i)}
  BY DEF ByTimePairs
<1>2. \A i \in S : Rank(ByTimePairs, S, i) = Cardinality({j \in S : ByTime(j, i)})
  BY <1>1 DEF Rank
<1>3. First(S, ByTime, n) = [p \in 1 .. AtMost(Cardinality(S), n) |->
         CHOOSE i \in S : Rank(ByTimePairs, S, i) = p - 1]
  BY <1>2 DEF First, AtMost
<1> QED BY <1>3, Orders, ChosenByRank

LEMMA FirstByPlace ==
  ASSUME time \in [Id -> Nat], NEW S \in SUBSET Id, NEW n \in Nat
  PROVE  IsFirst(First(S, ByPlace, n), ByPlacePairs, S, n)
<1>1. \A i \in S : {j \in S : <<j, i>> \in ByPlacePairs} = {j \in S : ByPlace(j, i)}
  BY DEF ByPlacePairs
<1>2. \A i \in S : Rank(ByPlacePairs, S, i) = Cardinality({j \in S : ByPlace(j, i)})
  BY <1>1 DEF Rank
<1>3. First(S, ByPlace, n) = [p \in 1 .. AtMost(Cardinality(S), n) |->
         CHOOSE i \in S : Rank(ByPlacePairs, S, i) = p - 1]
  BY <1>2 DEF First, AtMost
<1> QED BY <1>3, Orders, ChosenByRank

\* What the pages of numbers rest on.
LEMMA TotalPagesBounds ==
  ASSUME limit \in Nat \ {0}, NEW e \in Nat
  PROVE  /\ TotalPages(e) \in Nat /\ TotalPages(e) >= 1 /\ (TotalPages(e) <= e \/ TotalPages(e) = 1)
         /\ \A n \in Nat : n >= TotalPages(e) => n * limit >= e
<1>1. CASE e = 0
  BY <1>1 DEF TotalPages
<1>2. CASE e # 0
  <2>1. PICK l \in Nat \ {0} : l = limit
    OBVIOUS
  <2>2. PICK q : q = (e + l - 1) \div l
    OBVIOUS
  <2>3. q \in Int /\ l * q <= e + l - 1 /\ e + l - 1 < l * (q + 1)
    BY <2>2
  <2>4. q >= 1
    BY <1>2, <2>3
  <2>5. q <= e
    BY <1>2, <2>3, <2>4
  <2>6. \A n \in Nat : n >= q => n * l >= e
    BY <2>3, <2>4
  <2> QED BY <1>2, <2>1, <2>2, <2>3, <2>4, <2>5, <2>6 DEF TotalPages
<1> QED BY <1>1, <1>2

\* What is still to come after a cursor, and what is not ahead of it.
Ahead(c, i) ==
  \/ c = Nothing
  \/ kind \in Requests \cup {"feed"} /\ NewerFirst(c, i)
  \/ kind = "mutualFriends" /\ i > c
  \/ kind = "userSearch" /\ time[i] < time[c]
  \/ kind \in Posts \cup {"notifications", "comments"} /\ i < c
Behind(c, i) ==
  /\ c # Nothing
  /\ \/ kind \in Requests \cup {"userSearch"} /\ time[i] >= time[c]
     \/ kind = "mutualFriends" /\ i <= c
     \/ kind = "feed" /\ (i = c \/ NewerFirst(i, c))
     \/ kind \in Posts \cup {"notifications", "comments"} /\ i >= c

Shown == {i \in Id : history.shown[i] > 0}
Bonds == {Nothing, "accepted", "sent", "received", "self"}
PostsTyped ==
  kind = "posts" => /\ bond \in Bonds
                    /\ \A i \in Stored :
                         entry[i] \in [tag : {"public", "friends"},
                                      verdict : {"ok", "pending", "notAppropriate"}]
ScrollTyped ==
  /\ limit \in Nat \ {0} /\ time \in [Id -> Nat]
  /\ Stored \in SUBSET Id /\ feedCache \in SUBSET Id
  /\ \A w \in owed : kind = "feed" /\ (w[1] \in {"append", "upset"} => w[2] \in Id)
  /\ PostsTyped
  /\ ended \in BOOLEAN
  /\ history \in [pages : Nat, changes : Nat, shown : [Id -> Nat], stayed : SUBSET Id,
                  stops : SUBSET (Id \cup {Nothing}), gaps : SUBSET Id, drops : Nat]

\* Before the first page.
NotStarted ==
  history.pages = 0 =>
    /\ ~ ended /\ from = Nothing /\ history.stayed = {} /\ Stops = {} /\ Shown = {}
\* The cursor of a list under way.
CursorSet ==
  /\ history.stayed \subseteq Wanted /\ Stops \subseteq Shown
  /\ history.pages > 0 /\ ~ ended =>
       IF kind \in Pages THEN from = history.pages + 1 ELSE from \in Stops

Excused(i) ==
  \/ kind \in {"feed", "userSearch"} /\ i \in OfACursorsMs
  \/ kind = "feed" /\ i \in history.gaps
Missed == {i \in history.stayed : history.shown[i] = 0 /\ ~ (~ ended /\ Ahead(from, i))}
NoneMissed ==
  /\ kind \notin Pages \cup {"mutualFriends"} => \A i \in Missed : Excused(i)
  /\ kind = "mutualFriends" => Cardinality(Missed) <= history.drops
\* Nothing that is ahead was shown.
NoneRepeated ==
  kind \notin Pages =>
    /\ ~ ended => \A i \in Shown : Behind(from, i)
    /\ \A i \in Twice : kind \in Requests /\ i \in OfACursorsMs
Advances ==
  LET last == IF ended THEN 1 ELSE 0
  IN  IF kind \in Pages THEN history.pages <= Cardinality(Id) + last
                        ELSE Crowded \/ history.pages <= Cardinality(Stops) + last
\* Numbered pages, while nothing changes.
Place(i) == Cardinality({j \in Stored : ByPlace(j, i)})
Numbered ==
  kind \in Pages /\ history.changes = 0 =>
    /\ \A i \in Id : history.shown[i] =
                       IF i \in Stored /\ Place(i) < history.pages * limit THEN 1 ELSE 0
    /\ ended => history.pages * limit >= Cardinality(Stored)
\* The count, while nothing changes.
CountedKinds == {"friendRequests", "friends", "mutualFriends"}
CountKept ==
  /\ told # Nothing => kind \in CountedKinds
  /\ kind \in CountedKinds /\ history.changes = 0 =>
       /\ Shown \subseteq Wanted
       /\ history.pages > 0 => history.stayed = Wanted
       /\ kind = "mutualFriends" => history.drops = 0
       /\ told # Nothing => told = Cardinality(Wanted)
ReadIsShown ==
  kind = "notifications" => \A i \in Tagged("read") : \E j \in Shown : j >= i
ScrollInv ==
  /\ ScrollTyped /\ NotStarted /\ CursorSet /\ NoneMissed /\ NoneRepeated /\ Advances
  /\ Numbered /\ CountKept /\ ReadIsShown

----------------------------------------------------------------------------
(* The start                                                                 *)

LEMMA ScrollStarts == ScrollInit => ScrollInv
<1> SUFFICES ASSUME ScrollInit PROVE ScrollInv
  OBVIOUS
<1>1. limit \in Nat \ {0} /\ time \in [Id -> Nat] /\ ended = FALSE /\ from = Nothing
  <2>1. limit \in Limit /\ time \in [Id -> Time]
    BY DEF ScrollInit
  <2> QED BY <2>1, ListsAssumption DEF ScrollInit
<1>2. history = [pages |-> 0, changes |-> 0, shown |-> [i \in Id |-> 0], stayed |-> {},
                 stops |-> {}, gaps |-> {}, drops |-> 0]
  BY DEF ScrollInit
<1>3. Stored \in SUBSET Id
  BY DEF ScrollInit, Stored
<1>4. feedCache \in SUBSET Id
  <2>1. CASE feedCache = {}
    BY <2>1
  <2>2. CASE feedCache # {}
    <3> DEFINE page == First(Stored, NewerFirst, CacheSize)
               k == AtMost(Cardinality(Stored), CacheSize)
    <3>1. IsFirst(page, NewerFirstPairs, Stored, CacheSize)
      BY <1>1, <1>3, FirstNewer, ListsAssumption
    <3>2. feedCache = {page[p] : p \in 1 .. k}
      BY <2>2 DEF ScrollInit, AtMost
    <3>3. \A p \in 1 .. k : page[p] \in Stored
      BY <3>1 DEF IsFirst
    <3> QED BY <1>3, <3>2, <3>3
  <2> QED BY <2>1, <2>2
<1>5. owed = {} /\ told = Nothing
  BY DEF ScrollInit
<1>6. PostsTyped
  BY DEF ScrollInit, PostsTyped, Entry, Stored, Bonds, Requests
<1>7. Shown = {} /\ Stops = {} /\ history.stayed = {}
  BY <1>2 DEF Shown, Stops
<1>8. ScrollTyped
  BY <1>1, <1>2, <1>3, <1>4, <1>5, <1>6 DEF ScrollTyped
<1>9. NotStarted /\ CursorSet
  BY <1>1, <1>2, <1>7 DEF NotStarted, CursorSet
<1>10. NoneMissed
  <2>1. Missed = {}
    BY <1>7 DEF Missed
  <2> QED BY <1>2, <2>1, FS_EmptySet DEF NoneMissed
<1>11. NoneRepeated
  BY <1>2, <1>7 DEF NoneRepeated, Twice
<1>12. Advances
  <2>1. Cardinality(Id) \in Nat
    BY EntriesFinite
  <2> QED BY <1>1, <1>2, <1>7, <2>1, FS_EmptySet DEF Advances
<1>13. Numbered
  <2>1. \A i \in Id : Place(i) \in Nat
    <3> SUFFICES ASSUME NEW i \in Id PROVE Place(i) \in Nat
      OBVIOUS
    <3>1. {j \in Stored : ByPlace(j, i)} \in SUBSET Id
      BY <1>3
    <3> QED BY <3>1, EntriesFinite DEF Place
  <2> QED BY <1>1, <1>2, <2>1 DEF Numbered
<1>14. CountKept
  BY <1>2, <1>5, <1>7 DEF CountKept
<1>15. ReadIsShown
  BY DEF ScrollInit, ReadIsShown, Tagged, Stored, Entry, Requests
<1> QED BY <1>8, <1>9, <1>10, <1>11, <1>12, <1>13, <1>14, <1>15 DEF ScrollInv

----------------------------------------------------------------------------
(* What happens meanwhile                                                    *)

\* Whatever changes the list leaves what was shown and the cursor alone.
LEMMA WriteKeeps ==
  ASSUME ScrollInv, ScrollTyped', ReadIsShown', NEW c \in Nat, c > 0 \/ kind = "feed",
         UNCHANGED <<kind, limit, from, ended, told>>, time' = time \/ (kind \in Pages /\ c > 0),
         history' = [history EXCEPT !.changes = c, !.stayed = @ \cap Wanted']
  PROVE  ScrollInv'
<1> USE DEF ScrollInv
<1>1. /\ history'.pages = history.pages /\ history'.changes = c
      /\ history'.shown = history.shown /\ history'.stops = history.stops
      /\ history'.gaps = history.gaps /\ history'.drops = history.drops
      /\ history'.stayed = history.stayed \cap Wanted'
  BY DEF ScrollTyped
<1>2. Shown' = Shown /\ Stops' = Stops /\ Twice' = Twice
  BY <1>1 DEF Shown, Stops, Twice
<1>3. NotStarted'
  BY <1>1, <1>2 DEF NotStarted
<1>4. CursorSet'
  BY <1>1, <1>2 DEF CursorSet
<1>5. NoneMissed' /\ NoneRepeated' /\ Advances'
  <2>1. CASE kind \in Pages
    BY <1>1, <2>1 DEF NoneMissed, NoneRepeated, Advances, Pages
  <2>2. CASE kind \notin Pages
    <3>1. time' = time
      BY <2>2
    <3>2. OfACursorsMs' = OfACursorsMs /\ Crowded' = Crowded
      BY <1>2, <3>1 DEF OfACursorsMs, Crowded
    <3>5. Missed' \subseteq Missed
      BY <1>1, <3>1 DEF Missed, Ahead, NewerFirst
    <3>6. \A i \in Missed' : Excused(i) => Excused(i)'
      BY <1>1, <3>2 DEF Excused
    <3>7. Cardinality(Missed') <= Cardinality(Missed) /\ Cardinality(Missed) \in Nat
          /\ Cardinality(Missed') \in Nat
      <4>1. Missed \in SUBSET Id
        BY DEF Missed, ScrollTyped
      <4>2. Missed' \in SUBSET Id
        BY <3>5, <4>1
      <4> QED BY <3>5, <4>1, <4>2, EntriesFinite, FS_Subset
    <3>8. NoneMissed'
      <4>1. kind \notin Pages \cup {"mutualFriends"} => \A i \in Missed' : Excused(i)'
        BY <3>5, <3>6 DEF NoneMissed
      <4>2. kind = "mutualFriends" => Cardinality(Missed') <= history.drops
        <5>1. history.drops \in Nat
          BY DEF ScrollTyped
        <5> QED BY <3>7, <5>1 DEF NoneMissed
      <4> QED BY <1>1, <4>1, <4>2 DEF NoneMissed
    <3>9. NoneRepeated'
      BY <1>2, <3>1, <3>2 DEF NoneRepeated, Behind, NewerFirst
    <3>10. Advances'
      BY <1>1, <1>2, <3>2 DEF Advances
    <3> QED BY <3>8, <3>9, <3>10
  <2> QED BY <2>1, <2>2
<1>6. Numbered'
  BY <1>1 DEF Numbered, Pages
<1>7. CountKept'
  BY <1>1 DEF CountKept, CountedKinds
<1> QED BY <1>3, <1>4, <1>5, <1>6, <1>7

\* A change is counted, and what was shown stays shown.
LEMMA ChangedHistory ==
  ASSUME ScrollInv, Change
  PROVE  /\ history.changes + 1 \in Nat /\ history.changes + 1 > 0
         /\ UNCHANGED <<kind, limit, from, ended, told>>
         /\ history' = [history EXCEPT !.changes = history.changes + 1, !.stayed = @ \cap Wanted']
         /\ history' \in [pages : Nat, changes : Nat, shown : [Id -> Nat], stayed : SUBSET Id,
                          stops : SUBSET (Id \cup {Nothing}), gaps : SUBSET Id, drops : Nat]
         /\ Shown' = Shown
<1>1. history \in [pages : Nat, changes : Nat, shown : [Id -> Nat], stayed : SUBSET Id,
                   stops : SUBSET (Id \cup {Nothing}), gaps : SUBSET Id, drops : Nat]
  BY DEF ScrollInv, ScrollTyped
<1>2. PICK n \in Nat : n = history.changes
  BY <1>1
<1>3. PICK s : s = history.stayed \cap Wanted'
  OBVIOUS
<1>4. s \in SUBSET Id
  BY <1>1, <1>3
<1>5. history' = [history EXCEPT !.changes = n + 1, !.stayed = s]
  BY <1>1, <1>2, <1>3 DEF Change
<1>6. history'.shown = history.shown
  BY <1>1, <1>5
<1>7. history' \in [pages : Nat, changes : Nat, shown : [Id -> Nat], stayed : SUBSET Id,
                    stops : SUBSET (Id \cup {Nothing}), gaps : SUBSET Id, drops : Nat]
  <2>1. PICK m \in Nat : m = n + 1
    BY <1>2
  <2>2. history' = [history EXCEPT !.changes = m, !.stayed = s]
    BY <1>5, <2>1
  <2> QED BY <1>1, <1>4, <2>1, <2>2
<1>8. UNCHANGED <<kind, limit, from, ended, told>>
  BY DEF Change
<1>9. history.changes + 1 \in Nat /\ history.changes + 1 > 0
  BY <1>2
<1>10. history' = [history EXCEPT !.changes = history.changes + 1, !.stayed = @ \cap Wanted']
  BY <1>1, <1>2, <1>3, <1>5
<1>11. Shown' = Shown
  BY <1>6 DEF Shown
<1> QED BY <1>7, <1>8, <1>9, <1>10, <1>11

\* A write of the feed that was owed leaves what was shown alone.
LEMMA WrittenHistory ==
  ASSUME ScrollInv, NEW w \in owed, Written(w)
  PROVE  /\ history.changes \in Nat /\ kind = "feed"
         /\ UNCHANGED <<kind, limit, from, ended, told, time, bond>>
         /\ history' = [history EXCEPT !.changes = history.changes, !.stayed = @ \cap Wanted']
         /\ history' \in [pages : Nat, changes : Nat, shown : [Id -> Nat], stayed : SUBSET Id,
                          stops : SUBSET (Id \cup {Nothing}), gaps : SUBSET Id, drops : Nat]
<1>1. history \in [pages : Nat, changes : Nat, shown : [Id -> Nat], stayed : SUBSET Id,
                   stops : SUBSET (Id \cup {Nothing}), gaps : SUBSET Id, drops : Nat]
  BY DEF ScrollInv, ScrollTyped
<1>2. PICK s : s = history.stayed \cap Wanted'
  OBVIOUS
<1>3. s \in SUBSET Id
  BY <1>1, <1>2
<1>4. history' = [history EXCEPT !.stayed = s]
  BY <1>1, <1>2 DEF Written
<1>5. history' = [history EXCEPT !.changes = history.changes, !.stayed = @ \cap Wanted']
  BY <1>1, <1>2, <1>4
<1>6. kind = "feed"
  BY DEF ScrollInv, ScrollTyped
<1> QED BY <1>1, <1>3, <1>4, <1>5, <1>6 DEF Written

LEMMA NewestIsAnId == ASSUME time \in [Id -> Nat] PROVE Newest \in Id
<1>1. IsOrder(LaterPairs)
  BY Orders
<1>2. Cardinality(Id) \in Nat /\ Cardinality(Id) # 0 /\ Id \subseteq Nat
  <2>1. Id # {} /\ Id \subseteq Nat
    BY ListsAssumption
  <2>2. IsFiniteSet(Id) /\ Cardinality(Id) \in Nat
    BY EntriesFinite
  <2>3. Cardinality(Id) # 0
    BY <2>1, <2>2, FS_EmptySet
  <2> QED BY <2>1, <2>2, <2>3
<1>3. PICK m \in Id : Rank(LaterPairs, Id, m) = 0
  BY <1>1, <1>2, RankOnto
<1>4. \A j \in Id : <<j, m>> \notin LaterPairs
  <2> DEFINE above == {j \in Id : <<j, m>> \in LaterPairs}
  <2>1. above \in SUBSET Id /\ Cardinality(above) = 0
    BY <1>3 DEF Rank
  <2>2. above = {}
    BY <2>1, EntriesFinite, FS_EmptySet
  <2> QED BY <2>2
<1>5. \A j \in Id : m >= j
  <2>1. \A j \in Id : ~ (j > m)
    BY <1>4 DEF LaterPairs, Later
  <2> QED BY <1>2, <2>1
<1> QED BY <1>5 DEF Newest

LEMMA CreatedKeeps == ASSUME ScrollInv, Created PROVE ScrollInv'
<1>1. PICK e \in Entry(kind) : Appears(Newest, e)
  BY DEF Created
<1>2. UNCHANGED <<time, bond, feedCache, owed>> /\ Change /\ kind # "feed"
  BY DEF Created
<1>3. Newest \in Id
  BY NewestIsAnId DEF ScrollInv, ScrollTyped
<1>4. Stored' = Stored \cup {Newest} /\ \A j \in Stored' : entry'[j] = IF j = Newest THEN e ELSE entry[j]
  BY <1>1 DEF Stored, Appears
<1>5. PostsTyped'
  BY <1>2, <1>4, ChangedHistory DEF PostsTyped, ScrollInv, ScrollTyped, Entry, Requests
<1>6. ScrollTyped'
  BY <1>2, <1>3, <1>4, <1>5, ChangedHistory DEF ScrollInv, ScrollTyped, Change
<1>7. ReadIsShown'
  <2>1. Tagged("read")' \subseteq Tagged("read") \/ kind # "notifications"
    BY <1>4 DEF Tagged, Entry, Requests
  <2> QED BY <2>1, <1>2, ChangedHistory DEF ScrollInv, ReadIsShown
<1> QED BY <1>2, <1>6, <1>7, ChangedHistory, WriteKeeps

LEMMA PostPassesKeeps == ASSUME ScrollInv, PostPasses PROVE ScrollInv'
<1>1. PICK i \in Id \ (Stored \cup feedCache) :
        owed' = owed \cup {<<"append", i>>, <<"upset", i>>}
  BY DEF PostPasses
<1>2. UNCHANGED <<time, entry, bond, feedCache>> /\ Change /\ kind = "feed"
  BY DEF PostPasses
<1>3. Stored' = Stored /\ Tagged("read")' = Tagged("read")
  BY <1>2 DEF Stored, Tagged
<1>4. ScrollTyped'
  BY <1>1, <1>2, <1>3, ChangedHistory DEF ScrollInv, ScrollTyped, Change, PostsTyped
<1>5. ReadIsShown'
  BY <1>2, <1>3, ChangedHistory DEF ScrollInv, ReadIsShown
<1> QED BY <1>2, <1>4, <1>5, ChangedHistory, WriteKeeps

LEMMA RemovedKeeps == ASSUME ScrollInv, Removed PROVE ScrollInv'
<1>1. PICK i \in Stored : entry' = [j \in Stored \ {i} |-> entry[j]]
  BY DEF Removed
<1>2. UNCHANGED <<time, bond, feedCache, owed>> /\ Change
  BY DEF Removed
<1>3. Stored' = Stored \ {i} /\ \A j \in Stored' : entry'[j] = entry[j]
  BY <1>1 DEF Stored
<1>4. PostsTyped'
  BY <1>2, <1>3, ChangedHistory DEF PostsTyped, ScrollInv, ScrollTyped
<1>5. ScrollTyped'
  BY <1>2, <1>3, <1>4, ChangedHistory DEF ScrollInv, ScrollTyped, Change
<1>6. ReadIsShown'
  <2>1. Tagged("read")' \subseteq Tagged("read")
    BY <1>3 DEF Tagged
  <2> QED BY <2>1, <1>2, ChangedHistory DEF ScrollInv, ReadIsShown
<1> QED BY <1>2, <1>5, <1>6, ChangedHistory, WriteKeeps

LEMMA ChangedKeeps == ASSUME ScrollInv, Changed PROVE ScrollInv'
<1>1. PICK i \in Stored : \E e \in Becomes(i) : entry' = [entry EXCEPT ![i] = e]
  BY DEF Changed
<1>. PICK e \in Becomes(i) : entry' = [entry EXCEPT ![i] = e]
  BY <1>1
<1>2. UNCHANGED <<time, bond, feedCache, owed>> /\ Change
  BY DEF Changed
<1>3. Stored' = Stored /\ (\A j \in Stored : j # i => entry'[j] = entry[j] \/ kind # "posts")
      /\ kind # "notifications"
  <2>1. kind # "notifications"
    BY DEF Becomes, Requests
  <2>2. DOMAIN entry' = DOMAIN entry
    BY <1>1
  <2>3. \A j \in Stored : j # i => entry'[j] = entry[j]
    BY <1>1 DEF Stored
  <2> QED BY <2>1, <2>2, <2>3 DEF Stored
<1>4. kind = "posts" => entry'[i] = e /\ e \in [tag : {"public", "friends"},
                                verdict : {"ok", "pending", "notAppropriate"}]
  <2> SUFFICES ASSUME kind = "posts"
               PROVE  entry'[i] = e /\ e \in [tag : {"public", "friends"},
                                verdict : {"ok", "pending", "notAppropriate"}]
    OBVIOUS
  <2>1. entry'[i] = e
    BY <1>1 DEF Stored
  <2>2. PICK v \in {"ok", "notAppropriate"} : e = [entry[i] EXCEPT !.verdict = v]
    BY DEF Becomes, Requests
  <2>3. entry[i] \in [tag : {"public", "friends"}, verdict : {"ok", "pending", "notAppropriate"}]
    BY DEF ScrollInv, ScrollTyped, PostsTyped
  <2> QED BY <2>1, <2>2, <2>3
<1>5. PostsTyped'
  BY <1>2, <1>3, <1>4, ChangedHistory DEF PostsTyped, ScrollInv, ScrollTyped
<1>6. ScrollTyped'
  BY <1>2, <1>3, <1>5, ChangedHistory DEF ScrollInv, ScrollTyped, Change
<1>7. ReadIsShown'
  BY <1>2, <1>3, ChangedHistory DEF ReadIsShown
<1> QED BY <1>2, <1>6, <1>7, ChangedHistory, WriteKeeps

LEMMA MovedKeeps == ASSUME ScrollInv, Moved PROVE ScrollInv'
<1>1. PICK i \in Stored, last \in {time[j] : j \in Id} : time' = [time EXCEPT ![i] = last + 1]
  BY DEF Moved
<1>2. UNCHANGED <<entry, bond, feedCache, owed>> /\ Change /\ kind \in Pages
  BY DEF Moved
<1>3. time' \in [Id -> Nat]
  BY <1>1 DEF ScrollInv, ScrollTyped
<1>4. Stored' = Stored
  BY <1>2 DEF Stored
<1>5. ScrollTyped'
  BY <1>2, <1>3, <1>4, ChangedHistory DEF ScrollInv, ScrollTyped, Change, PostsTyped, Pages
<1>6. ReadIsShown'
  BY <1>2, ChangedHistory DEF ReadIsShown, Pages
<1> QED BY <1>2, <1>5, <1>6, ChangedHistory, WriteKeeps

LEMMA BefriendedKeeps == ASSUME ScrollInv, Befriended PROVE ScrollInv'
<1>1. UNCHANGED <<time, entry, feedCache, owed>> /\ Change /\ kind = "posts"
  BY DEF Befriended
<1>2. bond' \in Bonds
  <2>1. bond \in {Nothing, "sent", "received", "accepted"}
    BY DEF Befriended
  <2>2. CASE bond = Nothing
    BY <2>2, ListsAssumption DEF Befriended, Bonds
  <2>3. CASE bond = "accepted"
    BY <2>3, ListsAssumption DEF Befriended, Bonds
  <2>4. CASE bond \in {"sent", "received"}
    BY <2>4, ListsAssumption DEF Befriended, Bonds
  <2> QED BY <2>1, <2>2, <2>3, <2>4
<1>3. Stored' = Stored
  BY <1>1 DEF Stored
<1>4. ScrollTyped'
  BY <1>1, <1>2, <1>3, ChangedHistory DEF ScrollInv, ScrollTyped, Change, PostsTyped, Bonds
<1>5. ReadIsShown'
  BY <1>1, ChangedHistory DEF ReadIsShown
<1> QED BY <1>1, <1>4, <1>5, ChangedHistory, WriteKeeps

LEMMA FeedWrites ==
  ASSUME ScrollInv, BulkUpsertTimelinePost \/ UpsetPostToMultipleUserFeed \/ AddPostToUserFeed
  PROVE  ScrollInv'
<1>1. PICK w \in owed :
        /\ Written(w)
        /\ \/ w[1] = "append" /\ Appears(w[2], [tag |-> "public"]) /\ UNCHANGED feedCache
           \/ w[1] = "upset" /\ feedCache' = feedCache \cup {w[2]} /\ UNCHANGED entry
           \/ /\ w[1] = "fill" /\ UNCHANGED entry
              /\ LET recentPost == GetUserTimeline(Nothing, CacheSize).page
                 IN  feedCache' = feedCache \cup {recentPost[p] : p \in DOMAIN recentPost}
  BY DEF BulkUpsertTimelinePost, UpsetPostToMultipleUserFeed, AddPostToUserFeed
<1>2. kind = "feed" /\ (w[1] \in {"append", "upset"} => w[2] \in Id)
  BY <1>1 DEF ScrollInv, ScrollTyped
<1>3. Stored \in SUBSET Id /\ feedCache \in SUBSET Id /\ time \in [Id -> Nat]
  BY DEF ScrollInv, ScrollTyped
<1>4. Stored' \in SUBSET Id
  <2>1. CASE w[1] = "append" /\ Appears(w[2], [tag |-> "public"])
    BY <1>2, <1>3, <2>1 DEF Appears, Stored
  <2>2. CASE UNCHANGED entry
    BY <1>3, <2>2 DEF Stored
  <2> QED BY <1>1, <2>1, <2>2
<1>5. feedCache' \in SUBSET Id
  <2>1. CASE w[1] = "append" /\ UNCHANGED feedCache
    BY <1>3, <2>1
  <2>2. CASE w[1] = "upset" /\ feedCache' = feedCache \cup {w[2]}
    BY <1>2, <1>3, <2>2
  <2>3. CASE w[1] = "fill"
    <3> DEFINE S == {i \in Stored : Nothing = Nothing \/ NewerFirst(Nothing, i)}
    <3>1. PICK page : page = First(S, NewerFirst, CacheSize)
      OBVIOUS
    <3>2. feedCache' = feedCache \cup {page[p] : p \in DOMAIN page}
      BY <1>1, <2>3, <3>1 DEF GetUserTimeline, Answer
    <3>3. IsFirst(page, NewerFirstPairs, S, CacheSize)
      BY <1>3, <3>1, FirstNewer, ListsAssumption
    <3>4. \A p \in DOMAIN page : page[p] \in Id
      BY <1>3, <3>3 DEF IsFirst
    <3> QED BY <1>3, <3>2, <3>4
  <2> QED BY <1>1, <2>1, <2>2, <2>3
<1>6. owed' \subseteq owed
  BY <1>1 DEF Written
<1>7. ScrollTyped'
  BY <1>1, <1>2, <1>4, <1>5, <1>6, WrittenHistory DEF ScrollInv, ScrollTyped, PostsTyped
<1>8. ReadIsShown'
  BY <1>1, <1>2, WrittenHistory DEF ReadIsShown
<1> QED BY <1>1, <1>2, <1>7, <1>8, WrittenHistory, WriteKeeps

\* What is marked as read is no newer than something shown.
LEMMA MarkAsReadKeeps == ASSUME ScrollInv, MarkAsRead PROVE ScrollInv'
<1> USE DEF ScrollInv
<1>1. PICK f \in Id : history.shown[f] > 0
                      /\ entry' = [i \in Stored |-> IF i <= f THEN [tag |-> "read"] ELSE entry[i]]
  BY DEF MarkAsRead
<1>2. kind = "notifications"
      /\ UNCHANGED <<kind, limit, time, bond, feedCache, owed, from, ended, told, history>>
  BY DEF MarkAsRead
<1>3. Stored' = Stored /\ \A i \in Stored : entry'[i] = IF i <= f THEN [tag |-> "read"] ELSE entry[i]
  BY <1>1 DEF Stored
<1>4. Wanted = Stored /\ Wanted' = Stored
  BY <1>2, <1>3 DEF Wanted, Requests
<1>5. /\ Shown' = Shown /\ Stops' = Stops /\ Twice' = Twice /\ OfACursorsMs' = OfACursorsMs
      /\ Crowded' = Crowded /\ Missed' = Missed
  BY <1>2 DEF Shown, Stops, Twice, OfACursorsMs, Crowded, Missed, Ahead, NewerFirst
<1>6. ScrollTyped'
  BY <1>2, <1>3 DEF ScrollTyped, PostsTyped
<1>7. NotStarted' /\ CursorSet'
  BY <1>2, <1>4, <1>5 DEF NotStarted, CursorSet
<1>8. NoneMissed' /\ NoneRepeated' /\ Advances'
  BY <1>2, <1>5 DEF NoneMissed, NoneRepeated, Advances, Excused, Behind, NewerFirst
<1>9. Numbered' /\ CountKept'
  BY <1>2, <1>5 DEF Numbered, CountKept, CountedKinds, Pages
<1>10. ReadIsShown'
  <2> SUFFICES ASSUME NEW i \in Tagged("read")' PROVE \E j \in Shown : j >= i
    BY <1>5 DEF ReadIsShown
  <2>1. CASE i <= f
    BY <1>1, <2>1, <1>3, ListsAssumption DEF Shown, Tagged, ScrollTyped
  <2>2. CASE ~ (i <= f)
    BY <1>2, <1>3, <2>2 DEF ReadIsShown, Tagged
  <2> QED BY <2>1, <2>2
<1> QED BY <1>6, <1>7, <1>8, <1>9, <1>10

----------------------------------------------------------------------------
(* A page arrives                                                            *)

\* A page of different entries.
IsAnswer(a) ==
  /\ a.page \in Seq(Id) /\ a.more \in BOOLEAN
  /\ \A p, q \in DOMAIN a.page : a.page[p] = a.page[q] => p = q
\* The page answers for what is ahead of the client's cursor, except for skipped.
ExcusedBy(a, i) ==
  \/ /\ kind \in {"feed", "userSearch"}
     /\ \E s \in {from, LastOf(a.page)} \ {Nothing} : time[i] = time[s]
  \/ kind = "feed" /\ i \in Gaps
Continues(a, skipped) ==
  /\ a.more => a.page # <<>> /\ a.cursor = LastOf(a.page)
  /\ \A i \in Wanted \ skipped : Ahead(from, i) =>
       Holds(a.page, i) \/ (a.more /\ Ahead(a.cursor, i)) \/ ExcusedBy(a, i)
  /\ \/ skipped = {}
     \/ kind = "mutualFriends" /\ from # Nothing /\ from \notin Wanted /\ \E x : skipped = {x}
  /\ a.more => \A i \in Id : Holds(a.page, i) \/ Behind(from, i) => Behind(a.cursor, i)
  /\ \A i \in Id : Holds(a.page, i) /\ Behind(from, i) => kind \in Requests /\ time[i] = time[from]
  /\ a.more /\ Behind(from, a.cursor) => Cardinality({i \in Id : time[i] = time[from]}) >= limit
  /\ kind \in CountedKinds => \A i \in Id : Holds(a.page, i) => i \in Wanted
\* A page by number.
IsNumbered(a) ==
  /\ a.cursor = history.pages + 2
  /\ a.more <=> history.pages + 1 < TotalPages(Cardinality(Stored))
  /\ \A i \in Id : Holds(a.page, i) <=>
       i \in Stored /\ Place(i) >= history.pages * limit /\ Place(i) < (history.pages + 1) * limit

LEMMA HeldOnce ==
  ASSUME NEW page, page \in Seq(Id), \A p, q \in DOMAIN page : page[p] = page[q] => p = q,
         NEW i \in Id
  PROVE  Cardinality({p \in DOMAIN page : page[p] = i}) = IF Holds(page, i) THEN 1 ELSE 0
<1>1. CASE Holds(page, i)
  <2>1. PICK p \in DOMAIN page : page[p] = i
    BY <1>1 DEF Holds
  <2>2. {q \in DOMAIN page : page[q] = i} = {p}
    BY <2>1
  <2> QED BY <1>1, <2>2, FS_Singleton
<1>2. CASE ~ Holds(page, i)
  <2>1. {q \in DOMAIN page : page[q] = i} = {}
    BY <1>2 DEF Holds
  <2> QED BY <1>2, <2>1, FS_EmptySet
<1> QED BY <1>1, <1>2

LEMMA LastIsHeld ==
  ASSUME NEW page, page \in Seq(Id)
  PROVE  IF page = <<>> THEN LastOf(page) = Nothing
                        ELSE LastOf(page) \in Id /\ Holds(page, LastOf(page))
                             /\ LastOf(page) = page[Len(page)] /\ Len(page) \in DOMAIN page
<1>1. page # <<>> => Len(page) \in DOMAIN page /\ page[Len(page)] \in Id
  OBVIOUS
<1> QED BY <1>1 DEF LastOf, Holds

\* What a page changes of what the client knows.
LEMMA TurnTells ==
  ASSUME ScrollInv, NEW a, IsAnswer(a), Turn(a),
         owed' = owed \/ (kind = "feed" /\ owed' = owed \cup {<<"fill", Nothing>>})
  PROVE  /\ ScrollTyped' /\ ~ ended /\ from' = a.cursor /\ ended' = ~ a.more
         /\ UNCHANGED <<kind, limit, time, entry, bond, feedCache, told, Stored, Wanted>>
         /\ history'.pages = history.pages + 1 /\ history'.changes = history.changes
         /\ history'.gaps = history.gaps \cup Gaps
         /\ history'.stayed = IF history.pages = 0 THEN Wanted ELSE history.stayed
         /\ history'.drops = IF from # Nothing /\ kind = "mutualFriends" /\ from \notin Wanted
                             THEN history.drops + 1 ELSE history.drops
         /\ \A i \in Id : history'.shown[i] = history.shown[i] + IF Holds(a.page, i) THEN 1 ELSE 0
         /\ Shown' = Shown \cup {i \in Id : Holds(a.page, i)}
         /\ Stops' = Stops \cup ({LastOf(a.page)} \ {Nothing})
<1>1. history \in [pages : Nat, changes : Nat, shown : [Id -> Nat], stayed : SUBSET Id,
                   stops : SUBSET (Id \cup {Nothing}), gaps : SUBSET Id, drops : Nat]
      /\ ScrollTyped
  BY DEF ScrollInv, ScrollTyped
<1>2. PICK h : h = history
  OBVIOUS
<1>3. PICK shown : shown = [i \in Id |-> h.shown[i] + IF Holds(a.page, i) THEN 1 ELSE 0]
  OBVIOUS
<1>4. PICK stayed : stayed = IF h.pages = 0 THEN Wanted ELSE h.stayed
  OBVIOUS
<1>5. PICK last : last = LastOf(a.page)
  OBVIOUS
<1>6. PICK gaps : gaps = h.gaps \cup Gaps
  OBVIOUS
<1>7. PICK drops : drops = IF from # Nothing /\ kind = "mutualFriends" /\ from \notin Wanted
                           THEN h.drops + 1 ELSE h.drops
  OBVIOUS
<1>8. PICK pages : pages = h.pages + 1
  OBVIOUS
<1>9. \A i \in Id : Cardinality({p \in DOMAIN a.page : a.page[p] = i})
                    = IF Holds(a.page, i) THEN 1 ELSE 0
  BY HeldOnce DEF IsAnswer
<1>10. [i \in Id |-> h.shown[i] + Cardinality({p \in DOMAIN a.page : a.page[p] = i})] = shown
  BY <1>3, <1>9
<1>11. history' = [h EXCEPT !.pages = pages, !.shown = shown, !.stayed = stayed,
                            !.stops = h.stops \cup {last}, !.gaps = gaps, !.drops = drops]
  BY <1>2, <1>4, <1>5, <1>6, <1>7, <1>8, <1>10 DEF Turn
<1>12. UNCHANGED <<kind, limit, time, entry, bond, feedCache, told>> /\ ~ ended
       /\ from' = a.cursor /\ ended' = ~ a.more
  BY DEF Turn
<1>13. Stored' = Stored /\ Wanted' = Wanted
  BY <1>12 DEF Stored, Wanted, Tagged
<1>14. Wanted \subseteq Stored /\ Stored \subseteq Id
  <2>1. Stored \subseteq Id
    BY <1>1 DEF ScrollTyped
  <2> QED BY <2>1 DEF Wanted, Tagged
<1>15. shown \in [Id -> Nat]
  BY <1>1, <1>2, <1>3
<1>16. stayed \subseteq Id /\ gaps \subseteq Id /\ pages \in Nat /\ drops \in Nat
  BY <1>1, <1>2, <1>4, <1>6, <1>7, <1>8, <1>14 DEF Gaps
<1>17. last \in Id \cup {Nothing}
  BY <1>5, LastIsHeld DEF IsAnswer
<1>18. history' \in [pages : Nat, changes : Nat, shown : [Id -> Nat], stayed : SUBSET Id,
                     stops : SUBSET (Id \cup {Nothing}), gaps : SUBSET Id, drops : Nat]
  BY <1>1, <1>2, <1>11, <1>15, <1>16, <1>17
<1>19. /\ history'.pages = pages /\ history'.changes = h.changes /\ history'.shown = shown
       /\ history'.stayed = stayed /\ history'.stops = h.stops \cup {last}
       /\ history'.gaps = gaps /\ history'.drops = drops
  BY <1>1, <1>2, <1>11
<1>20. ScrollTyped'
  <2>1. \A w \in owed' : kind = "feed" /\ (w[1] \in {"append", "upset"} => w[2] \in Id)
    BY <1>1 DEF ScrollTyped
  <2>2. PostsTyped'
    BY <1>1, <1>12, <1>13 DEF ScrollTyped, PostsTyped
  <2>3. ended' \in BOOLEAN
    BY <1>12 DEF IsAnswer
  <2> QED BY <1>1, <1>12, <1>13, <1>18, <2>1, <2>2, <2>3 DEF ScrollTyped
<1>21. \A i \in Id : shown[i] = h.shown[i] + IF Holds(a.page, i) THEN 1 ELSE 0
  BY <1>3
<1>22. Shown' = Shown \cup {i \in Id : Holds(a.page, i)}
  BY <1>1, <1>2, <1>19, <1>21 DEF Shown
<1>23. Stops' = Stops \cup ({last} \ {Nothing})
  BY <1>2, <1>19 DEF Stops
<1>24. /\ history'.pages = history.pages + 1 /\ history'.changes = history.changes
       /\ history'.gaps = history.gaps \cup Gaps
       /\ history'.stayed = IF history.pages = 0 THEN Wanted ELSE history.stayed
       /\ history'.drops = IF from # Nothing /\ kind = "mutualFriends" /\ from \notin Wanted
                           THEN history.drops + 1 ELSE history.drops
  BY <1>2, <1>4, <1>6, <1>7, <1>8, <1>19
<1>25. \A i \in Id : history'.shown[i] = history.shown[i] + IF Holds(a.page, i) THEN 1 ELSE 0
  BY <1>2, <1>19, <1>21
<1>26. Stops' = Stops \cup ({LastOf(a.page)} \ {Nothing})
  BY <1>5, <1>23
<1> QED BY <1>12, <1>13, <1>20, <1>22, <1>24, <1>25, <1>26

\* A page that answers for what is ahead of the cursor keeps the invariant.
LEMMA TurnContinues ==
  ASSUME ScrollInv, NEW a, NEW skipped, IsAnswer(a), Continues(a, skipped), kind \notin Pages, Turn(a),
         owed' = owed \/ (kind = "feed" /\ owed' = owed \cup {<<"fill", Nothing>>})
  PROVE  ScrollInv'
<1> USE DEF ScrollInv
<1>1. /\ ScrollTyped' /\ ~ ended /\ from' = a.cursor /\ ended' = ~ a.more
      /\ UNCHANGED <<kind, limit, time, entry, bond, feedCache, told, Stored, Wanted>>
      /\ history'.pages = history.pages + 1 /\ history'.changes = history.changes
      /\ history'.gaps = history.gaps \cup Gaps
      /\ history'.stayed = IF history.pages = 0 THEN Wanted ELSE history.stayed
      /\ history'.drops = IF from # Nothing /\ kind = "mutualFriends" /\ from \notin Wanted
                          THEN history.drops + 1 ELSE history.drops
      /\ \A i \in Id : history'.shown[i] = history.shown[i] + IF Holds(a.page, i) THEN 1 ELSE 0
      /\ Shown' = Shown \cup {i \in Id : Holds(a.page, i)}
      /\ Stops' = Stops \cup ({LastOf(a.page)} \ {Nothing})
  BY TurnTells
<1>2. IF a.page = <<>> THEN LastOf(a.page) = Nothing
                       ELSE LastOf(a.page) \in Id /\ Holds(a.page, LastOf(a.page))
  BY LastIsHeld DEF IsAnswer
<1>3. a.more => a.cursor \in Id /\ Holds(a.page, a.cursor) /\ a.cursor = LastOf(a.page)
  BY <1>2 DEF Continues
<1>4. /\ history.pages \in Nat /\ history'.pages > 0 /\ history.drops \in Nat
      /\ \A i \in Id : history.shown[i] \in Nat
  BY <1>1 DEF ScrollTyped
<1>5. Nothing \notin Id
  BY ListsAssumption
<1>6. NotStarted'
  BY <1>4 DEF NotStarted
<1>7. CursorSet'
  <2>1. history'.stayed \subseteq Wanted'
    BY <1>1 DEF CursorSet
  <2>2. Stops' \subseteq Shown'
    BY <1>1, <1>2 DEF CursorSet
  <2>3. ~ ended' => from' \in Stops'
    BY <1>1, <1>3, <1>5 DEF IsAnswer
  <2> QED BY <1>1, <2>1, <2>2, <2>3 DEF CursorSet
<1>8. /\ \A x, i \in Id : Ahead(x, i) <=> Ahead(x, i)'
      /\ \A x, i \in Id : Behind(x, i) <=> Behind(x, i)'
  BY <1>1 DEF Ahead, Behind, NewerFirst
<1>9. OfACursorsMs \subseteq OfACursorsMs' /\ (Crowded => Crowded')
      /\ \A i \in Id : i \in OfACursorsMs' <=> \E s \in Stops' : time[i] = time[s]
  BY <1>1 DEF OfACursorsMs, Crowded
<1>10. from = Nothing \/ (from \in Stops /\ from \in Id)
  <2>1. history.pages > 0 => from \in Stops
    BY <1>1 DEF CursorSet
  <2>2. history.pages = 0 => from = Nothing
    BY DEF NotStarted
  <2> QED BY <1>4, <2>1, <2>2 DEF CursorSet, Shown
<1>11. \A i \in Shown : Behind(from, i)
  BY <1>1 DEF NoneRepeated
<1>12. ASSUME a.more, NEW i \in Id, Holds(a.page, i) \/ Behind(from, i)
       PROVE  Behind(a.cursor, i)
  BY <1>12 DEF Continues
<1>13. NoneRepeated'
  <2>1. ASSUME ~ ended', NEW i \in Shown' PROVE Behind(from, i)'
    <3>1. a.more
      BY <1>1, <2>1 DEF IsAnswer
    <3>2. i \in Id /\ (Holds(a.page, i) \/ Behind(from, i))
      BY <1>1, <1>11, <2>1 DEF Shown
    <3>3. Behind(a.cursor, i)
      BY <1>12, <3>1, <3>2
    <3> QED BY <1>1, <3>3 DEF Behind, NewerFirst
  <2>2. ASSUME NEW i \in Twice' PROVE kind \in Requests /\ i \in OfACursorsMs'
    <3>1. i \in Id /\ history'.shown[i] > 1
      BY <2>2 DEF Twice
    <3>2. CASE history.shown[i] > 1
      BY <1>9, <3>1, <3>2 DEF NoneRepeated, Twice
    <3>3. CASE history.shown[i] <= 1
      <4>1. Holds(a.page, i) /\ history.shown[i] = 1
        BY <1>1, <1>4, <3>1, <3>3
      <4>2. Behind(from, i)
        BY <1>11, <3>1, <4>1 DEF Shown
      <4>3. kind \in Requests /\ time[i] = time[from]
        BY <3>1, <4>1, <4>2 DEF Continues
      <4>4. from \in Stops'
        BY <1>1, <1>10, <4>2 DEF Behind
      <4> QED BY <1>9, <3>1, <4>3, <4>4
    <3> QED BY <1>4, <3>1, <3>2, <3>3
  <2> QED BY <1>1, <2>1, <2>2 DEF NoneRepeated
\* What is missed now was skipped, or missed before, or is excused.
<1>14. Missed' \subseteq Missed \cup skipped \cup {i \in Id : Excused(i)'}
  <2> SUFFICES ASSUME NEW i \in Missed', i \notin Missed, i \notin skipped PROVE i \in Id /\ Excused(i)'
    OBVIOUS
  <2>1. i \in history'.stayed /\ i \in Wanted /\ i \in Id
    <3>1. i \in history'.stayed
      BY DEF Missed
    <3>2. i \in Id
      BY <1>1, <3>1 DEF ScrollTyped
    <3> QED BY <1>1, <3>1, <3>2 DEF CursorSet
  <2>2. history'.shown[i] = 0
    BY DEF Missed
  <2>3. history.shown[i] = 0 /\ ~ Holds(a.page, i)
    BY <1>1, <1>4, <2>1, <2>2
  <2>4. Ahead(from, i)
    <3>1. CASE history.pages = 0
      BY <3>1 DEF NotStarted, Ahead
    <3>2. CASE history.pages # 0
      BY <1>1, <2>1, <2>3, <3>2 DEF Missed
    <3> QED BY <3>1, <3>2
  <2>5. ~ (a.more /\ Ahead(a.cursor, i))
    <3> SUFFICES ASSUME a.more, Ahead(a.cursor, i) PROVE FALSE
      OBVIOUS
    <3>1. ~ ended' /\ Ahead(from, i)'
      BY <1>1 DEF Ahead, NewerFirst
    <3> QED BY <3>1 DEF Missed
  <2>6. ExcusedBy(a, i)
    BY <2>1, <2>3, <2>4, <2>5 DEF Continues
  <2>7. CASE kind = "feed" /\ i \in Gaps
    BY <1>1, <2>1, <2>7 DEF Excused
  <2>8. CASE /\ kind \in {"feed", "userSearch"}
             /\ \E s \in {from, LastOf(a.page)} \ {Nothing} : time[i] = time[s]
    <3>1. PICK s \in {from, LastOf(a.page)} \ {Nothing} : time[i] = time[s]
      BY <2>8
    <3>2. s \in Stops'
      BY <1>1, <1>10, <3>1
    <3>3. i \in OfACursorsMs'
      BY <1>9, <2>1, <3>1, <3>2
    <3> QED BY <1>1, <2>1, <2>8, <3>3 DEF Excused
  <2> QED BY <2>6, <2>7, <2>8 DEF ExcusedBy
<1>15. NoneMissed'
  <2>1. CASE kind # "mutualFriends"
    <3>1. skipped = {}
      BY <2>1 DEF Continues
    <3>2. \A i \in Missed : i \in Id /\ (Excused(i) => Excused(i)')
      BY <1>1, <1>9 DEF Excused, Missed, ScrollTyped
    <3>3. \A i \in Missed' : Excused(i)'
      BY <1>14, <2>1, <3>1, <3>2 DEF NoneMissed
    <3> QED BY <1>1, <2>1, <3>3 DEF NoneMissed
  <2>2. CASE kind = "mutualFriends"
    <3>1. {i \in Id : Excused(i)'} = {}
      BY <1>1, <2>2 DEF Excused
    <3>2. Missed \in SUBSET Id /\ Missed' \in SUBSET Id
      BY <1>1 DEF Missed, ScrollTyped
    <3>3. PICK lost \in SUBSET Id : lost = Missed
      BY <3>2
    <3>4. PICK next \in SUBSET Id : next = Missed'
      BY <3>2
    <3>5. next \subseteq lost \cup skipped
      BY <1>14, <3>1, <3>3, <3>4
    <3>6. IsFiniteSet(lost) /\ Cardinality(lost) \in Nat /\ Cardinality(next) \in Nat
          /\ Cardinality(lost) <= history.drops
      BY <2>2, <3>3, EntriesFinite DEF NoneMissed
    <3>7. PICK d \in Nat : d = history.drops
      BY <1>4
    <3>8. PICK e : e = history'.drops
      OBVIOUS
    <3>9. e = d \/ e = d + 1
      BY <1>1, <3>7, <3>8
    <3>10. CASE skipped = {}
      <4>1. Cardinality(next) <= Cardinality(lost)
        BY <3>5, <3>6, <3>10, FS_Subset
      <4>2. Cardinality(lost) <= d
        BY <3>6, <3>7
      <4>3. Cardinality(next) <= e
        BY <3>6, <3>7, <3>9, <4>1, <4>2
      <4> QED BY <1>1, <2>2, <3>4, <3>8, <4>3 DEF NoneMissed, Pages
    <3>11. CASE skipped # {}
      <4>1. PICK x : skipped = {x}
        BY <3>11 DEF Continues
      <4>2. e = d + 1 /\ Cardinality(lost) <= d
        BY <1>1, <2>2, <3>6, <3>7, <3>8, <3>11 DEF Continues
      <4>3. IsFiniteSet(lost \cup {x}) /\ Cardinality(lost \cup {x}) <= Cardinality(lost) + 1
            /\ Cardinality(lost \cup {x}) \in Nat
        <5>1. IsFiniteSet(lost \cup {x})
          BY <3>6, FS_AddElement
        <5>2. Cardinality(lost \cup {x})
              = IF x \in lost THEN Cardinality(lost) ELSE Cardinality(lost) + 1
          BY <3>6, FS_AddElement
        <5> QED BY <3>6, <5>1, <5>2
      <4>4. Cardinality(next) <= Cardinality(lost \cup {x})
        BY <3>5, <4>1, <4>3, FS_Subset
      <4>5. Cardinality(next) <= e
        BY <3>6, <3>7, <4>2, <4>3, <4>4
      <4> QED BY <1>1, <2>2, <3>4, <3>8, <4>5 DEF NoneMissed, Pages
    <3> QED BY <3>10, <3>11
  <2> QED BY <2>1, <2>2
<1>16. Advances'
  <2>1. Stops \in SUBSET Id /\ Stops' \in SUBSET Id
    BY <1>1 DEF ScrollTyped, Stops
  <2>2. PICK stops \in SUBSET Id : stops = Stops
    BY <2>1
  <2>3. PICK next \in SUBSET Id : next = Stops'
    BY <2>1
  <2>4. /\ IsFiniteSet(stops) /\ IsFiniteSet(next)
        /\ Cardinality(stops) \in Nat /\ Cardinality(next) \in Nat /\ stops \subseteq next
    BY <1>1, <2>2, <2>3, EntriesFinite
  <2>5. Cardinality(stops) <= Cardinality(next)
    BY <2>4, FS_Subset
  <2>6. Crowded \/ history.pages <= Cardinality(stops)
    BY <1>1, <1>4, <2>2, <2>4 DEF Advances
  <2>7. CASE Crowded'
    BY <1>1, <2>7 DEF Advances
  <2>8. CASE ~ Crowded' /\ ~ a.more
    <3>1. history.pages + 1 <= Cardinality(next) + 1
      BY <1>4, <1>9, <2>4, <2>5, <2>6, <2>8
    <3> QED BY <1>1, <2>3, <2>8, <3>1 DEF Advances
  <2>9. CASE ~ Crowded' /\ a.more
    <3>1. ~ Behind(from, a.cursor)
      <4> SUFFICES ASSUME Behind(from, a.cursor) PROVE FALSE
        OBVIOUS
      <4>1. Cardinality({i \in Id : time[i] = time[from]}) >= limit
        BY <2>9 DEF Continues
      <4>2. kind \in Requests
        BY <1>3, <2>9 DEF Continues
      <4>3. from \in Stops'
        BY <1>1, <1>10 DEF Behind
      <4> QED BY <1>1, <2>9, <4>1, <4>2, <4>3 DEF Crowded
    <3>2. a.cursor \notin stops /\ a.cursor \in Id /\ next = stops \cup {a.cursor}
      BY <1>1, <1>3, <1>5, <1>11, <2>2, <2>3, <2>9, <3>1 DEF CursorSet
    <3>3. Cardinality(next) = Cardinality(stops) + 1
      BY <2>4, <3>2, FS_AddElement
    <3>4. history.pages + 1 <= Cardinality(next)
      BY <1>4, <1>9, <2>4, <2>6, <2>9, <3>3
    <3>5. history.pages + 1 <= Cardinality(next) + 0
      BY <1>4, <2>4, <3>4
    <3> QED BY <1>1, <2>3, <2>9, <3>5 DEF Advances
  <2> QED BY <2>7, <2>8, <2>9 DEF IsAnswer
<1>17. Numbered'
  BY <1>1 DEF Numbered
<1>18. CountKept'
  <2>1. told' # Nothing => kind' \in CountedKinds
    BY <1>1 DEF CountKept
  <2> SUFFICES ASSUME kind \in CountedKinds, history.changes = 0
               PROVE  /\ Shown' \subseteq Wanted /\ history'.stayed = Wanted
                      /\ kind = "mutualFriends" => history'.drops = 0
                      /\ told # Nothing => told = Cardinality(Wanted)
    BY <1>1, <2>1 DEF CountKept
  <2>2. Shown' \subseteq Wanted
    BY <1>1 DEF CountKept, Continues
  <2>3. history'.stayed = Wanted
    BY <1>1, <1>4 DEF CountKept
  <2>4. kind = "mutualFriends" => history'.drops = 0
    BY <1>1, <1>10 DEF CountKept, CursorSet
  <2>5. told # Nothing => told = Cardinality(Wanted)
    BY DEF CountKept
  <2> QED BY <2>2, <2>3, <2>4, <2>5
<1>19. ReadIsShown'
  BY <1>1 DEF ReadIsShown, Tagged
<1> QED BY <1>1, <1>6, <1>7, <1>13, <1>15, <1>16, <1>17, <1>18, <1>19

LEMMA PlaceIsNat == ASSUME ScrollTyped, NEW i PROVE Place(i) \in Nat
<1>1. {j \in Stored : ByPlace(j, i)} \in SUBSET Id
  BY DEF ScrollTyped
<1> QED BY <1>1, EntriesFinite DEF Place

\* A page by number does too.
LEMMA TurnByNumber ==
  ASSUME ScrollInv, NEW a, IsAnswer(a), IsNumbered(a), kind \in Pages, Turn(a), owed' = owed
  PROVE  ScrollInv'
<1> USE DEF ScrollInv
<1>1. /\ ScrollTyped' /\ ~ ended /\ from' = a.cursor /\ ended' = ~ a.more
      /\ UNCHANGED <<kind, limit, time, entry, bond, feedCache, told, Stored, Wanted>>
      /\ history'.pages = history.pages + 1 /\ history'.changes = history.changes
      /\ history'.gaps = history.gaps \cup Gaps
      /\ history'.stayed = IF history.pages = 0 THEN Wanted ELSE history.stayed
      /\ history'.drops = IF from # Nothing /\ kind = "mutualFriends" /\ from \notin Wanted
                          THEN history.drops + 1 ELSE history.drops
      /\ \A i \in Id : history'.shown[i] = history.shown[i] + IF Holds(a.page, i) THEN 1 ELSE 0
      /\ Shown' = Shown \cup {i \in Id : Holds(a.page, i)}
      /\ Stops' = Stops \cup ({LastOf(a.page)} \ {Nothing})
  BY TurnTells
<1>2. IF a.page = <<>> THEN LastOf(a.page) = Nothing
                       ELSE LastOf(a.page) \in Id /\ Holds(a.page, LastOf(a.page))
  BY LastIsHeld DEF IsAnswer
<1>3. PICK n \in Nat : n = history.pages
  BY <1>1 DEF ScrollTyped
<1>4. history'.pages = n + 1 /\ n + 1 > 0
  BY <1>1, <1>3
<1>5. kind # "mutualFriends" /\ kind \notin CountedKinds /\ kind # "notifications"
  BY DEF Pages, CountedKinds
<1>6. NotStarted'
  BY <1>4 DEF NotStarted
<1>7. CursorSet'
  <2>1. history'.stayed \subseteq Wanted'
    BY <1>1 DEF CursorSet
  <2>2. Stops' \subseteq Shown'
    BY <1>1, <1>2 DEF CursorSet
  <2>3. from' = history'.pages + 1
    BY <1>1, <1>3, <1>4 DEF IsNumbered
  <2> QED BY <1>1, <2>1, <2>2, <2>3 DEF CursorSet
<1>8. NoneMissed' /\ NoneRepeated'
  BY <1>1, <1>5 DEF NoneMissed, NoneRepeated
<1>9. PICK l \in Nat \ {0} : l = limit
  BY DEF ScrollTyped
<1>10. PICK e \in Nat : e = Cardinality(Stored)
  BY EntriesFinite DEF ScrollTyped
<1>11. TotalPages(e) \in Nat /\ (TotalPages(e) <= e \/ TotalPages(e) = 1)
       /\ \A m \in Nat : m >= TotalPages(e) => m * limit >= e
  BY <1>9, TotalPagesBounds
<1>12. a.more <=> n + 1 < TotalPages(e)
  BY <1>3, <1>10 DEF IsNumbered
<1>13. Cardinality(Id) \in Nat /\ Cardinality(Id) >= 1 /\ e <= Cardinality(Id)
  <2>1. IsFiniteSet(Id) /\ Cardinality(Id) \in Nat
    BY EntriesFinite
  <2>2. Cardinality(Id) # 0
    BY <2>1, FS_EmptySet, ListsAssumption
  <2>3. Cardinality(Stored) <= Cardinality(Id)
    BY <2>1, FS_Subset DEF ScrollTyped
  <2> QED BY <1>10, <2>1, <2>2, <2>3
<1>14. Advances'
  <2>1. n <= Cardinality(Id)
    BY <1>1, <1>3, <1>13 DEF Advances
  <2>2. CASE a.more
    <3>1. n + 1 <= Cardinality(Id) + 0
      BY <1>11, <1>12, <1>13, <2>2
    <3> QED BY <1>1, <1>4, <2>2, <3>1 DEF Advances
  <2>3. CASE ~ a.more
    <3>1. n + 1 <= Cardinality(Id) + 1
      BY <1>13, <2>1
    <3> QED BY <1>1, <1>4, <2>3, <3>1 DEF Advances
  <2> QED BY <2>2, <2>3 DEF IsAnswer
<1>15. Numbered'
  <2> SUFFICES ASSUME history.changes = 0
               PROVE  /\ \A i \in Id : history'.shown[i] =
                           IF i \in Stored /\ Place(i) < (n + 1) * limit THEN 1 ELSE 0
                      /\ ~ a.more => (n + 1) * limit >= Cardinality(Stored)
    <3>1. \A i \in Id : Place(i)' = Place(i)
      BY <1>1 DEF Place, ByPlace
    <3> QED BY <1>1, <1>4, <3>1 DEF Numbered
  <2>1. ~ a.more => (n + 1) * limit >= Cardinality(Stored)
    BY <1>3, <1>10, <1>11, <1>12
  <2>2. (n + 1) * l = n * l + l /\ n * l \in Nat
    BY <1>3, <1>9
  <2>3. ASSUME NEW i \in Id
        PROVE  history'.shown[i] = IF i \in Stored /\ Place(i) < (n + 1) * limit THEN 1 ELSE 0
    <3>1. history'.shown[i] = history.shown[i] + IF Holds(a.page, i) THEN 1 ELSE 0
      BY <1>1
    <3>2. history.shown[i] = IF i \in Stored /\ Place(i) < n * l THEN 1 ELSE 0
      BY <1>3, <1>9 DEF Numbered
    <3>3. Holds(a.page, i) <=> i \in Stored /\ Place(i) >= n * l /\ Place(i) < (n + 1) * l
      BY <1>3, <1>9 DEF IsNumbered
    <3>4. PICK p \in Nat : p = Place(i)
      BY PlaceIsNat
    <3>5. PICK x \in Nat : x = n * l
      BY <2>2
    <3>6. PICK y \in Nat : y = (n + 1) * l /\ y = x + l
      BY <2>2, <3>5, <1>9
    <3>7. history'.shown[i] = IF i \in Stored /\ p < y THEN 1 ELSE 0
      <4>1. x < y
        BY <3>5, <3>6, <1>9
      <4>2. history.shown[i] = IF i \in Stored /\ p < x THEN 1 ELSE 0
        BY <3>2, <3>4, <3>5
      <4>3. Holds(a.page, i) <=> i \in Stored /\ p >= x /\ p < y
        BY <3>3, <3>4, <3>5, <3>6
      <4> QED BY <3>1, <3>4, <3>5, <3>6, <4>1, <4>2, <4>3
    <3> QED BY <1>9, <3>4, <3>6, <3>7
  <2> QED BY <2>1, <2>3
<1>16. CountKept' /\ ReadIsShown'
  BY <1>1, <1>5 DEF CountKept, ReadIsShown
<1> QED BY <1>1, <1>6, <1>7, <1>8, <1>14, <1>15, <1>16

----------------------------------------------------------------------------
(* What each list answers                                                    *)

\* What a list by an order comes to, for who scrolls on from its last entry.
IsPage(page, R, S, n) ==
  /\ page \in Seq(Id) /\ page \in Seq(S) /\ Len(page) <= n
  /\ \A p, q \in DOMAIN page : page[p] = page[q] => p = q
  /\ Len(page) = n => page # <<>>
  /\ page # <<>> => LastOf(page) \in S /\ LastOf(page) \in Id
  /\ \A i \in S : Holds(page, i) \/ (Len(page) = n /\ <<LastOf(page), i>> \in R)
  /\ \A i : Holds(page, i) =>
       i \in S /\ page # <<>> /\ (i = LastOf(page) \/ <<i, LastOf(page)>> \in R)

\* The first entries by an order are a page of it.
LEMMA FirstIsAPage ==
  ASSUME NEW R, IsOrder(R), NEW S \in SUBSET Id, NEW n \in Nat \ {0}, NEW page, IsFirst(page, R, S, n)
  PROVE  IsPage(page, R, S, n)
<1>1. Prefix(page, R, S, n)
  BY FirstIsPrefix
<1>2. page \in Seq(S) /\ page \in Seq(Id) /\ Len(page) \in Nat /\ Len(page) <= n
      /\ DOMAIN page = 1 .. Len(page)
  BY <1>1 DEF Prefix
<1>3. \A p \in DOMAIN page : page[p] \in S /\ page[p] \in Id
  BY <1>2
<1>4. \A p, q \in DOMAIN page : p < q => <<page[p], page[q]>> \in R
  BY <1>1 DEF Prefix, Sorted
<1>5. ASSUME NEW p \in DOMAIN page, NEW q \in DOMAIN page, page[p] = page[q] PROVE p = q
  <2>1. \A i \in Id : <<i, i>> \notin R
    BY DEF IsOrder
  <2>2. ~ (p < q) /\ ~ (q < p)
    BY <1>3, <1>4, <1>5, <2>1
  <2> QED BY <1>2, <2>2
<1>6. page # <<>> => Len(page) \in DOMAIN page /\ LastOf(page) = page[Len(page)]
  BY <1>2 DEF LastOf
<1>7. Len(page) = n => page # <<>>
  BY <1>2
<1>8. ASSUME NEW i, Holds(page, i)
      PROVE  i \in S /\ page # <<>> /\ (i = LastOf(page) \/ <<i, LastOf(page)>> \in R)
  <2>1. PICK p \in DOMAIN page : page[p] = i
    BY <1>8 DEF Holds
  <2>2. page # <<>>
    BY <1>2, <2>1
  <2>3. p = Len(page) \/ p < Len(page)
    BY <1>2, <2>1
  <2> QED BY <1>3, <1>4, <1>6, <2>1, <2>2, <2>3
<1>9. ASSUME NEW i \in S PROVE Holds(page, i) \/ (Len(page) = n /\ <<LastOf(page), i>> \in R)
  BY <1>1, <1>6, <1>7, <1>9 DEF Prefix
<1> QED BY <1>2, <1>3, <1>5, <1>6, <1>7, <1>8, <1>9 DEF IsPage

\* A page has an entry for each of its positions.
LEMMA SizeOfPage ==
  ASSUME NEW page, page \in Seq(Id), \A p, q \in DOMAIN page : page[p] = page[q] => p = q,
         NEW T \in SUBSET Id, \A i : Holds(page, i) => i \in T
  PROVE  Len(page) <= Cardinality(T)
<1>1. Len(page) \in Nat /\ DOMAIN page = 1 .. Len(page) /\ page \in [1 .. Len(page) -> T]
  <2>1. Len(page) \in Nat /\ DOMAIN page = 1 .. Len(page) /\ page = [p \in 1 .. Len(page) |-> page[p]]
    OBVIOUS
  <2>2. \A p \in 1 .. Len(page) : page[p] \in T
    BY <2>1 DEF Holds
  <2> QED BY <2>1, <2>2
<1>2. PICK n \in Nat : n = Len(page)
  BY <1>1
<1>3. page \in Injection(1 .. n, T)
  BY <1>1, <1>2 DEF Injection, IsInjective
<1>4. IsFiniteSet(1 .. n) /\ Cardinality(1 .. n) = n
  <2>1. IsFiniteSet(1 .. n) /\ Cardinality(1 .. n) = IF 1 > n THEN 0 ELSE n - 1 + 1
    BY FS_Interval
  <2> QED BY <2>1
<1>5. IsFiniteSet(T)
  BY EntriesFinite
<1>6. Cardinality(1 .. n) <= Cardinality(T)
  BY <1>3, <1>4, <1>5, FS_Injection
<1> QED BY <1>2, <1>4, <1>6

LEMMA CursorIsAnEntry ==
  ASSUME ScrollInv, ~ ended, kind \notin Pages
  PROVE  from = Nothing \/ (from \in Id /\ from # Nothing)
<1>1. history.pages \in Nat /\ Nothing \notin Id
  BY ListsAssumption DEF ScrollInv, ScrollTyped
<1>2. history.pages > 0 => from \in Shown
  BY DEF ScrollInv, CursorSet
<1>3. history.pages = 0 => from = Nothing
  BY DEF ScrollInv, NotStarted
<1> QED BY <1>1, <1>2, <1>3 DEF Shown

LEMMA NoNewerTime ==
  ASSUME time \in [Id -> Nat], NEW i \in Id, NEW j \in Id, i = j \/ NewerFirst(i, j)
  PROVE  time[i] >= time[j]
<1>1. PICK x \in Nat : x = time[i]
  OBVIOUS
<1>2. PICK y \in Nat : y = time[j]
  OBVIOUS
<1> QED BY <1>1, <1>2 DEF NewerFirst

\* Requests and friends: the cursor's ms comes again.
LEMMA RequestsContinue ==
  ASSUME ScrollInv, ~ ended, kind \in Requests, NEW a,
         a = Scrolled(First({i \in Wanted : AfterCursor(i)}, NewerFirst, limit))
  PROVE  IsAnswer(a) /\ Continues(a, {})
<1>1. time \in [Id -> Nat] /\ Wanted \in SUBSET Id /\ limit \in Nat \ {0}
  BY DEF ScrollInv, ScrollTyped, Wanted, Tagged
<1>2. PICK S \in SUBSET Id : S = {i \in Wanted : AfterCursor(i)}
  BY <1>1
<1>3. PICK page : page = First(S, NewerFirst, limit)
  OBVIOUS
<1>4. a.page = page /\ a.cursor = LastOf(page) /\ a.more = (Len(page) = limit)
  BY <1>2, <1>3 DEF Scrolled, Answer
<1>5. PICK R : R = NewerFirstPairs
  OBVIOUS
<1>6. IsOrder(R) /\ IsFirst(page, R, S, limit)
  BY <1>1, <1>3, <1>5, Orders, FirstNewer
<1>7. IsPage(page, R, S, limit)
  BY <1>1, <1>6, FirstIsAPage
<1>8. IsAnswer(a)
  BY <1>4, <1>7 DEF IsAnswer, IsPage
<1>9. \A i, j \in Id : <<i, j>> \in R <=> NewerFirst(i, j)
  BY <1>5 DEF NewerFirstPairs
<1>10. from = Nothing \/ (from \in Id /\ from # Nothing)
  BY CursorIsAnEntry DEF Requests, Pages
<1>11. kind \notin {"mutualFriends", "userSearch", "feed"} \cup Posts \cup {"notifications", "comments"}
  BY DEF Requests, Posts
<1>12. \A c, i \in Id : (Ahead(c, i) <=> c = Nothing \/ NewerFirst(c, i))
                        /\ (Behind(c, i) <=> c # Nothing /\ time[i] >= time[c])
  BY <1>11 DEF Ahead, Behind
<1>13. \A i \in Id : time[i] \in Nat
  BY <1>1
<1>14. \A i \in S : i \in Id /\ (from = Nothing \/ time[i] <= time[from])
  BY <1>2, <1>10, <1>13 DEF AfterCursor
<1>15. a.more => a.page # <<>> /\ a.cursor = LastOf(a.page)
  BY <1>4, <1>7 DEF IsPage
<1>16. ASSUME NEW i \in Wanted, Ahead(from, i)
       PROVE  Holds(page, i) \/ (a.more /\ Ahead(a.cursor, i))
  <2>1. i \in Id
    BY <1>1
  <2>2. AfterCursor(i)
    BY <1>10, <1>12, <1>16, <2>1 DEF AfterCursor, NewerFirst
  <2>3. i \in S
    BY <1>2, <2>2
  <2>4. CASE Len(page) = limit /\ <<LastOf(page), i>> \in R
    BY <1>4, <1>7, <1>9, <1>12, <2>1, <2>4 DEF IsPage
  <2> QED BY <1>7, <2>3, <2>4 DEF IsPage
<1>17. ASSUME a.more, NEW i \in Id, Holds(page, i) \/ Behind(from, i)
       PROVE  Behind(a.cursor, i)
  <2>1. LastOf(page) \in S /\ LastOf(page) \in Id /\ LastOf(page) # Nothing
    BY <1>4, <1>7, <1>17, ListsAssumption DEF IsPage
  <2>2. time[i] >= time[LastOf(page)]
    <3>1. CASE Holds(page, i)
      <4>1. i = LastOf(page) \/ <<i, LastOf(page)>> \in R
        BY <1>7, <3>1 DEF IsPage
      <4>2. i = LastOf(page) \/ NewerFirst(i, LastOf(page))
        BY <1>9, <2>1, <4>1
      <4> QED BY <1>1, <2>1, <4>2, NoNewerTime
    <3>2. CASE Behind(from, i)
      <4>1. from # Nothing
        BY <3>2 DEF Behind
      <4> QED BY <1>10, <1>12, <1>13, <1>14, <2>1, <3>2, <4>1
    <3> QED BY <1>17, <3>1, <3>2
  <2> QED BY <1>4, <1>12, <2>1, <2>2
<1>18. ASSUME NEW i \in Id, Holds(page, i), Behind(from, i) PROVE time[i] = time[from]
  <2>1. from # Nothing /\ from \in Id
    BY <1>10, <1>18 DEF Behind
  <2>2. time[i] >= time[from]
    BY <1>12, <1>18, <2>1
  <2>3. i \in S
    BY <1>7, <1>18 DEF IsPage
  <2>4. time[i] <= time[from]
    BY <1>14, <2>1, <2>3
  <2> QED BY <1>13, <2>1, <2>2, <2>4
<1>19. ASSUME a.more, Behind(from, a.cursor)
       PROVE  Cardinality({i \in Id : time[i] = time[from]}) >= limit
  <2>1. from # Nothing /\ from \in Id
    BY <1>10, <1>19 DEF Behind
  <2>2. PICK T \in SUBSET Id : T = {i \in Id : time[i] = time[from]}
    OBVIOUS
  <2>3. LastOf(page) \in Id /\ time[LastOf(page)] >= time[from]
    BY <1>4, <1>7, <1>12, <1>19, <2>1 DEF IsPage
  <2>4. ASSUME NEW i, Holds(page, i) PROVE i \in T
    <3>1. i \in S /\ i \in Id
      BY <1>7, <1>14, <2>4 DEF IsPage
    <3>2. time[i] >= time[LastOf(page)]
      <4>1. i = LastOf(page) \/ NewerFirst(i, LastOf(page))
        BY <1>7, <1>9, <2>3, <2>4, <3>1 DEF IsPage
      <4> QED BY <1>1, <2>3, <3>1, <4>1, NoNewerTime
    <3>3. time[i] <= time[from]
      BY <1>14, <2>1, <3>1
    <3> QED BY <1>13, <2>1, <2>2, <2>3, <3>1, <3>2, <3>3
  <2>5. Len(page) <= Cardinality(T)
    BY <1>7, <2>4, SizeOfPage DEF IsPage
  <2>6. Cardinality(T) \in Nat
    BY EntriesFinite
  <2> QED BY <1>1, <1>4, <1>19, <2>2, <2>5, <2>6
<1>20. \A i \in Id : Holds(page, i) => i \in Wanted
  BY <1>2, <1>7 DEF IsPage
<1> QED BY <1>4, <1>8, <1>15, <1>16, <1>17, <1>18, <1>19, <1>20 DEF Continues

\* A list by an order whose cursor is the last entry itself.
IsStrict(a, page, R, T, skipped) ==
  /\ IsOrder(R) /\ IsPage(page, R, T, limit)
  /\ a.page = page /\ a.more = (Len(page) = limit)
  /\ a.more => a.cursor = LastOf(page)
  /\ \A c, i \in Id : (Ahead(c, i) <=> <<c, i>> \in R) /\ (Behind(c, i) <=> <<c, i>> \notin R)
  /\ \A i \in T : Ahead(from, i) /\ i \in Wanted
  /\ \A i \in Wanted \ skipped : Ahead(from, i) => i \in T
  /\ \/ skipped = {}
     \/ kind = "mutualFriends" /\ from # Nothing /\ from \notin Wanted /\ \E x : skipped = {x}

\* Nothing comes twice, and nothing is left out.
LEMMA StrictContinues ==
  ASSUME ScrollInv, ~ ended, kind \notin Pages \cup Requests,
         NEW R, NEW T \in SUBSET Id, NEW page, NEW a, NEW skipped, IsStrict(a, page, R, T, skipped)
  PROVE  IsAnswer(a) /\ Continues(a, skipped)
<1> USE DEF IsStrict
<1>1. IsAnswer(a)
  BY DEF IsAnswer, IsPage
<1>2. from = Nothing \/ (from \in Id /\ from # Nothing)
  BY CursorIsAnEntry
<1>3. a.more => page # <<>> /\ LastOf(page) \in T /\ LastOf(page) \in Id
  BY DEF IsPage
<1>4. ASSUME NEW i \in Wanted \ skipped, Ahead(from, i)
      PROVE  Holds(page, i) \/ (a.more /\ Ahead(a.cursor, i))
  <2>1. Holds(page, i) \/ (Len(page) = limit /\ <<LastOf(page), i>> \in R)
    BY <1>4 DEF IsPage
  <2> QED BY <1>3, <1>4, <2>1
<1>5. ASSUME NEW i \in Id, Behind(from, i) PROVE from \in Id /\ from # Nothing /\ <<from, i>> \notin R
  BY <1>2, <1>5 DEF Behind
<1>6. ASSUME NEW i \in T PROVE ~ Behind(from, i)
  BY <1>2, <1>5, <1>6
<1>7. ASSUME a.more, NEW i \in Id, Holds(page, i) \/ Behind(from, i)
      PROVE  Behind(a.cursor, i)
  <2>1. CASE Holds(page, i)
    <3>1. i = LastOf(page) \/ <<i, LastOf(page)>> \in R
      BY <2>1 DEF IsPage
    <3>2. <<LastOf(page), i>> \notin R
      BY <1>3, <1>7, <3>1 DEF IsOrder
    <3> QED BY <1>3, <1>7, <3>2
  <2>2. CASE Behind(from, i)
    <3>1. from \in Id /\ from # Nothing /\ <<from, i>> \notin R
      BY <1>5, <2>2
    <3>2. <<from, LastOf(page)>> \in R
      BY <1>3, <1>7, <3>1
    <3>3. <<LastOf(page), i>> \notin R
      BY <1>3, <1>7, <3>1, <3>2 DEF IsOrder
    <3> QED BY <1>3, <1>7, <3>3
  <2> QED BY <1>7, <2>1, <2>2
<1>8. \A i \in Id : ~ (Holds(page, i) /\ Behind(from, i))
  BY <1>6 DEF IsPage
<1>9. ~ (a.more /\ Behind(from, a.cursor))
  BY <1>3, <1>6
<1>10. \A i \in Id : Holds(page, i) => i \in Wanted
  BY DEF IsPage
<1> QED BY <1>1, <1>3, <1>4, <1>7, <1>8, <1>9, <1>10 DEF Continues

\* Notifications, posts and comments, from the highest id on.
LEMMA ByIdContinues ==
  ASSUME ScrollInv, ~ ended, kind \in Posts \cup {"notifications", "comments"}, NEW page, NEW a,
         page = First({i \in Wanted : from = Nothing \/ i < from}, Later, limit),
         a.page = page, a.more = (Len(page) = limit), a.more => a.cursor = LastOf(page)
  PROVE  IsAnswer(a) /\ Continues(a, {})
<1>1. time \in [Id -> Nat] /\ Wanted \in SUBSET Id /\ limit \in Nat \ {0}
  BY DEF ScrollInv, ScrollTyped, Wanted, Tagged
<1>2. PICK S \in SUBSET Id : S = {i \in Wanted : from = Nothing \/ i < from}
  BY <1>1
<1>3. PICK R : R = LaterPairs
  OBVIOUS
<1>4. IsOrder(R) /\ IsFirst(page, R, S, limit)
  BY <1>1, <1>2, <1>3, Orders, FirstLater
<1>5. IsPage(page, R, S, limit)
  BY <1>1, <1>4, FirstIsAPage
<1>6. kind \notin Pages \cup Requests \cup {"mutualFriends", "feed", "userSearch"}
  BY DEF Posts, Pages, Requests
<1>7. from = Nothing \/ (from \in Id /\ from # Nothing)
  BY <1>6, CursorIsAnEntry
<1>8. Id \subseteq Nat /\ Nothing \notin Id
  BY ListsAssumption
<1>9. \A c, i \in Id : <<c, i>> \in R <=> i < c
  BY <1>3, <1>8 DEF LaterPairs, Later
<1>10. \A c, i \in Id : (Ahead(c, i) <=> <<c, i>> \in R) /\ (Behind(c, i) <=> <<c, i>> \notin R)
  <2> SUFFICES ASSUME NEW c \in Id, NEW i \in Id
               PROVE  (Ahead(c, i) <=> <<c, i>> \in R) /\ (Behind(c, i) <=> <<c, i>> \notin R)
    OBVIOUS
  <2>1. c \in Nat /\ i \in Nat /\ c # Nothing
    BY <1>8
  <2>2. Ahead(c, i) <=> i < c
    BY <1>6, <2>1 DEF Ahead
  <2>3. Behind(c, i) <=> i >= c
    BY <1>6, <2>1 DEF Behind
  <2>4. i >= c <=> ~ (i < c)
    BY <2>1
  <2> QED BY <1>9, <2>2, <2>3, <2>4
<1>11. \A i \in Wanted : Ahead(from, i) <=> i \in S
  BY <1>1, <1>2, <1>6, <1>7, <1>8 DEF Ahead
<1>12. IsStrict(a, page, R, S, {})
  BY <1>2, <1>4, <1>5, <1>10, <1>11 DEF IsStrict
<1> QED BY <1>6, <1>12, StrictContinues

\* Users that are searched for, whose cursor is a time.
LEMMA SearchContinues ==
  ASSUME ScrollInv, ~ ended, kind = "userSearch", NEW a, a = InfiniteScollSearch
  PROVE  IsAnswer(a) /\ Continues(a, {})
<1>1. time \in [Id -> Nat] /\ Stored \in SUBSET Id /\ limit \in Nat \ {0} /\ Wanted = Stored
  BY DEF ScrollInv, ScrollTyped, Wanted, Requests
<1>2. from = Nothing \/ (from \in Id /\ from # Nothing)
  BY CursorIsAnEntry DEF Pages
<1>3. Nothing \notin Nat /\ Nothing \notin Id
  BY ListsAssumption
<1>4. PICK S \in SUBSET Id : S = {i \in Stored : from = Nothing \/ time[i] < time[from]}
  BY <1>1
<1>5. PICK page : page = First(S, ByTime, limit)
  OBVIOUS
<1>6. a.page = page /\ a.cursor = LastOf(page) /\ a.more = (Len(page) = limit)
  <2>1. PICK after : after = IF from = Nothing THEN Nothing ELSE time[from]
    OBVIOUS
  <2>2. {i \in Stored : after = Nothing \/ time[i] < after} = S
    BY <1>1, <1>2, <1>3, <1>4, <2>1
  <2>3. InfiniteScrollSearchQuery(after) = page
    BY <1>5, <2>2 DEF InfiniteScrollSearchQuery
  <2> QED BY <2>1, <2>3 DEF InfiniteScollSearch, Scrolled, Answer
<1>7. PICK R : R = ByTimePairs
  OBVIOUS
<1>8. IsOrder(R) /\ IsFirst(page, R, S, limit)
  BY <1>1, <1>5, <1>7, Orders, FirstByTime
<1>9. IsPage(page, R, S, limit)
  BY <1>1, <1>8, FirstIsAPage
<1>10. \A i, j \in Id : <<i, j>> \in R => time[i] >= time[j]
  <2> SUFFICES ASSUME NEW i \in Id, NEW j \in Id, <<i, j>> \in R PROVE time[i] >= time[j]
    OBVIOUS
  <2>1. ByTime(i, j) /\ time[i] \in Nat /\ time[j] \in Nat
    BY <1>1, <1>7 DEF ByTimePairs
  <2> QED BY <2>1 DEF ByTime
<1>11. \A c, i \in Id : (Ahead(c, i) <=> c = Nothing \/ time[i] < time[c])
                        /\ (Behind(c, i) <=> c # Nothing /\ time[i] >= time[c])
  BY DEF Ahead, Behind, Requests, Posts
<1>12. \A i \in Id : time[i] \in Nat
  BY <1>1
<1>13. IsAnswer(a)
  BY <1>6, <1>9 DEF IsAnswer, IsPage
<1>14. a.more => page # <<>> /\ LastOf(page) \in S /\ LastOf(page) \in Id /\ LastOf(page) # Nothing
  BY <1>3, <1>6, <1>9 DEF IsPage
<1>15. ASSUME NEW i \in Wanted, Ahead(from, i)
       PROVE  Holds(page, i) \/ (a.more /\ Ahead(a.cursor, i)) \/ ExcusedBy(a, i)
  <2>1. i \in Id /\ i \in S
    BY <1>1, <1>2, <1>4, <1>11, <1>15
  <2>2. CASE Len(page) = limit /\ <<LastOf(page), i>> \in R
    <3>1. time[LastOf(page)] >= time[i]
      BY <1>6, <1>10, <1>14, <2>1, <2>2
    <3>2. CASE time[LastOf(page)] = time[i]
      BY <1>6, <1>14, <2>2, <3>2 DEF ExcusedBy
    <3>3. CASE time[LastOf(page)] # time[i]
      <4>1. time[i] < time[LastOf(page)]
        <5>1. PICK x \in Nat : x = time[i]
          BY <1>12, <2>1
        <5>2. LastOf(page) \in Id
          BY <1>6, <1>14, <2>2
        <5>3. PICK y \in Nat : y = time[LastOf(page)]
          BY <1>12, <5>2
        <5> QED BY <3>1, <3>3, <5>1, <5>3
      <4> QED BY <1>6, <1>11, <1>14, <2>1, <2>2, <4>1
    <3> QED BY <3>2, <3>3
  <2> QED BY <1>9, <2>1, <2>2 DEF IsPage
<1>16. ASSUME NEW i \in S PROVE ~ Behind(from, i)
  <2> SUFFICES ASSUME Behind(from, i) PROVE FALSE
    OBVIOUS
  <2>1. from \in Id /\ from # Nothing /\ i \in Id
    BY <1>2 DEF Behind
  <2>2. time[i] < time[from] /\ time[i] >= time[from]
    BY <1>4, <1>11, <2>1
  <2> QED BY <1>12, <2>1, <2>2
<1>17. ASSUME a.more, NEW i \in Id, Holds(page, i) \/ Behind(from, i)
       PROVE  Behind(a.cursor, i)
  <2>1. time[i] >= time[LastOf(page)]
    <3>1. CASE Holds(page, i)
      <4>1. i = LastOf(page) \/ <<i, LastOf(page)>> \in R
        BY <1>9, <3>1 DEF IsPage
      <4> QED BY <1>10, <1>12, <1>14, <1>17, <4>1
    <3>2. CASE Behind(from, i)
      <4>1. from \in Id /\ from # Nothing
        BY <1>2, <3>2 DEF Behind
      <4>2. time[i] >= time[from]
        BY <1>11, <3>2, <4>1
      <4>3. time[LastOf(page)] < time[from]
        BY <1>4, <1>14, <1>17, <4>1
      <4> QED BY <1>12, <1>14, <1>17, <4>1, <4>2, <4>3
    <3> QED BY <1>17, <3>1, <3>2
  <2> QED BY <1>6, <1>11, <1>14, <1>17, <2>1
<1>18. \A i \in Id : ~ (Holds(page, i) /\ Behind(from, i))
  BY <1>9, <1>16 DEF IsPage
<1>19. ~ (a.more /\ Behind(from, a.cursor))
  BY <1>6, <1>14, <1>16
<1> QED BY <1>6, <1>13, <1>14, <1>15, <1>17, <1>18, <1>19 DEF Continues, CountedKinds

\* The positions of a part of a list.
LEMMA Slice ==
  ASSUME NEW S, NEW s \in Seq(S), NEW m \in Nat \ {0}, NEW n \in Nat, n <= Len(s), NEW page,
         page = SubSeq(s, m, n)
  PROVE  /\ page \in Seq(S) /\ Len(page) = IF m <= n THEN n - m + 1 ELSE 0
         /\ page = [p \in 1 .. Len(page) |-> page[p]] /\ DOMAIN page = 1 .. Len(page)
         /\ \A p \in 1 .. Len(page) : page[p] = s[m + p - 1]
<1>1. \A i \in m .. n : s[i] \in S
  OBVIOUS
<1>2. m \in Int /\ n \in Int
  OBVIOUS
<1>3. /\ page \in Seq(S)
      /\ Len(page) = IF m <= n THEN n - m + 1 ELSE 0
      /\ \A i \in 1 .. n - m + 1 : page[i] = s[m + i - 1]
  BY <1>1, <1>2, SubSeqProperties
<1>4. page = [p \in 1 .. Len(page) |-> page[p]] /\ DOMAIN page = 1 .. Len(page)
  BY <1>3
<1>5. \A p \in 1 .. Len(page) : page[p] = s[m + p - 1]
  BY <1>3
<1> QED BY <1>3, <1>4, <1>5

\* Without its first entry, a list by rank is the list of the rest.
LEMMA RestIsFirst ==
  ASSUME NEW R, IsOrder(R), NEW S \in SUBSET Id, NEW n \in Nat, NEW found, IsFirst(found, R, S, n + 1),
         NEW page, page = [p \in 1 .. Len(page) |-> page[p]],
         Len(page) = IF Len(found) = 0 THEN 0 ELSE Len(found) - 1,
         \A p \in 1 .. Len(page) : page[p] = found[p + 1],
         NEW T \in SUBSET Id, T = {i \in S : found = <<>> \/ i # found[1]}
  PROVE  IsFirst(page, R, T, n)
<1>1. Cardinality(S) \in Nat /\ IsFiniteSet(S) /\ Cardinality(T) \in Nat
  BY EntriesFinite
<1>2. PICK m \in Nat : m = Cardinality(S)
  BY <1>1
<1>3. PICK k \in Nat : k = AtMost(m, n + 1)
  BY DEF AtMost
<1>4. k <= n + 1 /\ k <= m /\ (k = n + 1 \/ k = m)
  BY <1>3 DEF AtMost
<1>5. found = [p \in 1 .. k |-> found[p]]
      /\ \A p \in 1 .. k : found[p] \in S /\ Rank(R, S, found[p]) = p - 1
  BY <1>2, <1>3 DEF IsFirst
<1>6. found \in Seq(S) /\ Len(found) = k
  BY <1>5
<1>7. Len(page) = IF k = 0 THEN 0 ELSE k - 1
  BY <1>6
<1>8. CASE k = 0
  <2>1. Len(page) = 0 /\ m = 0
    BY <1>4, <1>7, <1>8
  <2>2. S = {}
    BY <1>1, <1>2, <2>1, FS_EmptySet
  <2>3. T = {} /\ Cardinality(T) = 0
    BY <2>2, FS_EmptySet
  <2>4. AtMost(Cardinality(T), n) = 0
    BY <2>3 DEF AtMost
  <2>5. page = [p \in 1 .. 0 |-> page[p]]
    BY <2>1
  <2>6. \A p \in 1 .. 0 : FALSE
    OBVIOUS
  <2>7. PICK l : l = AtMost(Cardinality(T), n)
    OBVIOUS
  <2>8. l = 0
    BY <2>4, <2>7
  <2>9. page = [p \in 1 .. l |-> page[p]]
        /\ \A p \in 1 .. l : page[p] \in T /\ Rank(R, T, page[p]) = p - 1
    BY <2>5, <2>6, <2>8
  <2> QED BY <2>7, <2>9 DEF IsFirst
<1>9. CASE k # 0
  <2>1. PICK x : x = found[1]
    OBVIOUS
  <2>2. x \in S /\ Rank(R, S, x) = 0 /\ found # <<>>
    BY <1>5, <1>6, <1>9, <2>1
  <2>3. T = S \ {x}
    BY <2>1, <2>2
  <2>4. Cardinality(T) = m - 1 /\ m >= 1
    <3>1. Cardinality(S \ {x}) = Cardinality(S) - 1
      BY <1>1, <2>2, FS_RemoveElement
    <3>2. m >= 1
      BY <1>4, <1>9
    <3> QED BY <1>2, <2>3, <3>1, <3>2
  <2>5. AtMost(Cardinality(T), n) = k - 1 /\ k - 1 \in Nat
    BY <1>4, <1>9, <2>4 DEF AtMost
  <2>6. page = [p \in 1 .. k - 1 |-> page[p]] /\ \A p \in 1 .. k - 1 : page[p] = found[p + 1]
    BY <1>7, <1>9
  <2>7. ASSUME NEW p \in 1 .. k - 1
        PROVE  page[p] \in T /\ Rank(R, T, page[p]) = p - 1
    <3>1. page[p] = found[p + 1] /\ p + 1 \in 1 .. k
      <4>1. p \in Nat /\ p >= 1 /\ p <= k - 1
        OBVIOUS
      <4>2. p + 1 \in 1 .. k
        BY <4>1
      <4> QED BY <2>6, <4>2
    <3>2. PICK y \in S : y = page[p]
      BY <1>5, <3>1
    <3>3. Rank(R, S, y) = p
      BY <1>5, <3>1, <3>2
    <3>4. y # x
      BY <2>2, <3>3
    <3>5. <<x, y>> \in R
      <4> SUFFICES ASSUME <<x, y>> \notin R PROVE FALSE
        OBVIOUS
      <4>1. <<y, x>> \in R
        BY <2>2, <3>2, <3>4 DEF IsOrder
      <4>2. Rank(R, S, y) < Rank(R, S, x)
        BY <2>2, <3>2, <4>1, RankBelow
      <4> QED BY <2>2, <3>3, <4>2
    <3> DEFINE above == {j \in S : <<j, y>> \in R}
    <3>6. above \in SUBSET Id /\ x \in above
      BY <2>2, <3>5
    <3>7. {j \in T : <<j, y>> \in R} = above \ {x}
      BY <2>3
    <3>8. Cardinality(above) = p
      BY <3>3 DEF Rank
    <3> HIDE DEF above
    <3>9. Cardinality(above \ {x}) = Cardinality(above) - 1
      BY <3>6, EntriesFinite, FS_RemoveElement
    <3>10. Rank(R, T, y) = p - 1
      BY <3>7, <3>8, <3>9 DEF Rank
    <3> QED BY <2>3, <3>2, <3>4, <3>10
  <2> QED BY <2>5, <2>6, <2>7 DEF IsFirst
<1> QED BY <1>8, <1>9

\* One entry more than a page is read; without a cursor it is left out.
LEMMA ShorterIsFirst ==
  ASSUME NEW R, IsOrder(R), NEW S \in SUBSET Id, NEW n \in Nat, NEW found, IsFirst(found, R, S, n + 1),
         NEW page, page = SubSeq(found, 1, AtMost(Len(found), n))
  PROVE  IsFirst(page, R, S, n)
<1>1. PICK m \in Nat : m = Cardinality(S)
  BY EntriesFinite
<1>2. PICK k \in Nat : k = AtMost(m, n + 1)
  BY DEF AtMost
<1>3. PICK l \in Nat : l = AtMost(m, n)
  BY DEF AtMost
<1>4. l <= k /\ AtMost(k, n) = l
  BY <1>2, <1>3 DEF AtMost
<1>5. found = [p \in 1 .. k |-> found[p]]
      /\ \A p \in 1 .. k : found[p] \in S /\ Rank(R, S, found[p]) = p - 1
  BY <1>1, <1>2 DEF IsFirst
<1>6. found \in Seq(S) /\ Len(found) = k
  BY <1>5
<1>7. page = SubSeq(found, 1, l)
  BY <1>4, <1>6
<1>8. page = [p \in 1 .. l |-> found[p]]
  BY <1>4, <1>6, <1>7
<1>9. \A p \in 1 .. l : page[p] \in S /\ Rank(R, S, page[p]) = p - 1
  BY <1>4, <1>5, <1>8
<1> QED BY <1>1, <1>3, <1>8, <1>9 DEF IsFirst

\* Of mutual friends one is skipped, who need not be the cursor's.
LEMMA MutualContinues ==
  ASSUME ScrollInv, ~ ended, kind = "mutualFriends", NEW a, a = FindMutualFriends
  PROVE  IsAnswer(a) /\ \E skipped : Continues(a, skipped)
<1>1. time \in [Id -> Nat] /\ Wanted \in SUBSET Id /\ limit \in Nat \ {0} /\ Wanted = Tagged("mutual")
  BY DEF ScrollInv, ScrollTyped, Wanted, Tagged, Requests
<1>2. from = Nothing \/ (from \in Id /\ from # Nothing)
  BY CursorIsAnEntry DEF Pages
<1>3. Id \subseteq Nat /\ Nothing \notin Id
  BY ListsAssumption
<1>4. PICK S \in SUBSET Id : S = {i \in Wanted : from = Nothing \/ i >= from}
  BY <1>1
<1>5. PICK n \in Nat \ {0} : n = limit
  BY <1>1
<1>6. PICK found : found = First(S, Earlier, n + 1)
  OBVIOUS
<1>7. PICK R : R = EarlierPairs
  OBVIOUS
<1>8. IsOrder(R) /\ IsFirst(found, R, S, n + 1)
  BY <1>1, <1>5, <1>6, <1>7, Orders, FirstEarlier
<1>9. PICK page : page = IF from = Nothing THEN SubSeq(found, 1, AtMost(Len(found), n))
                                          ELSE SubSeq(found, 2, AtMost(Len(found), n + 1))
  OBVIOUS
<1>10. a.page = page /\ a.cursor = LastOf(page) /\ a.more = (Len(page) = limit)
  BY <1>1, <1>4, <1>5, <1>6, <1>9 DEF FindMutualFriends, Scrolled, Answer, AtMost
<1>11. \A c, i \in Id : <<c, i>> \in R <=> c < i
  BY <1>7 DEF EarlierPairs, Earlier
<1>12. \A c, i \in Id : (Ahead(c, i) <=> <<c, i>> \in R) /\ (Behind(c, i) <=> <<c, i>> \notin R)
  <2> SUFFICES ASSUME NEW c \in Id, NEW i \in Id
               PROVE  (Ahead(c, i) <=> <<c, i>> \in R) /\ (Behind(c, i) <=> <<c, i>> \notin R)
    OBVIOUS
  <2>1. c \in Nat /\ i \in Nat /\ c # Nothing
    BY <1>3
  <2>2. Ahead(c, i) <=> i > c
    BY <2>1 DEF Ahead, Requests, Posts
  <2>3. Behind(c, i) <=> i <= c
    BY <2>1 DEF Behind, Requests, Posts
  <2>4. (i <= c <=> ~ (c < i)) /\ (i > c <=> c < i)
    BY <2>1
  <2> QED BY <1>11, <2>2, <2>3, <2>4
<1>13. kind \notin Pages \cup Requests
  BY DEF Pages, Requests
<1>14. CASE from = Nothing
  <2>1. IsPage(page, R, S, limit)
    BY <1>5, <1>8, <1>9, <1>14, ShorterIsFirst, FirstIsAPage
  <2>2. \A i \in S : Ahead(from, i) /\ i \in Wanted
    BY <1>4, <1>14 DEF Ahead
  <2>3. \A i \in Wanted : i \in S
    BY <1>4, <1>14
  <2>4. IsAnswer(a) /\ Continues(a, {})
    <3>1. \A i \in Wanted \ {} : Ahead(from, i) => i \in S
      BY <2>3
    <3>2. IsOrder(R) /\ (a.more => a.cursor = LastOf(page)) /\ a.page = page
          /\ a.more = (Len(page) = limit)
      BY <1>8, <1>10
    <3>3. IsStrict(a, page, R, S, {})
      BY <1>12, <2>1, <2>2, <3>1, <3>2 DEF IsStrict
    <3> QED BY <1>13, <3>3, StrictContinues
  <2> QED BY <2>4
<1>15. CASE from # Nothing
  <2>1. from \in Id /\ from \in Nat
    BY <1>2, <1>3, <1>15
  <2>2. PICK T \in SUBSET Id : T = {i \in S : found = <<>> \/ i # found[1]}
    BY <1>4
  <2>3. IsFirst(page, R, T, n)
    <3>1. found \in Seq(S) /\ Len(found) \in Nat /\ Len(found) <= n + 1
      <4>1. n + 1 \in Nat
        BY <1>5
      <4> QED BY <1>8, <4>1, FirstIsPrefix DEF Prefix
    <3>2. AtMost(Len(found), n + 1) = Len(found)
      BY <1>5, <3>1 DEF AtMost
    <3>3. PICK k \in Nat : k = Len(found)
      BY <3>1
    <3>4. 2 \in Nat \ {0} /\ k <= Len(found) /\ page = SubSeq(found, 2, k)
      BY <1>9, <1>15, <3>2, <3>3
    <3>5. /\ Len(page) = IF 2 <= k THEN k - 2 + 1 ELSE 0
          /\ page = [p \in 1 .. Len(page) |-> page[p]]
          /\ \A p \in 1 .. Len(page) : page[p] = found[2 + p - 1]
      BY <3>1, <3>4, Slice
    <3>6. Len(page) = IF k = 0 THEN 0 ELSE k - 1
      BY <3>5
    <3>7. ASSUME NEW p \in 1 .. Len(page) PROVE page[p] = found[p + 1]
      <4>1. p \in Int
        OBVIOUS
      <4>2. 2 + p - 1 = p + 1
        BY <4>1
      <4> QED BY <3>5, <4>2
    <3> QED BY <1>8, <2>2, <3>3, <3>5, <3>6, <3>7, RestIsFirst
  <2>4. IsPage(page, R, T, limit)
    BY <1>5, <1>8, <2>3, FirstIsAPage
  <2>5. from \in S => found # <<>> /\ found[1] = from
    <3> SUFFICES ASSUME from \in S PROVE found # <<>> /\ found[1] = from
      OBVIOUS
    <3>1. IsPage(found, R, S, n + 1) /\ Prefix(found, R, S, n + 1)
      <4>1. n + 1 \in Nat \ {0} /\ n + 1 \in Nat
        BY <1>5
      <4> QED BY <1>8, <4>1, FirstIsAPage, FirstIsPrefix
    <3>2. found # <<>>
      <4>1. Holds(found, from) \/ Len(found) = n + 1
        BY <3>1 DEF IsPage
      <4> QED BY <3>1, <4>1 DEF Holds, IsPage
    <3>3. found \in Seq(S) /\ 1 \in DOMAIN found /\ DOMAIN found = 1 .. Len(found) /\ found[1] \in S
      BY <3>1, <3>2 DEF IsPage
    <3>4. \A i \in S : ~ (i < from) /\ i \in Nat
      BY <1>3, <1>4, <1>15, <2>1
    <3>5. \A p \in DOMAIN found : p = 1 \/ (found[p] \in S /\ <<found[1], found[p]>> \in R)
      <4> TAKE p \in DOMAIN found
      <4>1. p = 1 \/ 1 < p
        BY <3>3
      <4>2. found[p] \in S
        BY <3>3
      <4> QED BY <3>1, <3>3, <4>1, <4>2 DEF Prefix, Sorted
    <3>6. Holds(found, from) \/ <<found[1], from>> \in R
      BY <3>1, <3>3 DEF Prefix
    <3>7. ~ (<<found[1], from>> \in R)
      BY <1>11, <2>1, <3>3, <3>4
    <3> QED BY <3>2, <3>5, <3>6, <3>7 DEF Holds
  <2>6. \A i \in T : Ahead(from, i) /\ i \in Wanted
    <3> SUFFICES ASSUME NEW i \in T PROVE <<from, i>> \in R /\ i \in Wanted
      BY <1>12, <2>1
    <3>1. i \in S /\ i \in Wanted /\ i \in Nat /\ i >= from
      BY <1>3, <1>4, <1>15, <2>2
    <3>2. i # from
      BY <2>2, <2>5, <3>1
    <3>3. from < i
      BY <2>1, <3>1, <3>2
    <3> QED BY <1>11, <2>1, <3>1, <3>3
  <2>7. PICK skipped : skipped = IF from \in Wanted THEN {} ELSE {found[1]}
    OBVIOUS
  <2>8. ASSUME NEW i \in Wanted \ skipped, Ahead(from, i) PROVE i \in T
    <3>1. i \in Id /\ i \in Nat /\ from < i
      BY <1>1, <1>3, <1>11, <1>12, <2>1, <2>8
    <3>2. i \in S
      BY <1>4, <2>1, <3>1
    <3>3. CASE from \in Wanted
      <4>1. from \in S
        BY <1>4, <2>1, <3>3
      <4>2. found[1] # i
        BY <2>1, <2>5, <3>1, <4>1
      <4> QED BY <2>2, <3>2, <4>2
    <3>4. CASE from \notin Wanted
      BY <2>2, <2>7, <2>8, <3>2, <3>4
    <3> QED BY <3>3, <3>4
  <2>9. \/ skipped = {}
        \/ kind = "mutualFriends" /\ from # Nothing /\ from \notin Wanted /\ \E x : skipped = {x}
    BY <1>15, <2>7
  <2>10. IsAnswer(a) /\ Continues(a, skipped)
    <3>1. \A i \in Wanted \ skipped : Ahead(from, i) => i \in T
      BY <2>8
    <3>2. IsOrder(R) /\ (a.more => a.cursor = LastOf(page)) /\ a.page = page
          /\ a.more = (Len(page) = limit)
      BY <1>8, <1>10
    <3>3. IsStrict(a, page, R, T, skipped)
      BY <1>12, <2>4, <2>6, <2>9, <3>1, <3>2 DEF IsStrict
    <3> QED BY <1>13, <3>3, StrictContinues
  <2> QED BY <2>10
<1> QED BY <1>14, <1>15

\* The feed: what the cache has, and then what the database has after it.
LEMMA FeedContinues ==
  ASSUME ScrollInv, ~ ended, kind = "feed", NEW a, a = Timeline
  PROVE  IsAnswer(a) /\ Continues(a, {})
<1>1. time \in [Id -> Nat] /\ Stored \in SUBSET Id /\ feedCache \in SUBSET Id /\ Wanted = Stored
      /\ limit \in Nat \ {0}
  BY DEF ScrollInv, ScrollTyped, Wanted, Requests
<1>2. from = Nothing \/ (from \in Id /\ from # Nothing)
  BY CursorIsAnEntry DEF Pages
<1>3. Nothing \notin Id /\ \A i \in Id : time[i] \in Nat
  BY <1>1, ListsAssumption
<1>4. PICK R : R = NewerFirstPairs
  OBVIOUS
<1>5. IsOrder(R)
  BY <1>1, <1>4, Orders
<1>6. \A i, j \in Id : <<i, j>> \in R <=> NewerFirst(i, j)
  BY <1>4 DEF NewerFirstPairs
<1>7. \A c, i \in Id : (Ahead(c, i) <=> c = Nothing \/ <<c, i>> \in R)
                       /\ (Behind(c, i) <=> c # Nothing /\ (i = c \/ <<i, c>> \in R))
  BY <1>6 DEF Ahead, Behind, Requests, Posts
<1>8. \A i, j \in Id : time[i] < time[j] => <<j, i>> \in R
  BY <1>3, <1>6 DEF NewerFirst
<1>9. PICK C \in SUBSET Id : C = {i \in feedCache : from = Nothing \/ time[i] < time[from]}
  BY <1>1
<1>10. PICK cr : cr = First(C, NewerFirst, limit)
  OBVIOUS
<1>11. IsPage(cr, R, C, limit) /\ GetUserFeed = cr
  <2>1. IsFirst(cr, R, C, limit)
    BY <1>1, <1>4, <1>10, FirstNewer
  <2> QED BY <1>1, <1>5, <1>9, <1>10, <2>1, FirstIsAPage DEF GetUserFeed
<1>12. PICK last : last = LastOf(cr)
  OBVIOUS
<1>13. cr \in Seq(Id) /\ Len(cr) \in Nat /\ Len(cr) <= limit /\ (Len(cr) = 0 <=> cr = <<>>)
       /\ (cr # <<>> => last \in C /\ last \in Id /\ last # Nothing)
  BY <1>3, <1>11, <1>12 DEF IsPage
<1>14. \A i \in C : i \in Id /\ i \in feedCache /\ (from = Nothing \/ <<from, i>> \in R)
  BY <1>2, <1>8, <1>9
<1>15. \A i : Holds(cr, i) => i \in C /\ i \in Id /\ cr # <<>> /\ (i = last \/ <<i, last>> \in R)
  BY <1>11, <1>12 DEF IsPage
\* What the cache does not answer for is excused, or comes after its last entry.
<1>16. ASSUME NEW i \in Stored, Ahead(from, i), ~ ExcusedBy(a, i), ~ Holds(cr, i), cr # <<>>
       PROVE  <<last, i>> \in R
  <2>1. i \in Id
    BY <1>1
  <2>2. CASE i \in C
    BY <1>11, <1>12, <1>16, <2>2 DEF IsPage
  <2>3. CASE i \notin feedCache
    <3>1. last \in feedCache /\ last \in Id /\ last # i
      BY <1>13, <1>14, <1>16, <2>3
    <3>2. <<i, last>> \notin R
      <4> SUFFICES ASSUME <<i, last>> \in R PROVE FALSE
        OBVIOUS
      <4>1. i \in Gaps
        BY <1>6, <2>1, <2>3, <3>1 DEF Gaps
      <4> QED BY <1>16, <4>1 DEF ExcusedBy
    <3> QED BY <1>5, <2>1, <3>1, <3>2 DEF IsOrder
  <2>4. CASE i \in feedCache /\ i \notin C
    <3>1. from # Nothing /\ from \in Id /\ ~ (time[i] < time[from])
      BY <1>2, <1>9, <2>4
    <3>2. NewerFirst(from, i)
      BY <1>6, <1>7, <1>16, <2>1, <3>1
    <3>3. time[i] = time[from]
      <4>1. PICK x \in Nat : x = time[i]
        BY <1>3, <2>1
      <4>2. PICK y \in Nat : y = time[from]
        BY <1>3, <3>1
      <4>3. y > x \/ y = x
        BY <3>2, <4>1, <4>2 DEF NewerFirst
      <4>4. ~ (x < y)
        BY <3>1, <4>1, <4>2
      <4> QED BY <4>1, <4>2, <4>3, <4>4
    <3> QED BY <1>16, <3>1, <3>3 DEF ExcusedBy
  <2> QED BY <2>2, <2>3, <2>4
<1>17. ASSUME NEW i \in Stored, Ahead(from, i), ~ ExcusedBy(a, i), ~ Holds(cr, i), cr = <<>>, i \in C
       PROVE  FALSE
  <2>1. Len(cr) = 0
    BY <1>13, <1>17
  <2> QED BY <1>1, <1>11, <1>17, <2>1 DEF IsPage
<1>18. CASE Len(cr) = limit
  <2>1. cr # <<>> /\ last \in C /\ last \in Id /\ last # Nothing
    BY <1>1, <1>13, <1>18
  <2>2. a.page = cr /\ a.cursor = last /\ a.more = TRUE
    BY <1>11, <1>12, <1>18 DEF Timeline, Answer
  <2>3. IsAnswer(a)
    BY <1>11, <2>2 DEF IsAnswer, IsPage
  <2>4. a.more => a.page # <<>> /\ a.cursor = LastOf(a.page)
    BY <1>12, <2>1, <2>2
  <2>5. ASSUME NEW i \in Wanted, Ahead(from, i), ~ ExcusedBy(a, i), ~ Holds(cr, i)
        PROVE  Ahead(last, i)
    BY <1>1, <1>7, <1>16, <2>1, <2>5
  <2>6. ASSUME NEW i \in Id, Holds(cr, i) \/ Behind(from, i) PROVE Behind(last, i)
    <3>1. CASE Holds(cr, i)
      BY <1>7, <1>15, <2>1, <3>1
    <3>2. CASE Behind(from, i)
      <4>1. from \in Id /\ from # Nothing
        BY <1>2, <3>2 DEF Behind
      <4>2. <<from, last>> \in R /\ (i = from \/ <<i, from>> \in R)
        BY <1>7, <1>14, <2>1, <3>2, <4>1
      <4>3. <<i, last>> \in R
        BY <1>5, <2>1, <4>1, <4>2 DEF IsOrder
      <4> QED BY <1>7, <2>1, <4>3
    <3> QED BY <2>6, <3>1, <3>2
  <2>7. ASSUME NEW i \in C, Behind(from, i) PROVE FALSE
    <3>1. from \in Id /\ from # Nothing /\ i \in Id
      BY <1>2, <2>7 DEF Behind
    <3>2. <<from, i>> \in R /\ (i = from \/ <<i, from>> \in R)
      BY <1>7, <1>14, <2>7, <3>1
    <3> QED BY <1>5, <3>1, <3>2 DEF IsOrder
  <2>8. \A i \in Id : ~ (Holds(cr, i) /\ Behind(from, i))
    BY <1>15, <2>7
  <2>9. ~ Behind(from, last)
    BY <2>1, <2>7
  <2> QED BY <2>2, <2>3, <2>4, <2>5, <2>6, <2>8, <2>9 DEF Continues, CountedKinds
<1>19. CASE Len(cr) # limit
  <2>1. PICK after : after = IF Len(cr) = 0 THEN from ELSE last
    OBVIOUS
  <2>2. after = Nothing \/ (after \in Id /\ after # Nothing)
    BY <1>2, <1>13, <2>1
  <2>3. PICK n \in Nat \ {0} : n = limit - Len(cr)
    BY <1>1, <1>13, <1>19
  <2>4. PICK S \in SUBSET Id : S = {i \in Stored : after = Nothing \/ NewerFirst(after, i)}
    BY <1>1
  <2>5. PICK post : post = First(S, NewerFirst, n)
    OBVIOUS
  <2>6. IsPage(post, R, S, n)
    <3>1. IsFirst(post, R, S, n)
      BY <1>1, <1>4, <2>5, FirstNewer
    <3> QED BY <1>5, <3>1, FirstIsAPage
  <2>7. PICK page : page = cr \o post
    OBVIOUS
  <2>8. a.page = page /\ a.more = (Len(post) = n)
        /\ (a.more => a.cursor = LastOf(post))
    <3>1. PICK db : db = GetUserTimeline(after, n)
      OBVIOUS
    <3>2. db = Answer(post, IF Len(post) = n THEN LastOf(post) ELSE Nothing, Len(post) = n)
      BY <2>4, <2>5, <3>1 DEF GetUserTimeline
    <3>3. a = [db EXCEPT !.page = cr \o @]
      BY <1>11, <1>12, <1>19, <2>1, <2>3, <3>1 DEF Timeline
    <3>4. a.page = cr \o post /\ a.more = (Len(post) = n)
          /\ a.cursor = IF Len(post) = n THEN LastOf(post) ELSE Nothing
      BY <3>2, <3>3 DEF Answer
    <3> QED BY <2>7, <3>4
  <2>9. \A i \in S : i \in Id /\ i \in Stored /\ (after = Nothing \/ <<after, i>> \in R)
    BY <1>6, <2>2, <2>4
  <2>10. post \in Seq(Id) /\ Len(post) \in Nat /\ (a.more => post # <<>>)
         /\ (post # <<>> => LastOf(post) \in S /\ LastOf(post) \in Id)
         /\ \A i : Holds(post, i) =>
              i \in S /\ i \in Id /\ (i = LastOf(post) \/ <<i, LastOf(post)>> \in R) /\ post # <<>>
    <3>1. post \in Seq(Id) /\ Len(post) \in Nat
      BY <2>6 DEF IsPage
    <3>2. a.more => post # <<>>
      BY <2>6, <2>8 DEF IsPage
    <3>3. post # <<>> => LastOf(post) \in S /\ LastOf(post) \in Id
      BY <2>6 DEF IsPage
    <3>4. \A i : Holds(post, i) =>
            i \in S /\ post # <<>> /\ (i = LastOf(post) \/ <<i, LastOf(post)>> \in R)
      BY <2>6 DEF IsPage
    <3> QED BY <2>9, <3>1, <3>2, <3>3, <3>4
  \* What was in the cache comes before what comes from the database.
  <2>11. ASSUME NEW i, NEW j \in S, Holds(cr, i) PROVE <<i, j>> \in R
    <3>1. i \in Id /\ cr # <<>> /\ (i = last \/ <<i, last>> \in R) /\ last \in Id
      BY <1>13, <1>15, <2>11
    <3>2. after = last /\ after # Nothing
      BY <1>13, <2>1, <3>1
    <3>3. <<last, j>> \in R /\ j \in Id
      BY <2>9, <3>2
    <3> QED BY <1>5, <3>1, <3>3 DEF IsOrder
  <2>12. page \in Seq(Id) /\ DOMAIN page = 1 .. Len(cr) + Len(post)
         /\ \A p \in DOMAIN page : \/ p \in DOMAIN cr /\ page[p] = cr[p]
                                   \/ p - Len(cr) \in DOMAIN post /\ page[p] = post[p - Len(cr)]
                                      /\ p > Len(cr)
    BY <1>13, <2>7, <2>10
  <2>13. \A p, q \in DOMAIN page : page[p] = page[q] => p = q
    <3> SUFFICES ASSUME NEW p \in DOMAIN page, NEW q \in DOMAIN page, page[p] = page[q]
                 PROVE  p = q
      OBVIOUS
    <3>1. \A x \in DOMAIN cr, y \in DOMAIN post : cr[x] # post[y]
      <4> SUFFICES ASSUME NEW x \in DOMAIN cr, NEW y \in DOMAIN post, cr[x] = post[y] PROVE FALSE
        OBVIOUS
      <4>1. Holds(cr, cr[x]) /\ Holds(post, post[y])
        BY DEF Holds
      <4>2. post[y] \in S /\ post[y] \in Id
        BY <2>10, <4>1
      <4>3. <<cr[x], post[y]>> \in R
        BY <2>11, <4>1, <4>2
      <4> QED BY <1>5, <4>2, <4>3 DEF IsOrder
    <3>2. p \in Int /\ q \in Int /\ Len(cr) \in Int
      BY <1>13, <2>12
    <3>3. CASE p \in DOMAIN cr /\ page[p] = cr[p] /\ q \in DOMAIN cr /\ page[q] = cr[q]
      BY <1>11, <3>3 DEF IsPage
    <3>4. CASE /\ p - Len(cr) \in DOMAIN post /\ page[p] = post[p - Len(cr)]
               /\ q - Len(cr) \in DOMAIN post /\ page[q] = post[q - Len(cr)]
      <4>1. p - Len(cr) = q - Len(cr)
        BY <2>6, <3>4 DEF IsPage
      <4> QED BY <3>2, <4>1
    <3> QED BY <2>12, <3>1, <3>3, <3>4
  <2>14. \A i : Holds(page, i) => Holds(cr, i) \/ Holds(post, i)
    BY <2>12 DEF Holds
  <2>15. \A i : Holds(cr, i) \/ Holds(post, i) => Holds(page, i)
    <3>1. \A p \in DOMAIN cr : p \in DOMAIN page /\ page[p] = cr[p]
      BY <1>13, <2>7, <2>10
    <3>2. \A p \in DOMAIN post : p + Len(cr) \in DOMAIN page /\ page[p + Len(cr)] = post[p]
      BY <1>13, <2>7, <2>10
    <3> QED BY <3>1, <3>2 DEF Holds
  <2>16. IsAnswer(a)
    BY <2>8, <2>12, <2>13 DEF IsAnswer
  <2>17. a.more => page # <<>> /\ LastOf(page) = LastOf(post) /\ LastOf(post) \in S
                   /\ LastOf(post) \in Id /\ LastOf(post) # Nothing
    <3> SUFFICES ASSUME a.more PROVE page # <<>> /\ LastOf(page) = LastOf(post)
      BY <1>3, <2>10
    <3>1. post # <<>> /\ Len(post) > 0 /\ Len(post) \in DOMAIN post
      BY <2>10
    <3>2. Len(page) = Len(cr) + Len(post) /\ page # <<>>
      BY <1>13, <2>7, <2>10, <3>1
    <3>3. page[Len(cr) + Len(post)] = post[Len(post)]
      BY <1>13, <2>7, <2>10, <3>1
    <3> QED BY <3>1, <3>2, <3>3 DEF LastOf
  <2>18. ASSUME NEW i \in Wanted, Ahead(from, i), ~ ExcusedBy(a, i), ~ Holds(page, i)
         PROVE  a.more /\ Ahead(LastOf(post), i)
    <3>1. i \in Stored /\ i \in Id /\ ~ Holds(cr, i) /\ ~ Holds(post, i)
      BY <1>1, <2>15, <2>18
    <3>2. i \in S
      <4>1. CASE cr # <<>>
        <5>1. after = last /\ last \in Id
          BY <1>13, <2>1, <4>1
        <5>2. NewerFirst(last, i)
          BY <1>6, <1>16, <2>18, <3>1, <4>1, <5>1
        <5> QED BY <2>4, <3>1, <5>1, <5>2
      <4>2. CASE cr = <<>>
        <5>1. after = from
          BY <1>13, <2>1, <4>2
        <5>2. from = Nothing \/ NewerFirst(from, i)
          BY <1>2, <1>6, <1>7, <2>18, <3>1
        <5> QED BY <2>4, <3>1, <5>1, <5>2
      <4> QED BY <4>1, <4>2
    <3>3. Len(post) = n /\ <<LastOf(post), i>> \in R
      BY <2>6, <3>1, <3>2 DEF IsPage
    <3> QED BY <1>7, <2>8, <2>17, <3>1, <3>3
  \* All of the page is ahead of the cursor.
  <2>19. ASSUME NEW i, Holds(cr, i) \/ i \in S
         PROVE  i \in Id /\ (from = Nothing \/ <<from, i>> \in R)
    <3>1. CASE Holds(cr, i)
      BY <1>14, <1>15, <3>1
    <3>2. CASE i \in S
      <4>1. CASE cr = <<>>
        BY <1>13, <2>1, <2>9, <3>2, <4>1
      <4>2. CASE cr # <<>>
        <5>1. after = last /\ last \in C /\ last \in Id /\ last # Nothing
          BY <1>13, <2>1, <4>2
        <5>2. <<last, i>> \in R /\ i \in Id /\ (from = Nothing \/ <<from, last>> \in R)
          BY <1>14, <2>9, <3>2, <5>1
        <5> QED BY <1>2, <1>5, <5>1, <5>2 DEF IsOrder
      <4> QED BY <4>1, <4>2
    <3> QED BY <2>19, <3>1, <3>2
  <2>20. ASSUME NEW i, Holds(cr, i) \/ i \in S, Behind(from, i) PROVE FALSE
    <3>1. from \in Id /\ from # Nothing /\ i \in Id
      BY <1>2, <2>19, <2>20 DEF Behind
    <3>2. <<from, i>> \in R /\ (i = from \/ <<i, from>> \in R)
      BY <1>7, <2>19, <2>20, <3>1
    <3> QED BY <1>5, <3>1, <3>2 DEF IsOrder
  <2>21. ASSUME a.more, NEW i \in Id, Holds(page, i) \/ Behind(from, i)
         PROVE  Behind(LastOf(post), i)
    <3>1. LastOf(post) \in S /\ LastOf(post) \in Id /\ LastOf(post) # Nothing
      BY <2>17, <2>21
    <3>2. CASE Holds(post, i)
      BY <1>7, <2>10, <3>1, <3>2
    <3>3. CASE Holds(cr, i)
      BY <1>7, <2>11, <2>21, <3>1, <3>3
    <3>4. CASE Behind(from, i)
      <4>1. from \in Id /\ from # Nothing
        BY <1>2, <3>4 DEF Behind
      <4>2. <<from, LastOf(post)>> \in R /\ (i = from \/ <<i, from>> \in R)
        BY <1>7, <2>19, <2>21, <3>1, <3>4, <4>1
      <4>3. <<i, LastOf(post)>> \in R
        BY <1>5, <2>21, <3>1, <4>1, <4>2 DEF IsOrder
      <4> QED BY <1>7, <2>21, <3>1, <4>3
    <3> QED BY <2>14, <2>21, <3>2, <3>3, <3>4
  <2>22. \A i \in Id : ~ (Holds(page, i) /\ Behind(from, i))
    BY <2>10, <2>14, <2>20
  <2>23. ~ (a.more /\ Behind(from, a.cursor))
    BY <2>8, <2>17, <2>20
  <2> QED BY <2>8, <2>16, <2>17, <2>18, <2>21, <2>22, <2>23 DEF Continues, CountedKinds
<1> QED BY <1>18, <1>19

LEMMA SameRank ==
  ASSUME NEW R, IsOrder(R), NEW S \in SUBSET Id, NEW i \in S, NEW j \in S, Rank(R, S, i) = Rank(R, S, j)
  PROVE  i = j
<1> SUFFICES ASSUME i # j PROVE FALSE
  OBVIOUS
<1>1. <<i, j>> \in R \/ <<j, i>> \in R
  BY DEF IsOrder
<1>2. Rank(R, S, i) < Rank(R, S, j) \/ Rank(R, S, j) < Rank(R, S, i)
  BY <1>1, RankBelow
<1>3. Rank(R, S, i) \in Nat /\ Cardinality(S) \in Nat
  BY RankRange, EntriesFinite
<1> QED BY <1>2, <1>3

LEMMA PlaceIsRank ==
  ASSUME ScrollTyped, NEW i \in Id
  PROVE  Place(i) = Rank(ByPlacePairs, Stored, i)
<1>1. {j \in Stored : <<j, i>> \in ByPlacePairs} = {j \in Stored : ByPlace(j, i)}
  BY DEF ByPlacePairs, ScrollTyped
<1> QED BY <1>1 DEF Place, Rank

\* A numbered page holds the rows of its places.
LEMMA PageOfPlaces ==
  ASSUME ScrollTyped, NEW skip \in Nat, NEW page, page = Page(Stored, skip)
  PROVE  /\ page \in Seq(Id) /\ Len(page) \in Nat
         /\ \A p, q \in DOMAIN page : page[p] = page[q] => p = q
         /\ \A i \in Id : Holds(page, i) <=>
              i \in Stored /\ Place(i) >= skip /\ Place(i) < skip + limit
<1>1. time \in [Id -> Nat] /\ Stored \in SUBSET Id
  BY DEF ScrollTyped
<1>2. PICK S \in SUBSET Id : S = Stored
  BY <1>1
<1>3. PICK m \in Nat : m = Cardinality(S)
  BY EntriesFinite
<1>4. PICK l \in Nat \ {0} : l = limit
  BY DEF ScrollTyped
<1>5. PICK all : all = First(S, ByPlace, m)
  OBVIOUS
<1>6. PICK R : R = ByPlacePairs
  OBVIOUS
<1>7. IsOrder(R) /\ IsFirst(all, R, S, m)
  BY <1>1, <1>5, <1>6, Orders, FirstByPlace
<1>8. Prefix(all, R, S, m) /\ Len(all) = AtMost(Cardinality(S), m)
      /\ \A p \in DOMAIN all : Rank(R, S, all[p]) = p - 1
  <2>1. IsOrder(R) /\ IsFirst(all, R, S, m) /\ m \in Nat
    BY <1>7
  <2>2. Prefix(all, R, S, m)
    BY <2>1, FirstIsPrefix
  <2>3. Len(all) = AtMost(Cardinality(S), m)
    BY <2>1, FirstIsPrefix
  <2>4. \A p \in DOMAIN all : Rank(R, S, all[p]) = p - 1
    BY <2>1 DEF IsFirst
  <2> QED BY <2>2, <2>3, <2>4
<1>9. all \in Seq(S) /\ Len(all) = m /\ DOMAIN all = 1 .. m
  <2>1. AtMost(Cardinality(S), m) = m
    BY <1>3 DEF AtMost
  <2>2. all \in Seq(S)
    BY <1>8 DEF Prefix
  <2> QED BY <1>8, <2>1, <2>2
<1>10. PICK n \in Nat : n = IF m < skip + l THEN m ELSE skip + l
  OBVIOUS
<1>11. page = SubSeq(all, skip + 1, n)
  BY <1>2, <1>3, <1>4, <1>5, <1>9, <1>10 DEF Page
<1>12. PICK b \in Nat \ {0} : b = skip + 1
  OBVIOUS
<1>13. /\ page \in Seq(S) /\ Len(page) = IF b <= n THEN n - b + 1 ELSE 0
       /\ DOMAIN page = 1 .. Len(page)
       /\ \A p \in 1 .. Len(page) : page[p] = all[b + p - 1]
  <2>1. n <= m
    BY <1>10
  <2>2. n <= Len(all) /\ page = SubSeq(all, b, n)
    BY <1>9, <1>11, <1>12, <2>1
  <2> QED BY <1>9, <2>2, Slice
<1>14. PICK k : k = Len(page)
  OBVIOUS
<1>15. k = (IF b <= n THEN n - b + 1 ELSE 0) /\ k \in Nat
  <2>1. k = IF b <= n THEN n - b + 1 ELSE 0
    BY <1>13, <1>14
  <2> QED BY <2>1
<1>16. ASSUME NEW p \in 1 .. k
       PROVE  skip + p \in 1 .. m /\ skip + p <= skip + l /\ page[p] = all[skip + p]
              /\ page[p] \in S /\ Rank(R, S, page[p]) = skip + p - 1
  <2>1. p \in Nat /\ p >= 1 /\ p <= n - skip
    BY <1>12, <1>15
  <2>2. skip + p \in 1 .. m /\ skip + p <= skip + l
    BY <1>10, <2>1
  <2>3. page[p] = all[b + p - 1] /\ b + p - 1 = skip + p
    BY <1>12, <1>13, <1>14, <2>1
  <2>4. page[p] = all[skip + p]
    BY <2>3
  <2>5. all[skip + p] \in S /\ Rank(R, S, all[skip + p]) = skip + p - 1
    BY <1>8, <1>9, <2>2
  <2> QED BY <2>2, <2>4, <2>5
<1>17. \A p, q \in DOMAIN page : page[p] = page[q] => p = q
  <2> SUFFICES ASSUME NEW p \in 1 .. k, NEW q \in 1 .. k, page[p] = page[q] PROVE p = q
    BY <1>13, <1>14
  <2>1. skip + p - 1 = skip + q - 1
    BY <1>16
  <2> QED BY <2>1
<1>18. ASSUME NEW i \in Id
       PROVE  Holds(page, i) <=> i \in Stored /\ Place(i) >= skip /\ Place(i) < skip + limit
  <2>1. PICK r : r = Place(i)
    OBVIOUS
  <2>2. r = Rank(R, S, i) /\ r \in Nat
    BY <1>2, <1>6, <2>1, PlaceIsRank, PlaceIsNat
  <2>3. ASSUME Holds(page, i) PROVE i \in S /\ r >= skip /\ r < skip + l
    <3>1. PICK p \in 1 .. k : page[p] = i
      BY <1>13, <1>14, <2>3 DEF Holds
    <3>2. i \in S /\ r = skip + p - 1 /\ skip + p <= skip + l
      BY <1>16, <2>2, <3>1
    <3> QED BY <3>2
  <2>4. ASSUME i \in S, r >= skip, r < skip + l PROVE Holds(page, i)
    <3>1. r < m
      BY <1>3, <2>2, <2>4, <1>7, RankRange
    <3>2. PICK p : p = r - skip + 1
      OBVIOUS
    <3>3. p \in 1 .. k
      BY <1>10, <1>12, <1>15, <2>2, <2>4, <3>1, <3>2
    <3>4. Rank(R, S, page[p]) = r /\ page[p] \in S
      <4>1. Rank(R, S, page[p]) = skip + p - 1 /\ page[p] \in S
        BY <1>16, <3>3
      <4>2. skip + p - 1 = r
        BY <2>2, <3>2
      <4> QED BY <4>1, <4>2
    <3>5. page[p] = i
      BY <1>7, <2>2, <2>4, <3>4, SameRank
    <3> QED BY <1>13, <1>14, <3>3, <3>5 DEF Holds
  <2> QED BY <1>2, <1>4, <2>1, <2>3, <2>4
<1>19. page \in Seq(Id) /\ Len(page) \in Nat
  BY <1>13, <1>14, <1>15
<1> QED BY <1>17, <1>18, <1>19

\* Reading the users that were found again loses none of them.
LEMMA ReadAgain ==
  ASSUME ScrollTyped, NEW ids, ids \in Seq(Id), \A p, q \in DOMAIN ids : ids[p] = ids[q] => p = q,
         \A i : Holds(ids, i) => i \in Stored, NEW page, page = GetUserListByIds(ids)
  PROVE  /\ page \in Seq(Id)
         /\ \A p, q \in DOMAIN page : page[p] = page[q] => p = q
         /\ \A i : Holds(page, i) <=> Holds(ids, i)
<1>1. time \in [Id -> Nat] /\ Stored \in SUBSET Id
  BY DEF ScrollTyped
<1>2. PICK n \in Nat : n = Len(ids)
  OBVIOUS
<1>3. PICK T : T = {ids[p] : p \in DOMAIN ids}
  OBVIOUS
<1>4. T \in SUBSET Id /\ \A i : i \in T <=> Holds(ids, i)
  BY <1>3 DEF Holds
<1>5. T \cap Stored = T
  BY <1>4
<1>6. PICK R : R = ByPlacePairs
  OBVIOUS
<1>7. IsOrder(R) /\ IsFirst(page, R, T, n)
  <2>1. page = First(T, ByPlace, n)
    BY <1>2, <1>3, <1>5 DEF GetUserListByIds
  <2> QED BY <1>1, <1>4, <1>6, <2>1, Orders, FirstByPlace
<1>8. Prefix(page, R, T, n) /\ \A p \in DOMAIN page : Rank(R, T, page[p]) = p - 1
  BY <1>4, <1>7, FirstIsPrefix
<1>9. page \in Seq(T) /\ page \in Seq(Id) /\ DOMAIN page \subseteq Nat
      /\ \A p \in DOMAIN page : page[p] \in T
  BY <1>4, <1>8 DEF Prefix
<1>10. \A p, q \in DOMAIN page : page[p] = page[q] => p = q
  <2> SUFFICES ASSUME NEW p \in DOMAIN page, NEW q \in DOMAIN page, page[p] = page[q] PROVE p = q
    OBVIOUS
  <2>1. p - 1 = q - 1 /\ p \in Nat /\ q \in Nat
    BY <1>8, <1>9
  <2> QED BY <2>1
<1>11. IsFiniteSet(T) /\ Cardinality(T) \in Nat
  BY <1>4, EntriesFinite
<1>12. Cardinality(T) <= n
  <2>1. IsFiniteSet(1 .. n) /\ Cardinality(1 .. n) = n
    <3>1. IsFiniteSet(1 .. n) /\ Cardinality(1 .. n) = IF 1 > n THEN 0 ELSE n - 1 + 1
      BY FS_Interval
    <3> QED BY <3>1
  <2>2. DOMAIN ids = 1 .. n /\ ids = [p \in 1 .. n |-> ids[p]]
    BY <1>2
  <2>3. ids \in Surjection(1 .. n, T)
    BY <1>3, <2>2 DEF Surjection
  <2>4. Cardinality(T) <= Cardinality(1 .. n)
    BY <2>1, <2>3, FS_Surjection
  <2> QED BY <2>1, <2>4
<1>13. ASSUME NEW i \in T, ~ Holds(page, i) PROVE FALSE
  <2>1. Len(page) = n
    BY <1>8, <1>13 DEF Prefix
  <2>2. PICK U \in SUBSET Id : U = T \ {i}
    BY <1>4
  <2>3. \A j : Holds(page, j) => j \in U
    BY <1>9, <1>13, <2>2 DEF Holds
  <2>4. Len(page) <= Cardinality(U)
    BY <1>9, <1>10, <2>3, SizeOfPage
  <2>5. Cardinality(U) = Cardinality(T) - 1
    BY <1>11, <2>2, FS_RemoveElement
  <2> QED BY <1>11, <1>12, <2>1, <2>4, <2>5
<1>14. \A i : Holds(page, i) <=> Holds(ids, i)
  BY <1>4, <1>9, <1>13 DEF Holds
<1> QED BY <1>9, <1>10, <1>14

\* The users of the admin and of the search with pages.
LEMMA PagesAreNumbered ==
  ASSUME ScrollInv, ~ ended, kind \in Pages, NEW a, a = AdminGetUserList
  PROVE  IsAnswer(a) /\ IsNumbered(a)
<1>1. ScrollTyped
  BY DEF ScrollInv
<1>2. PICK n \in Nat : n = history.pages
  BY <1>1 DEF ScrollTyped
<1>3. PICK l \in Nat \ {0} : l = limit
  BY <1>1 DEF ScrollTyped
<1>4. PICK page : page = IF from = Nothing THEN 1 ELSE from
  OBVIOUS
<1>5. page = n + 1
  <2>1. CASE n = 0
    BY <1>2, <1>4, <2>1 DEF ScrollInv, NotStarted
  <2>2. CASE n # 0
    <3>1. from = n + 1
      BY <1>2, <2>2 DEF ScrollInv, CursorSet
    <3>2. from # Nothing
      BY <3>1, ListsAssumption
    <3> QED BY <1>4, <3>1, <3>2
  <2> QED BY <2>1, <2>2
<1>6. PICK skip \in Nat : skip = n * l
  BY <1>2
<1>7. (page - 1) * limit = skip
  BY <1>3, <1>5, <1>6
<1>8. (n + 1) * l = skip + l
  BY <1>2, <1>3, <1>6
<1>9. PICK found : found = Page(Stored, skip)
  OBVIOUS
<1>10. /\ found \in Seq(Id) /\ Len(found) \in Nat
       /\ \A p, q \in DOMAIN found : found[p] = found[q] => p = q
       /\ \A i \in Id : Holds(found, i) <=>
            i \in Stored /\ Place(i) >= skip /\ Place(i) < skip + limit
  BY <1>1, <1>9, PageOfPlaces
<1>11. PICK users : users = IF kind = "adminSearch" THEN GetUserListByIds(found) ELSE found
  OBVIOUS
<1>12. /\ a.page = users /\ a.cursor = page + 1
       /\ a.more = (page < TotalPages(Cardinality(Stored)))
  <2>1. PICK res : res = [users |-> found, totalEntries |-> Cardinality(Stored)]
    OBVIOUS
  <2>2. PICK ans : ans = Paginated(res, page)
    OBVIOUS
  <2>3. ans.page = found /\ ans.cursor = page + 1 /\ ans.more = (page < TotalPages(Cardinality(Stored)))
        /\ ans = [page |-> found, cursor |-> page + 1, more |-> page < TotalPages(Cardinality(Stored))]
    BY <2>1, <2>2 DEF Paginated, Answer
  <2>4. PaginatedSearch(page) = ans /\ Paginated(GetUserList((page - 1) * limit), page) = ans
    BY <1>7, <1>9, <2>1, <2>2 DEF PaginatedSearch, PaginatedSearchQuery, GetUserList
  <2>5. a = IF kind = "adminSearch" THEN [ans EXCEPT !.page = GetUserListByIds(@)] ELSE ans
    BY <1>4, <2>4 DEF AdminGetUserList
  <2>6. CASE kind = "adminSearch"
    BY <1>11, <2>3, <2>5, <2>6
  <2>7. CASE kind # "adminSearch"
    BY <1>11, <2>3, <2>5, <2>7
  <2> QED BY <2>6, <2>7
<1>13. /\ users \in Seq(Id)
       /\ \A p, q \in DOMAIN users : users[p] = users[q] => p = q
       /\ \A i : Holds(users, i) <=> Holds(found, i)
  <2>1. CASE kind = "adminSearch"
    <3>1. \A i : Holds(found, i) => i \in Stored
      <4>1. \A i : Holds(found, i) => i \in Id
        BY <1>10 DEF Holds
      <4> QED BY <1>10, <4>1
    <3> QED BY <1>1, <1>10, <1>11, <2>1, <3>1, ReadAgain
  <2>2. CASE kind # "adminSearch"
    BY <1>10, <1>11, <2>2
  <2> QED BY <2>1, <2>2
<1>14. IsAnswer(a)
  BY <1>12, <1>13 DEF IsAnswer
<1>15. \A i \in Id : Holds(users, i) <=>
         i \in Stored /\ Place(i) >= history.pages * limit /\ Place(i) < (history.pages + 1) * limit
  BY <1>2, <1>3, <1>6, <1>8, <1>10, <1>13
<1>16. page + 1 = history.pages + 2 /\ page = history.pages + 1
  BY <1>2, <1>5
<1> QED BY <1>12, <1>14, <1>15, <1>16 DEF IsNumbered

----------------------------------------------------------------------------
(* The list as a whole                                                       *)

\* Each list keeps the invariant when it is read: requests and friends,
LEMMA RequestReads ==
  ASSUME ScrollInv, GetFriendRequestList \/ GetSentRequestList \/ GetFriendList
  PROVE  ScrollInv'
<1>1. kind \in Requests /\ kind \notin Pages /\ owed' = owed
  BY DEF GetFriendRequestList, GetSentRequestList, GetFriendList, Requests, Pages
<1>2. PICK a : a = Scrolled(First({i \in Wanted : AfterCursor(i)}, NewerFirst, limit))
  OBVIOUS
<1>3. Turn(a)
  <2>1. CASE GetFriendRequestList
    <3>1. Wanted = Tagged("incoming")
      BY <2>1 DEF Wanted, GetFriendRequestList
    <3>2. a = GetUserFriendRequestList
      BY <1>2, <3>1 DEF GetUserFriendRequestList
    <3> QED BY <2>1, <3>2 DEF GetFriendRequestList
  <2>2. CASE GetSentRequestList
    <3>1. Wanted = Tagged("outgoing")
      BY <2>2 DEF Wanted, GetSentRequestList
    <3>2. a = GetUserSendFriendRequestList
      BY <1>2, <3>1 DEF GetUserSendFriendRequestList
    <3> QED BY <2>2, <3>2 DEF GetSentRequestList
  <2>3. CASE GetFriendList
    <3>1. Wanted = Tagged("friends")
      BY <2>3 DEF Wanted, GetFriendList
    <3>2. a = GetUserFriendList
      BY <1>2, <3>1 DEF GetUserFriendList
    <3> QED BY <2>3, <3>2 DEF GetFriendList
  <2> QED BY <2>1, <2>2, <2>3
<1>4. ~ ended
  BY <1>3 DEF Turn
<1>5. IsAnswer(a) /\ Continues(a, {})
  BY <1>1, <1>2, <1>4, RequestsContinue
<1> QED BY <1>1, <1>3, <1>5, TurnContinues

\* those that go on from an entry,
LEMMA IdReads ==
  ASSUME ScrollInv, \/ GetRecentNotifications \/ GetUserPostList
                    \/ QueryPostByHashtag \/ GetPostCommentList
  PROVE  ScrollInv'
<1>1. kind \in Posts \cup {"notifications", "comments"} /\ kind \notin Pages /\ owed' = owed
  BY DEF GetRecentNotifications, GetUserPostList, QueryPostByHashtag, GetPostCommentList, Posts, Pages
<1>2. PICK page : page = First({i \in Wanted : from = Nothing \/ i < from}, Later, limit)
  OBVIOUS
<1>3. \E a : Turn(a) /\ a.page = page /\ a.more = (Len(page) = limit)
             /\ (a.more => a.cursor = LastOf(page))
  <2>1. CASE GetRecentNotifications
    <3>1. Wanted = Stored
      BY <2>1 DEF Wanted, GetRecentNotifications, Requests
    <3>2. PICK a : a = RetriveRecentUserNotifications
      OBVIOUS
    <3>3. a = Answer(page, IF Len(page) = limit THEN LastOf(page) ELSE Nothing, Len(page) = limit)
      BY <1>2, <3>1, <3>2 DEF RetriveRecentUserNotifications
    <3>4. a.page = page /\ a.more = (Len(page) = limit) /\ (a.more => a.cursor = LastOf(page))
      BY <3>3 DEF Answer
    <3> QED BY <2>1, <3>2, <3>4 DEF GetRecentNotifications
  <2>2. CASE GetUserPostList
    <3>1. kind = "posts"
      BY <2>2 DEF GetUserPostList
    <3>2. PICK filter : filter = Filter
      OBVIOUS
    <3>3. {i \in Stored : /\ entry[i].tag \in filter.visibility
                          /\ entry[i].verdict \in filter.moderationStatus} = Wanted
      <4>1. bond \in {Nothing, "accepted", "sent", "received", "self"}
            /\ \A i \in Stored : /\ entry[i].tag \in {"public", "friends"}
                                 /\ entry[i].verdict \in {"ok", "pending", "notAppropriate"}
        BY <3>1 DEF ScrollInv, ScrollTyped, PostsTyped, Bonds
      <4>2. Wanted = {i \in Stored : \/ bond = "self"
                                     \/ (/\ entry[i].verdict = "ok"
                                         /\ (bond = "accepted" \/ entry[i].tag = "public"))}
        BY <3>1 DEF Wanted, Requests
      <4>3. CASE bond = "self"
        <5>1. filter.visibility = {"public", "friends"}
              /\ filter.moderationStatus = {"ok", "pending", "notAppropriate"}
          BY <3>2, <4>3, ListsAssumption DEF Filter, RelationshipStatus
        <5> QED BY <4>1, <4>2, <4>3, <5>1
      <4>4. CASE bond = "accepted"
        <5>1. filter.visibility = {"public", "friends"} /\ filter.moderationStatus = {"ok"}
          BY <3>2, <4>4, ListsAssumption DEF Filter, RelationshipStatus
        <5> QED BY <4>1, <4>2, <4>4, <5>1
      <4>5. CASE bond \in {Nothing, "sent", "received"}
        <5>1. filter.visibility = {"public"} /\ filter.moderationStatus = {"ok"}
          <6>1. RelationshipStatus \in {"strangers", "friendreqSend", "friendReqWaitingApproval"}
            BY <4>5, ListsAssumption DEF RelationshipStatus
          <6> QED BY <3>2, <6>1 DEF Filter
        <5>2. bond # "self" /\ bond # "accepted"
          BY <4>5, ListsAssumption
        <5> QED BY <4>1, <4>2, <5>1, <5>2
      <4> QED BY <4>1, <4>3, <4>4, <4>5
    <3>4. PICK a : a = GetUserPosts(filter)
      OBVIOUS
    <3>5. a = Scrolled(page)
      BY <1>2, <3>3, <3>4 DEF GetUserPosts, After
    <3>6. Turn(a)
      BY <2>2, <3>2, <3>4 DEF GetUserPostList
    <3> QED BY <3>5, <3>6 DEF Scrolled, Answer
  <2>3. CASE QueryPostByHashtag
    <3>1. Wanted = Tagged("public")
      BY <2>3 DEF Wanted, QueryPostByHashtag, Requests
    <3>2. PICK a : a = GetPublicPostByHashtag
      OBVIOUS
    <3>3. a = Scrolled(page)
      BY <1>2, <3>1, <3>2 DEF GetPublicPostByHashtag, After
    <3>4. Turn(a)
      BY <2>3, <3>2 DEF QueryPostByHashtag
    <3> QED BY <3>3, <3>4 DEF Scrolled, Answer
  <2>4. CASE GetPostCommentList
    <3>1. Wanted = Stored
      BY <2>4 DEF Wanted, GetPostCommentList, Requests
    <3>2. PICK a : a = GetPostComments
      OBVIOUS
    <3>3. a = Scrolled(page)
      BY <1>2, <3>1, <3>2 DEF GetPostComments, After
    <3>4. Turn(a)
      BY <2>4, <3>2 DEF GetPostCommentList
    <3> QED BY <3>3, <3>4 DEF Scrolled, Answer
  <2> QED BY <2>1, <2>2, <2>3, <2>4
<1>4. PICK a : Turn(a) /\ a.page = page /\ a.more = (Len(page) = limit)
               /\ (a.more => a.cursor = LastOf(page))
  BY <1>3
<1>5. ~ ended
  BY <1>4 DEF Turn
<1>6. IsAnswer(a) /\ Continues(a, {})
  BY <1>1, <1>2, <1>4, <1>5, ByIdContinues
<1> QED BY <1>1, <1>4, <1>6, TurnContinues

\* and the others.
LEMMA OtherReads ==
  ASSUME ScrollInv, GetMutualFriendsList \/ GetFeedPage \/ SearchUser \/ GetUsers
  PROVE  ScrollInv'
<1>1. CASE GetMutualFriendsList
  <2>1. PICK a : a = FindMutualFriends
    OBVIOUS
  <2>2. kind = "mutualFriends" /\ Turn(a) /\ owed' = owed /\ ~ ended
    BY <1>1, <2>1 DEF GetMutualFriendsList, Turn
  <2>3. IsAnswer(a) /\ \E skipped : Continues(a, skipped)
    BY <2>1, <2>2, MutualContinues
  <2>4. PICK skipped : Continues(a, skipped)
    BY <2>3
  <2>5. kind \notin Pages
    BY <2>2 DEF Pages
  <2> QED BY <2>2, <2>3, <2>4, <2>5, TurnContinues
<1>2. CASE GetFeedPage
  <2>1. PICK a : a = Timeline
    OBVIOUS
  <2>2. kind = "feed" /\ Turn(a) /\ (owed' = owed \/ owed' = owed \cup {<<"fill", Nothing>>}) /\ ~ ended
    BY <1>2, <2>1 DEF GetFeedPage, Turn
  <2>3. IsAnswer(a) /\ Continues(a, {})
    BY <2>1, <2>2, FeedContinues
  <2>4. kind \notin Pages
    BY <2>2 DEF Pages
  <2> QED BY <2>2, <2>3, <2>4, TurnContinues
<1>3. CASE SearchUser
  <2>1. PICK a : a = InfiniteScollSearch
    OBVIOUS
  <2>2. kind = "userSearch" /\ Turn(a) /\ owed' = owed /\ ~ ended
    BY <1>3, <2>1 DEF SearchUser, Turn
  <2>3. IsAnswer(a) /\ Continues(a, {})
    BY <2>1, <2>2, SearchContinues
  <2>4. kind \notin Pages
    BY <2>2 DEF Pages
  <2> QED BY <2>2, <2>3, <2>4, TurnContinues
<1>4. CASE GetUsers
  <2>1. PICK a : a = AdminGetUserList
    OBVIOUS
  <2>2. kind \in Pages /\ Turn(a) /\ owed' = owed /\ ~ ended
    BY <1>4, <2>1 DEF GetUsers, Turn
  <2>3. IsAnswer(a) /\ IsNumbered(a)
    BY <2>1, <2>2, PagesAreNumbered
  <2> QED BY <2>2, <2>3, TurnByNumber
<1> QED BY <1>1, <1>2, <1>3, <1>4

\* A count comes before the first page and is that of the list.
LEMMA CountsKeep ==
  ASSUME ScrollInv, GetFriendsRequestCount \/ GetFriendsCount \/ GetMutualFriendsCount
  PROVE  ScrollInv'
<1> USE DEF ScrollInv
<1>1. kind \in CountedKinds /\ told' = Cardinality(Wanted)
      /\ UNCHANGED <<kind, limit, time, entry, bond, feedCache, owed, from, ended, history>>
  <2>1. CASE GetFriendsRequestCount
    BY <2>1 DEF GetFriendsRequestCount, Counted, GetUserFriendRequestCount, Wanted, CountedKinds
  <2>2. CASE GetFriendsCount
    BY <2>2 DEF GetFriendsCount, Counted, GetUserFriendCount, Wanted, CountedKinds
  <2>3. CASE GetMutualFriendsCount
    BY <2>3 DEF GetMutualFriendsCount, Counted, CountMutualFriends, Wanted, CountedKinds
  <2> QED BY <2>1, <2>2, <2>3
<1>2. Stored' = Stored /\ Wanted' = Wanted
  BY <1>1 DEF Stored, Wanted, Tagged
<1>3. /\ Shown' = Shown /\ Stops' = Stops /\ Twice' = Twice /\ OfACursorsMs' = OfACursorsMs
      /\ Crowded' = Crowded /\ Missed' = Missed
  BY <1>1 DEF Shown, Stops, Twice, OfACursorsMs, Crowded, Missed, Ahead, NewerFirst
<1>4. ScrollTyped'
  BY <1>1, <1>2 DEF ScrollTyped, PostsTyped
<1>5. NotStarted' /\ CursorSet'
  BY <1>1, <1>2, <1>3 DEF NotStarted, CursorSet
<1>6. NoneMissed' /\ NoneRepeated' /\ Advances'
  BY <1>1, <1>3 DEF NoneMissed, NoneRepeated, Advances, Excused, Behind, NewerFirst
<1>7. Numbered'
  BY <1>1 DEF Numbered, CountedKinds, Pages
<1>8. CountKept'
  BY <1>1, <1>2, <1>3 DEF CountKept
<1>9. ReadIsShown'
  BY <1>1 DEF ReadIsShown, CountedKinds
<1> QED BY <1>4, <1>5, <1>6, <1>7, <1>8, <1>9

LEMMA ScrollStutters == ASSUME ScrollInv, UNCHANGED scrollVars PROVE ScrollInv'
<1> USE DEF ScrollInv, scrollVars
<1>1. /\ Stored' = Stored /\ Wanted' = Wanted /\ Shown' = Shown /\ Stops' = Stops
      /\ Twice' = Twice /\ OfACursorsMs' = OfACursorsMs /\ Crowded' = Crowded /\ Missed' = Missed
  BY DEF Stored, Wanted, Tagged, Shown, Stops, Twice, OfACursorsMs, Crowded, Missed, Ahead, NewerFirst
<1>2. ScrollTyped' /\ NotStarted' /\ CursorSet'
  BY <1>1 DEF ScrollTyped, PostsTyped, NotStarted, CursorSet
<1>3. NoneMissed' /\ NoneRepeated' /\ Advances'
  BY <1>1 DEF NoneMissed, NoneRepeated, Advances, Excused, Behind, NewerFirst
<1>4. Numbered' /\ CountKept' /\ ReadIsShown'
  <2>1. \A i : Place(i)' = Place(i)
    BY <1>1 DEF Place, ByPlace
  <2>2. Tagged("read")' = Tagged("read")
    BY DEF Tagged, Stored
  <2> QED BY <1>1, <2>1, <2>2 DEF Numbered, CountKept, ReadIsShown
<1> QED BY <1>2, <1>3, <1>4

\* In every reachable state, what was shown is behind the cursor, and what was
\* not is ahead of it or excused, whoever wrote between two pages.
THEOREM ScrollInvariant == ScrollSpec => []ScrollInv
<1>1. ScrollInv /\ [ScrollNext]_scrollVars => ScrollInv'
  <2> SUFFICES ASSUME ScrollInv, [ScrollNext]_scrollVars PROVE ScrollInv'
    OBVIOUS
  <2>1. CASE Reads
    BY <2>1, RequestReads, IdReads, OtherReads, CountsKeep DEF Reads
  <2>2. CASE Writes
    BY <2>2, MarkAsReadKeeps, CreatedKeeps, PostPassesKeeps, RemovedKeeps, ChangedKeeps, MovedKeeps,
       BefriendedKeeps, FeedWrites DEF Writes
  <2> QED BY <2>1, <2>2, ScrollStutters DEF ScrollNext
<1> QED BY ScrollStarts, <1>1, PTL DEF ScrollSpec

\* At the end of a list nothing is ahead of the cursor any more.
LEMMA ScrolledToTheEnd == ScrollInv => ScrollShowsAll
<1> SUFFICES ASSUME ScrollInv PROVE ScrollShowsAll
  OBVIOUS
<1> USE DEF ScrollInv
<1>1. history.pages \in Nat /\ history.stayed \in SUBSET Id /\ limit \in Nat \ {0}
      /\ \A i \in Id : history.shown[i] \in Nat
  BY DEF ScrollTyped
<1>2. Lost = IF ended THEN Missed ELSE {}
  BY DEF Lost, Missed
<1>3. ~ ended => Lost = {}
  BY <1>2
<1>4. kind \in Requests \cup Posts \cup {"notifications", "comments"} => Lost = {}
  BY <1>2 DEF NoneMissed, Excused, Requests, Posts, Pages
<1>5. kind = "feed" => Lost \subseteq OfACursorsMs \cup history.gaps
  BY <1>2 DEF NoneMissed, Excused, Pages
<1>6. kind = "userSearch" => Lost \subseteq OfACursorsMs
  BY <1>2 DEF NoneMissed, Excused, Pages
<1>7. kind = "mutualFriends" => Cardinality(Lost) <= history.drops
  <2>1. history.drops \in Nat
    BY DEF ScrollTyped
  <2> QED BY <1>2, <2>1, FS_EmptySet DEF NoneMissed
<1>8. kind \notin Pages \cup Requests => Twice = {}
  BY DEF NoneRepeated
<1>9. kind \in Requests => Twice \subseteq OfACursorsMs
  BY DEF NoneRepeated, Requests, Pages
<1>10. kind \in Pages /\ history.changes = 0 => Lost = {} /\ Twice = {}
  <2> SUFFICES ASSUME kind \in Pages, history.changes = 0 PROVE Lost = {} /\ Twice = {}
    OBVIOUS
  <2>1. Twice = {}
    BY DEF Numbered, Twice
  <2>2. ASSUME ended PROVE \A i \in history.stayed : history.shown[i] # 0
    <3> SUFFICES ASSUME NEW i \in history.stayed PROVE history.shown[i] # 0
      OBVIOUS
    <3>1. i \in Id /\ i \in Stored
      BY <1>1 DEF CursorSet, Wanted, Pages, Requests
    <3>2. history.pages * limit >= Cardinality(Stored) /\ history.pages * limit \in Nat
      BY <1>1, <2>2 DEF Numbered
    <3>3. Place(i) < Cardinality(Stored) /\ Place(i) \in Nat /\ Cardinality(Stored) \in Nat
      <4>1. Stored \in SUBSET Id /\ time \in [Id -> Nat]
        BY DEF ScrollTyped
      <4>2. Place(i) = Rank(ByPlacePairs, Stored, i)
        BY <3>1, PlaceIsRank
      <4>3. Rank(ByPlacePairs, Stored, i) \in 0 .. Cardinality(Stored) - 1
        BY <3>1, <4>1, Orders, RankRange
      <4>4. Cardinality(Stored) \in Nat
        BY <4>1, EntriesFinite
      <4> QED BY <4>2, <4>3, <4>4
    <3>4. Place(i) < history.pages * limit
      <4>1. PICK x \in Nat : x = history.pages * limit
        BY <3>2
      <4> QED BY <3>2, <3>3, <4>1
    <3> QED BY <3>1, <3>4 DEF Numbered
  <2> QED BY <2>1, <2>2 DEF Lost
<1>11. Crowded \/ history.pages <= Cardinality(Id) + 1
  <2>1. IsFiniteSet(Id) /\ Cardinality(Id) \in Nat
    BY EntriesFinite
  <2>2. Stops \in SUBSET Id
    BY DEF ScrollTyped, Stops
  <2>3. PICK n \in Nat : n = Cardinality(Stops)
    BY <2>2, EntriesFinite
  <2>4. n <= Cardinality(Id)
    BY <2>1, <2>2, <2>3, FS_Subset
  <2>5. CASE kind \in Pages
    BY <1>1, <2>1, <2>5 DEF Advances
  <2>6. CASE kind \notin Pages
    BY <1>1, <2>1, <2>3, <2>4, <2>6 DEF Advances
  <2> QED BY <2>5, <2>6
<1>12. ended /\ told # Nothing /\ history.changes = 0 =>
         told = Cardinality({i \in Id : history.shown[i] > 0})
  <2> SUFFICES ASSUME ended, told # Nothing, history.changes = 0 PROVE told = Cardinality(Shown)
    BY DEF Shown
  <2>1. kind \in CountedKinds
    BY DEF CountKept
  <2>2. history.stayed = Wanted /\ Shown \subseteq Wanted /\ told = Cardinality(Wanted)
        /\ (kind = "mutualFriends" => history.drops = 0)
    BY <1>1, <2>1 DEF CountKept, NotStarted
  <2>3. Lost = {}
    <3>1. CASE kind = "mutualFriends"
      <4>1. Lost \in SUBSET Id
        BY <1>1 DEF Lost
      <4>2. IsFiniteSet(Lost) /\ Cardinality(Lost) \in Nat /\ Cardinality(Lost) <= 0
        BY <1>7, <2>2, <3>1, <4>1, EntriesFinite
      <4>3. Cardinality(Lost) = 0
        BY <4>2
      <4> QED BY <4>2, <4>3, FS_EmptySet
    <3>2. CASE kind # "mutualFriends"
      BY <1>4, <2>1, <3>2 DEF CountedKinds, Requests
    <3> QED BY <3>1, <3>2
  <2>4. Wanted \subseteq Shown
    BY <1>1, <2>2, <2>3 DEF Lost, Shown
  <2> QED BY <2>2, <2>4
<1>13. kind = "notifications" =>
         \A i \in Tagged("read") : \E j \in Id : j >= i /\ history.shown[j] > 0
  BY DEF ReadIsShown, Shown
<1>14. kind \in {"notifications", "posts", "hashtag", "comments", "mutualFriends", "feed", "userSearch"}
         => Twice = {}
  BY <1>8 DEF Pages, Requests
<1> QED BY <1>4, <1>5, <1>6, <1>7, <1>9, <1>10, <1>11, <1>12, <1>13, <1>14 DEF ScrollShowsAll, Posts

\* Whoever scrolls any of the lists to its end has been shown what was listed
\* all the while, and once, but for what the cursors of the code leave out.
THEOREM TheScrollShowsAll == ScrollSpec => []ScrollShowsAll
BY ScrollInvariant, ScrolledToTheEnd, PTL
=============================================================================
