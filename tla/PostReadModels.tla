--------------------------- MODULE PostReadModels ---------------------------
(***************************************************************************)
(* What is made of a post outside writer-service:                           *)
(*  - elasticsearch-proxy keeps a document of it, which every page, search  *)
(*    and feed is filled from: PostCreatedEventConsumer upserts it (reads   *)
(*    updatedAt, then writes), PostDeletedEventConsumer deletes it;         *)
(*  - feed-service adds a judged post to the timelines of the author's      *)
(*    friends, in MongoDB (a write nobody awaits) and in a redis cache, and *)
(*    takes it off the database again when it is deleted.                   *)
(*                                                                          *)
(* The two topics are read by different consumers, and have no order in     *)
(* themselves.  How a post is judged is the subject of Moderation; here a   *)
(* verdict just comes, perhaps twice.  The friends of an author are written *)
(* together, so timelines are sets of posts.  updatedAt counts the changes. *)
(***************************************************************************)
EXTENDS Naturals, FiniteSets

CONSTANTS
  Post,
  MaxVerdicts,   \* bound: verdicts of a post
  MaxFaults      \* bound: restarts and failing calls

ASSUME ReadModelsAssumption == {MaxVerdicts, MaxFaults} \subseteq Nat

VARIABLES
  row,         \* writer-service: the post, with status and updatedAt
  born,        \* posts ever created
  hot,         \* posts of authors with too many friends to write to
  topic,       \* per service: POST_CREATE_EVENTS_TOPIC not handled yet
  handled,     \* per service: and handled
  deletions,   \* per service: POST_DELETED not handled yet
  doc,         \* elasticsearch: the document of each post
  upsert,      \* progress of PostCreatedEventConsumer
  feedTask,    \* progress of PostModerationCompletedEventConsumer
  unwritten,   \* bulkUpsertTimelinePost calls on their way
  timeline,    \* feed-service: MongoDB
  cache,       \* feed-service: redis
  missed,      \* events that were lost, that Elasticsearch failed to take, or
               \* whose change an older event has overwritten
  acceptable,  \* posts that had a verdict other than "failed"
  faults

events == <<topic, handled, deletions>>
writer == <<row, born, hot, acceptable>>
index  == <<doc, upsert, missed>>
feed   == <<feedTask, unwritten, timeline, cache>>
vars == <<writer, events, index, feed, faults>>

Service == {"elasticsearch-proxy", "feed-service"}
Verdict == {"ok", "notAppropriate", "failed"}
Version == [status : Verdict \cup {"pending"}, updated : 1 .. MaxVerdicts + 1]
Event   == [post : Post, completed : BOOLEAN, version : Version]
None    == [status |-> "none", updated |-> 0]
Idle    == [pc |-> "idle"]

Init ==
  /\ row = [p \in Post |-> None]
  /\ born = {} /\ acceptable = {} /\ hot \in SUBSET Post
  /\ topic     = [s \in Service |-> {}]
  /\ handled   = [s \in Service |-> {}]
  /\ deletions = [s \in Service |-> {}]
  /\ doc = [p \in Post |-> None]
  /\ upsert = Idle /\ feedTask = Idle /\ missed = {}
  /\ unwritten = {} /\ timeline = {} /\ cache = {}
  /\ faults = 0

Fault == faults < MaxFaults /\ faults' = faults + 1

\* Without an ack the row stays changed; what matters then is a lost event.
Send(e) ==
  \/ /\ topic' = [s \in Service |-> topic[s] \cup {e}]
     /\ UNCHANGED <<missed, faults>>
  \/ /\ Fault
     /\ missed' = missed \cup {e}
     /\ UNCHANGED topic

Handle(s, e) ==
  /\ topic'   = [topic EXCEPT ![s] = @ \ {e}]
  /\ handled' = [handled EXCEPT ![s] = @ \cup {e}]

----------------------------------------------------------------------------
(* writer-service                                                           *)

CreatePost(p) ==
  /\ p \notin born
  /\ born' = born \cup {p}
  /\ LET version == [status |-> "pending", updated |-> 1]
     IN  /\ row' = [row EXCEPT ![p] = version]
         /\ Send([post |-> p, completed |-> FALSE, version |-> version])
  /\ UNCHANGED <<hot, acceptable, handled, deletions, doc, upsert, feed>>

SetModeration(p, verdict) ==
  /\ row[p] # None
  /\ row[p].updated <= MaxVerdicts
  /\ LET version == [status |-> verdict, updated |-> row[p].updated + 1]
     IN  /\ row' = [row EXCEPT ![p] = version]
         /\ Send([post |-> p, completed |-> TRUE, version |-> version])
  /\ acceptable' = acceptable \cup IF verdict = "failed" THEN {} ELSE {p}
  /\ UNCHANGED <<born, hot, handled, deletions, doc, upsert, feed>>

DeletePost(p) ==
  /\ row[p] # None
  /\ row' = [row EXCEPT ![p] = None]
  /\ \/ deletions' = [s \in Service |-> deletions[s] \cup {p}] /\ UNCHANGED faults
     \/ Fault /\ UNCHANGED deletions
  /\ UNCHANGED <<born, hot, acceptable, topic, handled, index, feed>>

----------------------------------------------------------------------------
(* elasticsearch-proxy                                                      *)

\* getUpdatedAt takes every error response for "no document": the comparison of
\* its status with 404 is an expression without effect.
UpsertReads(e) ==
  /\ upsert = Idle
  /\ e \in topic["elasticsearch-proxy"]
  /\ \E unread \in BOOLEAN :
       /\ IF unread THEN Fault ELSE UNCHANGED faults
       /\ upsert' = [pc |-> "write", event |-> e, unread |-> unread,
                     found |-> IF unread THEN 0 ELSE doc[e.post].updated]
  /\ UNCHANGED <<writer, events, doc, missed, feed>>

NewerNever(e, found) == FALSE    \* slip: as for comments, what exists is kept
NewerAlways(e, found) == TRUE    \* slip: the events are taken to come in order
Newer(e, found) == e.version.updated > found

\* create, over whatever is there, or replace, or nothing: an update of a document
\* that is gone fails.
Upserted(e, found) ==
  CASE found = 0                                  -> e.version
    [] found # 0 /\ Newer(e, found)
         /\ doc[e.post] # None                    -> e.version
    [] OTHER                                      -> doc[e.post]

\* What is newer than e, and was handled already.
Overwritten(e) ==
  {d \in handled["elasticsearch-proxy"] :
     d.post = e.post /\ d.version.updated > e.version.updated}

UpsertWrites ==
  /\ upsert.pc = "write"
  /\ doc' = [doc EXCEPT ![upsert.event.post] = Upserted(upsert.event, upsert.found)]
  /\ Handle("elasticsearch-proxy", upsert.event)
  /\ upsert' = Idle
  /\ missed' = missed \cup IF upsert.unread THEN Overwritten(upsert.event) ELSE {}
  /\ UNCHANGED <<writer, deletions, feed, faults>>

\* The read or the write ends in another error: a log entry.
UpsertFails ==
  /\ upsert.pc = "write"
  /\ Fault
  /\ Handle("elasticsearch-proxy", upsert.event)
  /\ upsert' = Idle
  /\ missed' = missed \cup {upsert.event}
  /\ UNCHANGED <<writer, deletions, doc, feed>>

HandleDeletion(s, p) == deletions' = [deletions EXCEPT ![s] = @ \ {p}]

DeleteDocument(p) ==
  /\ p \in deletions["elasticsearch-proxy"]
  /\ doc' = [doc EXCEPT ![p] = None]
  /\ HandleDeletion("elasticsearch-proxy", p)
  /\ UNCHANGED <<writer, topic, handled, upsert, missed, feed, faults>>

----------------------------------------------------------------------------
(* feed-service                                                             *)

\* An attachment is always READY when its post is created, never "processing".
IsForFeed(e) == e.completed /\ e.version.status # "failed"

\* A hot author's posts are not written to the timelines.
FeedTakes(e) ==
  /\ feedTask = Idle
  /\ e \in topic["feed-service"]
  /\ IF IsForFeed(e) /\ e.post \notin hot
     THEN feedTask' = [pc |-> "append", event |-> e] /\ UNCHANGED <<topic, handled>>
     ELSE Handle("feed-service", e) /\ UNCHANGED feedTask
  /\ UNCHANGED <<writer, deletions, index, unwritten, timeline, cache, faults>>

AppendPostSkipped ==   \* slip: the upsert is not called
  /\ feedTask.pc = "append"
  /\ feedTask' = [feedTask EXCEPT !.pc = "cache"]
  /\ UNCHANGED <<writer, events, index, unwritten, timeline, cache, faults>>
\* appendPostToMultipleUserFeed returns before the write is done.
AppendPost ==
  /\ feedTask.pc = "append"
  /\ feedTask' = [feedTask EXCEPT !.pc = "cache"]
  /\ unwritten' = unwritten \cup {feedTask.event.post}
  /\ UNCHANGED <<writer, events, index, timeline, cache, faults>>

BulkUpsert(p) ==
  /\ p \in unwritten
  /\ unwritten' = unwritten \ {p}
  /\ timeline'  = timeline \cup {p}
  /\ UNCHANGED <<writer, events, index, feedTask, cache, faults>>

\* upsetPostToMultipleUserFeed.
CachePost ==
  /\ feedTask.pc = "cache"
  /\ cache' = cache \cup {feedTask.event.post}
  /\ Handle("feed-service", feedTask.event)
  /\ feedTask' = Idle
  /\ UNCHANGED <<writer, deletions, index, unwritten, timeline, faults>>

\* user-service (whose friends?) or redis does not answer: a log entry.
FeedCallFails ==
  /\ feedTask # Idle
  /\ Fault
  /\ Handle("feed-service", feedTask.event)
  /\ feedTask' = Idle
  /\ UNCHANGED <<writer, deletions, index, unwritten, timeline, cache>>

DeleteFromTimelines(p) ==
  /\ p \in deletions["feed-service"]
  /\ timeline' = timeline \ {p}
  /\ HandleDeletion("feed-service", p)
  /\ UNCHANGED <<writer, topic, handled, index, feedTask, unwritten, cache, faults>>

\* The database does not answer: a log entry, in either service.
DeletionFails(s, p) ==
  /\ p \in deletions[s]
  /\ Fault
  /\ HandleDeletion(s, p)
  /\ UNCHANGED <<writer, topic, handled, index, feed>>

AddPostsToUserFeed == cache' = cache \cup timeline

\* The first page, not served from the cache in full: recent posts are cached.
GetTimeline ==
  /\ AddPostsToUserFeed
  /\ UNCHANGED <<writer, events, index, feedTask, unwritten, timeline, faults>>

----------------------------------------------------------------------------
\* A service restarts: some of what it handled is delivered to it again.
Redeliver(s) ==
  \E again \in SUBSET handled[s] :
    /\ topic'   = [topic EXCEPT ![s] = @ \cup again]
    /\ handled' = [handled EXCEPT ![s] = @ \ again]
    /\ \E deleted \in SUBSET {p \in born : row[p] = None} :
         deletions' = [deletions EXCEPT ![s] = @ \cup deleted]

ProxyRestarts ==
  /\ Fault
  /\ Redeliver("elasticsearch-proxy")
  /\ upsert' = Idle
  /\ UNCHANGED <<writer, doc, missed, feed>>

\* Also when a bulk upsert fails: no one handles the rejection.
FeedRestarts ==
  /\ Fault
  /\ Redeliver("feed-service")
  /\ feedTask' = Idle
  /\ unwritten' = {}
  /\ UNCHANGED <<writer, index, timeline, cache>>

ProxyStep ==
  \/ \E e \in topic["elasticsearch-proxy"] : UpsertReads(e)
  \/ UpsertWrites

FeedStep ==
  \/ \E e \in topic["feed-service"] : FeedTakes(e)
  \/ AppendPost \/ CachePost

Next ==
  \/ \E p \in Post : CreatePost(p) \/ DeletePost(p)
  \/ \E p \in Post, verdict \in Verdict : SetModeration(p, verdict)
  \/ ProxyStep \/ FeedStep
  \/ \E p \in Post : DeleteDocument(p) \/ DeleteFromTimelines(p) \/ BulkUpsert(p)
  \/ GetTimeline
  \/ \E p \in Post, s \in Service : DeletionFails(s, p)
  \/ UpsertFails \/ FeedCallFails \/ ProxyRestarts \/ FeedRestarts

Spec == Init /\ [][Next]_vars

----------------------------------------------------------------------------

\* Whatever the order and repetition of its events, the document of a post that
\* exists is of its last change, as soon as all of them were handled and none
\* was lost, or overwritten after a failed read.
Settled(p) ==
  /\ \A e \in topic["elasticsearch-proxy"] \cup missed : e.post # p
  /\ upsert # Idle => upsert.event.post # p
IndexAgrees ==
  \A p \in Post : row[p] # None /\ Settled(p) => doc[p] = row[p]

\* Post.services.ts:19 (if events are retried): a document that exists goes back to
\* an older version of its post only by a write whose own read failed, never
\* because of what came late or twice.
NotOlder(p) == doc[p] # None /\ doc'[p] # None => doc'[p].updated >= doc[p].updated
Blind(p) == upsert # Idle /\ upsert.unread /\ upsert.event.post = p
IndexNeverBack == [][\A p \in Post : Blind(p) \/ NotOlder(p)]_vars

\* No timeline has a post that was never judged, or only failed to be; and if
\* nothing fails, a post that was judged and not deleted is in the friends'
\* timelines and in their cache, although nobody waits for the former.
FeedIsComplete ==
  /\ cache \cup timeline \cup unwritten \subseteq acceptable
  /\ faults = 0 =>
       \A p \in acceptable \ hot :
         \/ row[p] = None
         \/ \E e \in topic["feed-service"] : e.post = p /\ IsForFeed(e)
         \/ p \in cache /\ p \in timeline \cup unwritten
==============================================================================
