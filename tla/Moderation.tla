----------------------------- MODULE Moderation -----------------------------
(***************************************************************************)
(* The moderation of posts, from POST_CREATED to the post's                 *)
(* moderationStatus, over two services, Kafka and RabbitMQ:                 *)
(*  - main process of moderation-service, PostCreatedEventConsumer: puts    *)
(*    each created post in the durable queue MODERATE_MEDIA, or reports     *)
(*    that it cannot;                                                       *)
(*  - its child process, RabbitMQPostMediaModerationWorker: one job at a    *)
(*    time is moderated, reported, and acknowledged;                        *)
(*  - writer-service, PostModeratedEventConsumer: stores the result and     *)
(*    announces it.                                                         *)
(*                                                                          *)
(* In the child process addToQueue always answers { ack: false }: only      *)
(* main.ts connects the queue publisher.  So a job is never put back with a *)
(* higher version, it is returned (nack) and comes again with the           *)
(* redelivered flag.  Neither process recovers from a lost connection to    *)
(* RabbitMQ: connect() is called again, but the channel it had is kept, and *)
(* nothing consumes.  Events of one topic have no order.                    *)
(***************************************************************************)
EXTENDS Naturals, FiniteSets

CONSTANTS
  Post,
  MaxFaults      \* bound: crashes, lost connections, failing calls

ASSUME ModerationAssumption == MaxFaults \in Nat

VARIABLES
  media,      \* what is attached to each post; "explicit" will be flagged
  status,     \* writer-service: moderationStatus, "deleted" without a row
  announced,  \* status in the last POST_MODERATION_COMPLETED
  inbox,      \* POST_CREATED not yet handed to the main process
  passed,     \* handed to it, without committing their offsets
  main,       \* progress of the main process
  link,       \* its publisher channel works
  queue,      \* MODERATE_MEDIA: jobs, with their redelivered flag
  worker,     \* progress of the child process
  consuming,  \* the child process has a consumer at the queue
  verdicts,   \* POST_MODERATED not yet handled by writer-service
  handled,    \* POST_MODERATED it has handled
  writer,     \* progress of PostModeratedEventConsumer
  faults,
  attempts,   \* per post, how often the child process took it up
  offloads,   \* per post, how often it was put in the queue
  cutShort,   \* per post, how often an attempt lost its hold on the job
  gaveUp,     \* posts the main process reported itself
  silenced    \* an event or a dropped job's report may have been lost

queues   == <<inbox, passed, queue>>
progress == <<main, link, worker, consuming>>
results  == <<status, announced, verdicts, handled, writer>>
counts   == <<attempts, offloads, cutShort>>
vars == <<media, results, queues, progress, faults, counts, gaveUp, silenced>>

Media  == {"none", "clean", "explicit", "unsupported"}
Result == {"ok", "notAppropriate", "failed"}
Job    == Post \X BOOLEAN
Idle   == [pc |-> "idle"]

----------------------------------------------------------------------------
Init ==
  /\ media \in [Post -> Media]
  /\ status    = [p \in Post |-> "none"]
  /\ announced = [p \in Post |-> "none"]
  /\ inbox = {} /\ passed = {}
  /\ queue = [j \in Job |-> 0]
  /\ main = Idle /\ worker = Idle /\ writer = Idle
  /\ link = TRUE /\ consuming = TRUE
  /\ verdicts = {} /\ handled = {}
  /\ faults = 0
  /\ attempts = [p \in Post |-> 0]
  /\ offloads = [p \in Post |-> 0]
  /\ cutShort = [p \in Post |-> 0]
  /\ gaveUp = {} /\ silenced = FALSE

Fault == faults < MaxFaults /\ faults' = faults + 1

----------------------------------------------------------------------------
(* The author                                                               *)

CreatePost(p) ==
  /\ status[p] = "none"
  /\ status' = [status EXCEPT ![p] = "pending"]
  /\ inbox' = inbox \cup {p}
  /\ UNCHANGED <<media, announced, passed, queue, progress, verdicts, handled,
                 writer, faults, counts, gaveUp, silenced>>

\* No ack: a log entry, the author sees a post.
CreateGetsNoAck(p, sent) ==
  /\ status[p] = "none"
  /\ Fault
  /\ status' = [status EXCEPT ![p] = "pending"]
  /\ inbox' = inbox \cup IF sent THEN {p} ELSE {}
  /\ silenced' = TRUE
  /\ UNCHANGED <<media, announced, passed, queue, progress, verdicts, handled,
                 writer, counts, gaveUp>>

DeletePost(p) ==
  /\ status[p] \notin {"none", "deleted"}
  /\ status' = [status EXCEPT ![p] = "deleted"]
  /\ UNCHANGED <<media, announced, queues, progress, verdicts, handled, writer,
                 faults, counts, gaveUp, silenced>>

----------------------------------------------------------------------------
(* PostCreatedEventConsumer                                                 *)

MainTakes(p) ==
  /\ main = Idle
  /\ p \in inbox
  /\ inbox' = inbox \ {p}
  /\ main' = [pc |-> "offload", post |-> p]
  /\ UNCHANGED <<media, results, passed, queue, link, worker, consuming, faults,
                 counts, gaveUp, silenced>>

\* sendToQueue; its confirmation is still to come.
Offload ==
  /\ main.pc = "offload"
  /\ link
  /\ queue' = [queue EXCEPT ![<<main.post, FALSE>>] = @ + 1]
  /\ offloads' = [offloads EXCEPT ![main.post] = @ + 1]
  /\ main' = [main EXCEPT !.pc = "confirm"]
  /\ UNCHANGED <<media, results, inbox, passed, link, worker, consuming, faults,
                 attempts, cutShort, gaveUp, silenced>>

MainReturns(newlyPassed) ==
  /\ main' = Idle
  /\ passed' = passed \cup newlyPassed
  /\ UNCHANGED <<media, inbox, queue, link, worker, consuming, counts>>

Offloaded ==
  /\ main.pc = "confirm"
  /\ link
  /\ main' = [main EXCEPT !.pc = "commit"]
  /\ UNCHANGED <<media, results, queues, link, worker, consuming, faults, counts,
                 gaveUp, silenced>>

Commit ==
  /\ main.pc = "commit"
  /\ MainReturns({})
  /\ UNCHANGED <<results, faults, gaveUp, silenced>>

GiveUpSilently ==   \* slip: no report
  /\ gaveUp' = gaveUp \cup {main.post}
  /\ main' = Idle
  /\ UNCHANGED <<media, results, queues, link, worker, consuming, counts, silenced>>

\* Three attempts on a closed channel, or a failing commit.
GiveUp ==
  /\ gaveUp' = gaveUp \cup {main.post}
  /\ main' = [main EXCEPT !.pc = "report"]
  /\ UNCHANGED <<media, results, queues, link, worker, consuming, counts, silenced>>

OffloadGivesUp ==
  /\ main.pc \in {"offload", "confirm"}
  /\ ~link
  /\ GiveUp
  /\ UNCHANGED faults

CommitFails ==
  /\ main.pc = "commit"
  /\ Fault
  /\ GiveUp

----------------------------------------------------------------------------
(* POST_MODERATED                                                           *)

Sent(p, result) ==
  LET n == Cardinality({e \in verdicts \cup handled : e.post = p}) + 1
  IN  {[post |-> p, result |-> result, n |-> n]}

\* send resolves to { ack: true }.
Publish(p, result) ==
  /\ verdicts' = verdicts \cup Sent(p, result)
  /\ UNCHANGED <<status, announced, handled, writer>>

\* send resolves to { ack: false }: the event may be in the topic, or not.
PublishGetsNoAck(p, result) ==
  /\ Fault
  /\ \E events \in {{}, Sent(p, result)} : verdicts' = verdicts \cup events
  /\ UNCHANGED <<status, announced, handled, writer>>

\* The offset is not committed: that is what the catch block does.
MainReports ==
  /\ main.pc = "report"
  /\ Publish(main.post, "failed")
  /\ MainReturns({main.post})
  /\ UNCHANGED <<faults, gaveUp, silenced>>

MainReportGetsNoAck ==
  /\ main.pc = "report"
  /\ PublishGetsNoAck(main.post, "failed")
  /\ MainReturns({})
  /\ silenced' = TRUE
  /\ UNCHANGED gaveUp

----------------------------------------------------------------------------
(* RabbitMQPostMediaModerationWorker                                        *)

WorkerTakes(p, redelivered) ==
  /\ consuming
  /\ worker = Idle
  /\ queue[<<p, redelivered>>] > 0
  /\ queue' = [queue EXCEPT ![<<p, redelivered>>] = @ - 1]
  /\ attempts' = [attempts EXCEPT ![p] = @ + 1]
  /\ worker' = [pc |-> "moderate", post |-> p, redelivered |-> redelivered,
                held |-> TRUE, result |-> "failed"]
  /\ UNCHANGED <<media, results, inbox, passed, main, link, consuming, faults,
                 offloads, cutShort, gaveUp, silenced>>

WorkerStays == UNCHANGED <<media, inbox, passed, main, link, gaveUp>>

Verdict(p) == IF media[p] = "explicit" THEN "notAppropriate" ELSE "ok"

\* Nothing attached, or ModeratePostMedia.execute succeeds.
Judge ==
  /\ worker.pc = "moderate"
  /\ media[worker.post] # "unsupported"
  /\ worker' = [worker EXCEPT !.pc = "publish", !.result = Verdict(worker.post)]
  /\ WorkerStays
  /\ UNCHANGED <<results, queue, consuming, faults, counts, silenced>>

NeverGivesUp(redelivered) == FALSE    \* slip: the redelivered flag is not looked at
GivesUp(redelivered) == redelivered

\* The job is dropped or returned.  On a channel that is closed neither works
\* and the call throws: the job has gone back to the queue already.
RejectWithoutReport(reportPc) ==   \* slip: return before the report
  /\ worker' = Idle
  /\ queue' = IF worker.held /\ ~GivesUp(worker.redelivered)
              THEN [queue EXCEPT ![<<worker.post, TRUE>>] = @ + 1] ELSE queue
Reject(reportPc) ==
  \/ /\ worker.held /\ GivesUp(worker.redelivered)
     /\ worker' = [worker EXCEPT !.pc = reportPc, !.held = FALSE]
     /\ UNCHANGED queue
  \/ /\ worker.held /\ ~GivesUp(worker.redelivered)
     /\ worker' = Idle
     /\ queue' = [queue EXCEPT ![<<worker.post, TRUE>>] = @ + 1]
  \/ /\ ~worker.held
     /\ worker' = Idle
     /\ UNCHANGED queue

\* execute answers { success: false }.
Unsupported ==
  /\ worker.pc = "moderate"
  /\ media[worker.post] = "unsupported"
  /\ Reject("report")
  /\ WorkerStays
  /\ UNCHANGED <<results, consuming, faults, counts, silenced>>

\* The download fails, or no classification comes out, or something throws.
AttemptFails ==
  /\ worker.pc = "moderate"
  /\ media[worker.post] \in {"clean", "explicit"}
  /\ Fault
  /\ Reject("report") \/ Reject("last report")
  /\ WorkerStays
  /\ UNCHANGED <<results, consuming, counts, silenced>>

WorkerPublishes ==
  /\ worker.pc = "publish"
  /\ Publish(worker.post, worker.result)
  /\ worker' = [worker EXCEPT !.pc = "ack"]
  /\ WorkerStays
  /\ UNCHANGED <<queue, consuming, faults, counts, silenced>>

WorkerGetsNoAck ==
  /\ worker.pc = "publish"
  /\ PublishGetsNoAck(worker.post, worker.result)
  /\ Reject("last report")
  /\ WorkerStays
  /\ UNCHANGED <<consuming, counts, silenced>>

\* ack: the job leaves the queue, if the channel is still open.
WorkerAcks ==
  /\ worker.pc = "ack"
  /\ worker' = Idle
  /\ WorkerStays
  /\ UNCHANGED <<results, queue, consuming, faults, counts, silenced>>

WorkerReports ==
  /\ worker.pc \in {"report", "last report"}
  /\ Publish(worker.post, "failed")
  /\ worker' = Idle
  /\ WorkerStays
  /\ UNCHANGED <<queue, consuming, faults, counts, silenced>>

\* After "report" the catch block rejects the job a second time, for which
\* RabbitMQ closes the channel, and tries once more to report.
WorkerReportGetsNoAck ==
  /\ worker.pc \in {"report", "last report"}
  /\ PublishGetsNoAck(worker.post, "failed")
  /\ IF worker.pc = "report"
     THEN /\ worker' = [worker EXCEPT !.pc = "last report"]
          /\ consuming' = FALSE
     ELSE worker' = Idle /\ UNCHANGED consuming
  /\ silenced' = TRUE
  /\ WorkerStays
  /\ UNCHANGED <<queue, counts>>

----------------------------------------------------------------------------
(* PostModeratedEventConsumer of writer-service                             *)

WriterStays == UNCHANGED <<media, queues, progress, counts, gaveUp>>

\* setModeration: a post that is gone is skipped.
WriterStores(e) ==
  /\ writer = Idle
  /\ e \in verdicts
  /\ IF status[e.post] = "deleted"
     THEN /\ verdicts' = verdicts \ {e}
          /\ handled' = handled \cup {e}
          /\ UNCHANGED <<status, writer>>
     ELSE /\ status' = [status EXCEPT ![e.post] = e.result]
          /\ writer' = [pc |-> "announce", event |-> e]
          /\ UNCHANGED <<verdicts, handled>>
  /\ WriterStays
  /\ UNCHANGED <<announced, faults, silenced>>

WriterReturns(e) ==
  /\ verdicts' = verdicts \ {e}
  /\ handled'  = handled \cup {e}
  /\ writer' = Idle
  /\ WriterStays

WriterAnnounces ==
  /\ writer.pc = "announce"
  /\ announced' = [announced EXCEPT ![writer.event.post] = writer.event.result]
  /\ WriterReturns(writer.event)
  /\ UNCHANGED <<status, faults, silenced>>

\* Without an ack (the event may be in the topic, or not) the handler throws
\* and logs, and the offset is passed.
WriterGetsNoAck ==
  /\ writer.pc = "announce"
  /\ Fault
  /\ announced' \in
       {announced, [announced EXCEPT ![writer.event.post] = writer.event.result]}
  /\ WriterReturns(writer.event)
  /\ UNCHANGED <<status, silenced>>

WriterFails(e) ==
  /\ writer = Idle
  /\ e \in verdicts
  /\ Fault
  /\ WriterReturns(e)
  /\ silenced' = TRUE
  /\ UNCHANGED <<status, announced>>

----------------------------------------------------------------------------
(* Crashes and lost connections                                             *)

\* An unacknowledged job goes back to its queue, marked as redelivered.
JobReturns ==
  IF worker # Idle /\ worker.held
  THEN /\ queue' = [queue EXCEPT ![<<worker.post, TRUE>>] = @ + 1]
       /\ cutShort' = [cutShort EXCEPT ![worker.post] = @ + 1]
  ELSE UNCHANGED <<queue, cutShort>>

Reporting == worker.pc \in {"report", "last report"}

MainLosesLink ==
  /\ Fault
  /\ link
  /\ link' = FALSE
  /\ UNCHANGED <<media, results, queues, main, worker, consuming, counts,
                 gaveUp, silenced>>

WorkerLosesLink ==
  /\ Fault
  /\ consuming
  /\ consuming' = FALSE
  /\ JobReturns
  /\ worker' = IF worker = Idle THEN Idle ELSE [worker EXCEPT !.held = FALSE]
  /\ UNCHANGED <<media, results, inbox, passed, main, link, attempts, offloads,
                 gaveUp, silenced>>

\* Whether main.ts starts another child depends on how this one ended.
ChildDies(restarted) ==
  /\ Fault
  /\ JobReturns
  /\ worker' = Idle
  /\ consuming' = restarted
  /\ silenced' = (silenced \/ Reporting)
  /\ UNCHANGED <<media, results, inbox, passed, main, link, attempts, offloads,
                 gaveUp>>

\* moderation-service restarts: of what was passed without a commit, that is
\* delivered again which no later commit has covered.
PodRestarts ==
  /\ Fault
  /\ \E again \in SUBSET passed :
       /\ inbox'  = inbox \cup again \cup IF main = Idle THEN {} ELSE {main.post}
       /\ passed' = passed \ again
  /\ main' = Idle /\ worker' = Idle
  /\ link' = TRUE /\ consuming' = TRUE
  /\ JobReturns
  /\ silenced' = (silenced \/ Reporting)
  /\ UNCHANGED <<media, results, attempts, offloads, gaveUp>>

\* writer-service restarts, and kafkajs had not committed all it resolved.
WriterRestarts ==
  /\ Fault
  /\ writer' = Idle
  /\ \E again \in SUBSET handled :
       /\ verdicts' = verdicts \cup again
       /\ handled'  = handled \ again
  /\ WriterStays
  /\ UNCHANGED <<status, announced, silenced>>

----------------------------------------------------------------------------
MainStep ==
  \/ \E p \in Post : MainTakes(p)
  \/ Offload \/ Offloaded \/ Commit \/ OffloadGivesUp \/ MainReports

WorkerStep ==
  \/ \E p \in Post, redelivered \in BOOLEAN : WorkerTakes(p, redelivered)
  \/ Judge \/ Unsupported \/ WorkerPublishes \/ WorkerAcks \/ WorkerReports

WriterStep == (\E e \in verdicts : WriterStores(e)) \/ WriterAnnounces

Failure ==
  \/ \E p \in Post, sent \in BOOLEAN : CreateGetsNoAck(p, sent)
  \/ CommitFails \/ MainReportGetsNoAck
  \/ AttemptFails \/ WorkerGetsNoAck \/ WorkerReportGetsNoAck
  \/ WriterGetsNoAck \/ \E e \in verdicts : WriterFails(e)
  \/ MainLosesLink \/ WorkerLosesLink
  \/ \E restarted \in BOOLEAN : ChildDies(restarted)
  \/ PodRestarts \/ WriterRestarts

Next ==
  \/ \E p \in Post : CreatePost(p) \/ DeletePost(p)
  \/ MainStep \/ WorkerStep \/ WriterStep
  \/ Failure

\* kafkajs and amqplib keep delivering, and calls return; authors and failures
\* are free.
Spec     == Init /\ [][Next]_vars
FairSpec == Spec /\ WF_vars(MainStep) /\ WF_vars(WorkerStep) /\ WF_vars(WriterStep)

----------------------------------------------------------------------------
Event == [post : Post, result : Result, n : Nat \ {0}]

\* Between the two brokers, both processes and their restarts nobody forgets a
\* post: one that is pending is in some topic, queue or hand, unless a publish
\* went without an ack, a store failed, or a process died with a dropped job.
Waiting(p) ==
  \/ p \in inbox
  \/ main # Idle /\ main.post = p
  \/ worker # Idle /\ worker.post = p
  \/ \E redelivered \in BOOLEAN : queue[<<p, redelivered>>] > 0
  \/ \E e \in verdicts : e.post = p
PendingIsWaiting == \A p \in Post : status[p] = "pending" => silenced \/ Waiting(p)

\* ModerateMediaWorker.ts:180 (what if there is something wrong with the event;
\* add this as a retry not first try): a post fails only if it was attempted
\* twice, or the main process gave it up; and no job goes round for ever: two
\* attempts each time it is queued, and one more for each that a crash or a
\* lost connection cut short.
FailedIsRetried ==
  \A p \in Post :
    /\ status[p] = "failed" => attempts[p] >= 2 \/ p \in gaveUp
    /\ attempts[p] <= 2 * offloads[p] + cutShort[p]

\* A pending post does not stay so, whatever fails in the other ways.
PostsAreJudged ==
  \A p \in Post : status[p] = "pending" ~> (status[p] # "pending" \/ silenced \/ ~consuming)
==============================================================================
