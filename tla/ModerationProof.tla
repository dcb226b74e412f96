--------------------------- MODULE ModerationProof ---------------------------
(***************************************************************************)
(* Proofs about Moderation, for any posts, attachments and number of        *)
(* faults: between two brokers and three processes that may each stop, no   *)
(* pending post is forgotten, none fails at its first attempt and no job    *)
(* goes round for ever.                                                     *)
(***************************************************************************)
EXTENDS Moderation, Integers, TLAPS

Reports == {"report", "last report"}
Verdicts == verdicts \cup handled

StoreTypes ==
  /\ media \in [Post -> Media]
  /\ status \in [Post -> Result \cup {"none", "pending", "deleted"}]
  /\ inbox \in SUBSET Post /\ passed \in SUBSET Post
  /\ link \in BOOLEAN /\ consuming \in BOOLEAN /\ silenced \in BOOLEAN
QueueTypes ==
  /\ queue \in [Job -> Nat]
  /\ attempts \in [Post -> Nat] /\ offloads \in [Post -> Nat] /\ cutShort \in [Post -> Nat]
IsEvent(e) == e.post \in Post /\ e.result \in Result
EventTypes == \A e \in Verdicts : IsEvent(e)
MainTypes ==
  main = Idle \/ main \in [pc : {"offload", "confirm", "commit", "report"}, post : Post]
WorkerTypes ==
  \/ worker = Idle
  \/ worker \in [pc : {"moderate", "publish", "ack", "report", "last report"}, post : Post,
                 redelivered : BOOLEAN, held : BOOLEAN, result : Result]
WriterTypes == writer = Idle \/ writer \in [pc : {"announce"}, event : verdicts]
Types == StoreTypes /\ QueueTypes /\ EventTypes /\ MainTypes /\ WorkerTypes /\ WriterTypes

\* Jobs of a post in the queue: never delivered, and come back.
Fresh(p) == queue[<<p, FALSE>>]
Back(p) == queue[<<p, TRUE>>]

\* Whatever is known of a post, it was created.
KnownPosts ==
  /\ \A p \in inbox \cup passed : status[p] # "none"
  /\ main # Idle => status[main.post] # "none"
KnownJobs ==
  /\ \A p \in Post : Fresh(p) > 0 \/ Back(p) > 0 => status[p] # "none"
  /\ worker # Idle => status[worker.post] # "none"
KnownEvents == \A e \in Verdicts : status[e.post] # "none"
Known == KnownPosts /\ KnownJobs /\ KnownEvents

\* A job the child process lost hold of without dropping it is in the queue.
Released ==
  \A p \in Post :
    worker # Idle /\ worker.post = p /\ ~ worker.held /\ worker.pc \notin Reports => Back(p) > 0

\* A post is past the main process: the queue, the child process, a verdict or
\* the database tells what becomes of it.
Queued(p) == Fresh(p) > 0 \/ Back(p) > 0
Told(p) == status[p] # "pending" \/ silenced \/ \E e \in verdicts : e.post = p
InWork(p) == Queued(p) \/ (worker # Idle /\ worker.post = p)
Offered(p) == Told(p) \/ InWork(p)

AckedIsTold == \A p \in Post : worker.pc = "ack" /\ worker.post = p => Told(p)
StoredIsTold == writer # Idle => status[writer.event.post] # "pending"
OffloadedIsOffered ==
  \A p \in Post : main.pc \in {"confirm", "commit"} /\ main.post = p => Offered(p)

AtMain(p) == p \in inbox \/ (main # Idle /\ main.post = p)
PendingIsKept == \A p \in Post : status[p] = "pending" => AtMain(p) \/ Offered(p)

WaitInv ==
  Types /\ Known /\ Released /\ AckedIsTold /\ StoredIsTold /\ OffloadedIsOffered
    /\ PendingIsKept

\* A failure is told after a second attempt, or by the main process.
MayFail(p) == attempts[p] >= 2 \/ p \in gaveUp
Attempted ==
  \A p \in Post :
    /\ Back(p) > 0 => attempts[p] >= 1
    /\ worker # Idle /\ worker.post = p =>
         /\ attempts[p] >= 1
         /\ worker.redelivered \/ worker.pc \in Reports => attempts[p] >= 2
NoFailure == worker.pc = "publish" => worker.result # "failed"
ReportIsDue == main.pc = "report" => main.post \in gaveUp
EventsMayFail == \A e \in Verdicts : e.result = "failed" => MayFail(e.post)
StatusMayFail == \A p \in Post : status[p] = "failed" => MayFail(p)
RetryInv == Attempted /\ NoFailure /\ ReportIsDue /\ EventsMayFail /\ StatusMayFail

\* Attempts made or still possible without another crash: two for a job in the
\* queue that was never delivered, one for any other, one more for the job held.
Held(p) == worker # Idle /\ worker.post = p /\ worker.held /\ ~ worker.redelivered
Spent(p) == attempts[p] + 2 * Fresh(p) + Back(p) + (IF Held(p) THEN 1 ELSE 0)
Granted(p) == 2 * offloads[p] + cutShort[p]
BudgetInv == \A p \in Post : Spent(p) <= Granted(p)

----------------------------------------------------------------------------
LEMMA IdlePc == Idle.pc = "idle"
BY DEF Idle

LEMMA JobOf == \A p \in Post, redelivered \in BOOLEAN : <<p, redelivered>> \in Job
BY DEF Job

LEMMA Counted ==
  ASSUME Types PROVE \A p \in Post : Fresh(p) \in Nat /\ Back(p) \in Nat
BY DEF Types, QueueTypes, Fresh, Back, Job

LEMMA SentIs ==
  ASSUME NEW p, NEW result, NEW e \in Sent(p, result)
  PROVE  e.post = p /\ e.result = result
BY DEF Sent

LEMMA SentOne ==
  ASSUME NEW p, NEW result PROVE \E e \in Sent(p, result) : e.post = p
BY DEF Sent

\* What the processes hold, as far as the steps below need it.
LEMMA Hands ==
  ASSUME Types
  PROVE  /\ main = Idle <=> main.pc = "idle"
         /\ main # Idle => main.post \in Post
         /\ worker = Idle <=> worker.pc = "idle"
         /\ worker # Idle => worker.post \in Post
         /\ writer = Idle <=> writer.pc = "idle"
         /\ writer # Idle => writer.event \in verdicts
BY IdlePc DEF Types, MainTypes, WorkerTypes, WriterTypes

LEMMA Verdicted == ASSUME NEW p PROVE Verdict(p) \in {"ok", "notAppropriate"}
BY DEF Verdict

\* One job more, or less, in the queue.
LEMMA SetInQueue ==
  ASSUME queue \in [Job -> Nat], NEW n \in Nat, NEW p \in Post,
         NEW b \in BOOLEAN, NEW c \in BOOLEAN, b # c,
         queue' = [queue EXCEPT ![<<p, b>>] = n]
  PROVE  /\ queue' \in [Job -> Nat]
         /\ queue'[<<p, b>>] = n
         /\ \A q \in Post : q # p => queue'[<<q, b>>] = queue[<<q, b>>]
         /\ \A q \in Post : queue'[<<q, c>>] = queue[<<q, c>>]
BY DEF Job

LEMMA PutBack ==
  ASSUME Types, NEW p \in Post,
         queue' = [queue EXCEPT ![<<p, TRUE>>] = @ + 1]
  PROVE  /\ queue' \in [Job -> Nat]
         /\ Back(p)' = Back(p) + 1 /\ Back(p)' > 0
         /\ \A q \in Post : q # p => Back(q)' = Back(q)
         /\ \A q \in Post : Fresh(q)' = Fresh(q)
<1>1. queue \in [Job -> Nat] /\ Back(p) \in Nat
  BY Counted DEF Types, QueueTypes
<1>2. queue' = [queue EXCEPT ![<<p, TRUE>>] = Back(p) + 1]
  BY Zenon DEF Back
<1>3. Back(p) + 1 \in Nat /\ Back(p) + 1 > 0 /\ TRUE # FALSE
  BY <1>1
<1>4. /\ queue' \in [Job -> Nat]
      /\ queue'[<<p, TRUE>>] = Back(p) + 1
      /\ \A q \in Post : q # p => queue'[<<q, TRUE>>] = queue[<<q, TRUE>>]
      /\ \A q \in Post : queue'[<<q, FALSE>>] = queue[<<q, FALSE>>]
  BY <1>1, <1>2, <1>3, SetInQueue
<1> QED
  BY <1>3, <1>4, Zenon DEF Back, Fresh

LEMMA PutFresh ==
  ASSUME Types, NEW p \in Post,
         queue' = [queue EXCEPT ![<<p, FALSE>>] = @ + 1]
  PROVE  /\ queue' \in [Job -> Nat]
         /\ Fresh(p)' = Fresh(p) + 1 /\ Fresh(p)' > 0
         /\ \A q \in Post : q # p => Fresh(q)' = Fresh(q)
         /\ \A q \in Post : Back(q)' = Back(q)
<1>1. queue \in [Job -> Nat] /\ Fresh(p) \in Nat
  BY Counted DEF Types, QueueTypes
<1>2. queue' = [queue EXCEPT ![<<p, FALSE>>] = Fresh(p) + 1]
  BY Zenon DEF Fresh
<1>3. Fresh(p) + 1 \in Nat /\ Fresh(p) + 1 > 0 /\ TRUE # FALSE
  BY <1>1
<1>4. /\ queue' \in [Job -> Nat]
      /\ queue'[<<p, FALSE>>] = Fresh(p) + 1
      /\ \A q \in Post : q # p => queue'[<<q, FALSE>>] = queue[<<q, FALSE>>]
      /\ \A q \in Post : queue'[<<q, TRUE>>] = queue[<<q, TRUE>>]
  BY <1>1, <1>2, <1>3, SetInQueue
<1> QED
  BY <1>3, <1>4, Zenon DEF Back, Fresh

LEMMA GotBack ==
  ASSUME Types, NEW p \in Post, queue[<<p, TRUE>>] > 0,
         queue' = [queue EXCEPT ![<<p, TRUE>>] = @ - 1]
  PROVE  /\ queue' \in [Job -> Nat]
         /\ Back(p) > 0 /\ Back(p)' = Back(p) - 1
         /\ \A q \in Post : q # p => Back(q)' = Back(q)
         /\ \A q \in Post : Fresh(q)' = Fresh(q)
<1>1. queue \in [Job -> Nat] /\ Back(p) \in Nat
  BY Counted DEF Types, QueueTypes
<1>2. Back(p) > 0 /\ queue' = [queue EXCEPT ![<<p, TRUE>>] = Back(p) - 1]
  BY Zenon DEF Back
<1>3. Back(p) - 1 \in Nat /\ TRUE # FALSE
  BY <1>1, <1>2
<1>4. /\ queue' \in [Job -> Nat]
      /\ queue'[<<p, TRUE>>] = Back(p) - 1
      /\ \A q \in Post : q # p => queue'[<<q, TRUE>>] = queue[<<q, TRUE>>]
      /\ \A q \in Post : queue'[<<q, FALSE>>] = queue[<<q, FALSE>>]
  BY <1>1, <1>2, <1>3, SetInQueue
<1> QED
  BY <1>2, <1>4, Zenon DEF Back, Fresh

LEMMA GotFresh ==
  ASSUME Types, NEW p \in Post, queue[<<p, FALSE>>] > 0,
         queue' = [queue EXCEPT ![<<p, FALSE>>] = @ - 1]
  PROVE  /\ queue' \in [Job -> Nat]
         /\ Fresh(p) > 0 /\ Fresh(p)' = Fresh(p) - 1
         /\ \A q \in Post : q # p => Fresh(q)' = Fresh(q)
         /\ \A q \in Post : Back(q)' = Back(q)
<1>1. queue \in [Job -> Nat] /\ Fresh(p) \in Nat
  BY Counted DEF Types, QueueTypes
<1>2. Fresh(p) > 0 /\ queue' = [queue EXCEPT ![<<p, FALSE>>] = Fresh(p) - 1]
  BY Zenon DEF Fresh
<1>3. Fresh(p) - 1 \in Nat /\ TRUE # FALSE
  BY <1>1, <1>2
<1>4. /\ queue' \in [Job -> Nat]
      /\ queue'[<<p, FALSE>>] = Fresh(p) - 1
      /\ \A q \in Post : q # p => queue'[<<q, FALSE>>] = queue[<<q, FALSE>>]
      /\ \A q \in Post : queue'[<<q, TRUE>>] = queue[<<q, TRUE>>]
  BY <1>1, <1>2, <1>3, SetInQueue
<1> QED
  BY <1>2, <1>4, Zenon DEF Back, Fresh

QueueStays == queue' = queue /\ \A p \in Post : Fresh(p)' = Fresh(p) /\ Back(p)' = Back(p)
BackInQueue(p) ==
  /\ Back(p)' = Back(p) + 1 /\ Back(p)' > 0
  /\ \A q \in Post : q # p => Back(q)' = Back(q)
  /\ \A q \in Post : Fresh(q)' = Fresh(q)

LEMMA QueueSame == queue' = queue => QueueStays
BY DEF QueueStays, Fresh, Back

\* What becomes of the job held when a process or its connection dies.
LEMMA Returned ==
  ASSUME Types, JobReturns
  PROVE  /\ queue' \in [Job -> Nat] /\ cutShort' \in [Post -> Nat]
         /\ worker # Idle /\ worker.held =>
              \E p \in Post : /\ p = worker.post /\ BackInQueue(p)
                              /\ cutShort' = [cutShort EXCEPT ![p] = @ + 1]
         /\ ~ (worker # Idle /\ worker.held) => QueueStays /\ cutShort' = cutShort
<1>1. CASE worker # Idle /\ worker.held
  <2>1. PICK p \in Post : p = worker.post
    BY <1>1, Hands
  <2>2. /\ queue' = [queue EXCEPT ![<<p, TRUE>>] = @ + 1]
        /\ cutShort' = [cutShort EXCEPT ![p] = @ + 1]
    BY <1>1, <2>1 DEF JobReturns
  <2>3. queue' \in [Job -> Nat] /\ BackInQueue(p)
    BY <2>2, PutBack, Zenon DEF BackInQueue
  <2>4. cutShort' \in [Post -> Nat]
    BY <2>2 DEF Types, QueueTypes
  <2> QED
    BY <1>1, <2>1, <2>2, <2>3, <2>4
<1>2. CASE ~ (worker # Idle /\ worker.held)
  <2>1. queue' = queue /\ cutShort' = cutShort
    BY <1>2 DEF JobReturns
  <2> QED
    BY <1>2, <2>1, QueueSame DEF Types, QueueTypes
<1> QED
  BY <1>1, <1>2

\* A job rejected: dropped for a report, returned, or no longer there to reject.
LEMMA Rejected ==
  ASSUME Types, worker # Idle, NEW pc, Reject(pc)
  PROVE  /\ queue' \in [Job -> Nat]
         /\ \/ /\ worker.held /\ worker.redelivered /\ QueueStays
               /\ worker' = [worker EXCEPT !.pc = pc, !.held = FALSE]
            \/ /\ worker.held /\ ~ worker.redelivered /\ worker' = Idle
               /\ \E p \in Post : p = worker.post /\ BackInQueue(p)
            \/ ~ worker.held /\ worker' = Idle /\ QueueStays
         /\ worker' # Idle => /\ worker'.pc = pc /\ worker'.post = worker.post
                              /\ worker'.redelivered = worker.redelivered
                              /\ ~ worker'.held
<1>1. queue \in [Job -> Nat]
  BY DEF Types, QueueTypes
<1>5. LET w == [worker EXCEPT !.pc = pc, !.held = FALSE]
      IN  w.pc = pc /\ w.post = worker.post /\ w.redelivered = worker.redelivered /\ ~ w.held
  BY DEF Types, WorkerTypes
<1>2. CASE worker.held /\ worker.redelivered
  BY <1>1, <1>2, <1>5, QueueSame DEF Reject, GivesUp
<1>3. CASE worker.held /\ ~ worker.redelivered
  <2>1. PICK p \in Post : p = worker.post
    BY Hands
  <2>2. worker' = Idle /\ queue' = [queue EXCEPT ![<<p, TRUE>>] = @ + 1]
    BY <1>3, <2>1 DEF Reject, GivesUp
  <2>3. queue' \in [Job -> Nat] /\ BackInQueue(p)
    BY <2>2, PutBack, Zenon DEF BackInQueue
  <2> QED
    BY <1>3, <2>1, <2>2, <2>3
<1>4. CASE ~ worker.held
  <2>1. worker' = Idle /\ queue' = queue
    BY <1>4 DEF Reject
  <2> QED
    BY <1>1, <1>4, <2>1, QueueSame
<1> QED
  BY <1>2, <1>3, <1>4, <1>5

\* A job sent to the queue.
LEMMA SentToQueue ==
  ASSUME Types, Offload
  PROVE  /\ queue' \in [Job -> Nat]
         /\ \E p \in Post : /\ p = main.post
                            /\ Fresh(p)' = Fresh(p) + 1 /\ Fresh(p)' > 0
                            /\ \A q \in Post : q # p => Fresh(q)' = Fresh(q)
                            /\ \A q \in Post : Back(q)' = Back(q)
<1>1. PICK p \in Post : p = main.post
  BY Hands DEF Offload
<1>2. queue' = [queue EXCEPT ![<<p, FALSE>>] = @ + 1]
  BY <1>1 DEF Offload
<1>3. /\ queue' \in [Job -> Nat] /\ Fresh(p)' = Fresh(p) + 1 /\ Fresh(p)' > 0
      /\ \A q \in Post : q # p => Fresh(q)' = Fresh(q)
      /\ \A q \in Post : Back(q)' = Back(q)
  BY <1>2, PutFresh, Zenon
<1> QED
  BY <1>1, <1>3, Zenon

\* A job delivered.
LEMMA Delivered ==
  ASSUME Types, NEW p \in Post, NEW redelivered \in BOOLEAN, WorkerTakes(p, redelivered)
  PROVE  /\ queue' \in [Job -> Nat]
         /\ \A q \in Post : q # p => Fresh(q)' = Fresh(q) /\ Back(q)' = Back(q)
         /\ \/ /\ redelivered /\ Back(p) > 0
               /\ Back(p)' = Back(p) - 1 /\ Fresh(p)' = Fresh(p)
            \/ /\ ~ redelivered /\ Fresh(p) > 0
               /\ Fresh(p)' = Fresh(p) - 1 /\ Back(p)' = Back(p)
<1>1. CASE redelivered = TRUE
  <2>1. queue[<<p, TRUE>>] > 0 /\ queue' = [queue EXCEPT ![<<p, TRUE>>] = @ - 1]
    BY <1>1 DEF WorkerTakes
  <2> QED
    BY <1>1, <2>1, GotBack
<1>2. CASE redelivered = FALSE
  <2>1. queue[<<p, FALSE>>] > 0 /\ queue' = [queue EXCEPT ![<<p, FALSE>>] = @ - 1]
    BY <1>2 DEF WorkerTakes
  <2> QED
    BY <1>2, <2>1, GotFresh
<1> QED
  BY <1>1, <1>2

LEMMA RejectedWorker ==
  ASSUME Types, worker # Idle, NEW pc \in Reports, Reject(pc)
  PROVE  WorkerTypes'
<1>1. worker' = Idle \/ worker' = [worker EXCEPT !.pc = pc, !.held = FALSE]
  BY Rejected
<1> QED
  BY <1>1 DEF Types, WorkerTypes, Reports

\* The actions by who takes them.
Authors ==
  \E p \in Post : CreatePost(p) \/ DeletePost(p) \/ \E sent \in BOOLEAN : CreateGetsNoAck(p, sent)
MainActs == MainStep \/ CommitFails \/ MainReportGetsNoAck
WorkerActs == WorkerStep \/ AttemptFails \/ WorkerGetsNoAck \/ WorkerReportGetsNoAck
WriterActs == WriterStep \/ WriterGetsNoAck \/ \E e \in verdicts : WriterFails(e)
Breaks ==
  \/ MainLosesLink \/ WorkerLosesLink \/ (\E restarted \in BOOLEAN : ChildDies(restarted))
  \/ PodRestarts \/ WriterRestarts

LEMMA Actors ==
  [Next]_vars => Authors \/ MainActs \/ WorkerActs \/ WriterActs \/ Breaks \/ UNCHANGED vars
BY DEF Next, Authors, MainActs, WorkerActs, WriterActs, Breaks, Failure

\* What each of them leaves alone.
LEMMA AuthorsFrame ==
  Authors =>
    UNCHANGED <<media, passed, queue, main, link, worker, consuming, verdicts, handled,
                writer, attempts, offloads, cutShort, gaveUp>>
BY DEF Authors, CreatePost, DeletePost, CreateGetsNoAck, progress, queues, counts

LEMMA MainFrame ==
  MainActs =>
    /\ UNCHANGED <<media, status, link, worker, consuming, handled, writer, attempts, cutShort>>
    /\ verdicts \subseteq verdicts'
<1> SUFFICES ASSUME MainActs
             PROVE  /\ UNCHANGED <<media, status, link, worker, consuming, handled, writer>>
                    /\ UNCHANGED <<attempts, cutShort>> /\ verdicts \subseteq verdicts'
  OBVIOUS
<1> USE DEF results, counts, queues
<1>1. CASE MainStep
  BY <1>1
     DEF MainStep, MainTakes, Offload, Offloaded, Commit, OffloadGivesUp, GiveUp,
              MainReports, Publish, MainReturns
<1>2. CASE CommitFails \/ MainReportGetsNoAck
  BY <1>2
     DEF CommitFails, GiveUp, MainReportGetsNoAck, PublishGetsNoAck, MainReturns
<1> QED
  BY <1>1, <1>2 DEF MainActs

LEMMA WorkerFrame ==
  WorkerActs =>
    /\ UNCHANGED <<media, status, inbox, passed, main, link, handled, writer, gaveUp>>
    /\ UNCHANGED <<offloads, cutShort>> /\ verdicts \subseteq verdicts'
<1> SUFFICES ASSUME WorkerActs
             PROVE  /\ UNCHANGED <<media, status, inbox, passed, main, link, handled>>
                    /\ UNCHANGED <<writer, gaveUp, offloads, cutShort>>
                    /\ verdicts \subseteq verdicts'
  OBVIOUS
<1> USE DEF results, counts, WorkerStays
<1>1. CASE WorkerStep
  BY <1>1
     DEF WorkerStep, WorkerTakes, Judge, Unsupported, WorkerPublishes, WorkerAcks,
              WorkerReports, Publish
<1>2. CASE AttemptFails \/ WorkerGetsNoAck \/ WorkerReportGetsNoAck
  BY <1>2 DEF AttemptFails, WorkerGetsNoAck, WorkerReportGetsNoAck, PublishGetsNoAck
<1> QED
  BY <1>1, <1>2 DEF WorkerActs

LEMMA WriterFrame ==
  WriterActs =>
    UNCHANGED <<media, inbox, passed, queue, main, link, worker, consuming, attempts,
                offloads, cutShort, gaveUp>>
BY
   DEF WriterActs, WriterStep, WriterStores, WriterAnnounces, WriterGetsNoAck,
       WriterReturns,
       WriterFails, WriterStays, progress, queues, counts

LEMMA BreaksFrame ==
  Breaks => UNCHANGED <<media, status, attempts, offloads, gaveUp>>
BY
   DEF Breaks, MainLosesLink, WorkerLosesLink, ChildDies, PodRestarts,
       WriterRestarts,
       WriterStays, results, counts

LEMMA InitTypes == Init => Types
<1> SUFFICES ASSUME Init PROVE Types
  OBVIOUS
<1> USE DEF Init
<1>1. StoreTypes
  BY DEF StoreTypes, Result
<1>2. QueueTypes
  BY DEF QueueTypes
<1>3. EventTypes /\ MainTypes /\ WorkerTypes /\ WriterTypes
  BY DEF EventTypes, Verdicts, MainTypes, WorkerTypes, WriterTypes
<1> QED
  BY <1>1, <1>2, <1>3 DEF Types

LEMMA InitInv == Init => WaitInv /\ RetryInv /\ BudgetInv
<1> SUFFICES ASSUME Init PROVE WaitInv /\ RetryInv /\ BudgetInv
  OBVIOUS
<1>1. \A p \in Post : Fresh(p) = 0 /\ Back(p) = 0
  BY JobOf DEF Init, Fresh, Back
<1>2. /\ \A p \in Post : attempts[p] = 0 /\ offloads[p] = 0 /\ cutShort[p] = 0
      /\ \A p \in Post : status[p] = "none"
      /\ inbox = {} /\ passed = {} /\ Verdicts = {}
      /\ main = Idle /\ worker = Idle /\ writer = Idle /\ Idle.pc = "idle"
  BY IdlePc DEF Init, Verdicts
<1>3. /\ Known /\ Released /\ AckedIsTold /\ StoredIsTold /\ OffloadedIsOffered
      /\ PendingIsKept
  BY <1>1, <1>2
     DEF Known, KnownPosts, KnownJobs, KnownEvents, Released, AckedIsTold, StoredIsTold,
         OffloadedIsOffered, PendingIsKept
<1>4. RetryInv
  BY <1>1, <1>2
     DEF RetryInv, Attempted, NoFailure, ReportIsDue, EventsMayFail, StatusMayFail
<1>5. BudgetInv
  BY <1>1, <1>2 DEF BudgetInv, Spent, Granted, Held
<1> QED
  BY InitTypes, <1>3, <1>4, <1>5 DEF WaitInv

LEMMA StoreTypesStep == Types /\ [Next]_vars => StoreTypes'
<1> SUFFICES ASSUME Types, [Next]_vars PROVE StoreTypes'
  OBVIOUS
<1> USE Hands
   DEF Types, StoreTypes, EventTypes, IsEvent, Verdicts, Fault, queues, progress,
       results, counts
<1>1. CASE Authors
  BY <1>1, AuthorsFrame DEF Authors, CreatePost, DeletePost, CreateGetsNoAck
<1>2. CASE MainActs
  BY <1>2
     DEF MainActs, MainStep, MainTakes, Offload, Offloaded, Commit, MainReturns,
         OffloadGivesUp, GiveUp, CommitFails, MainReports, Publish,
         MainReportGetsNoAck, PublishGetsNoAck
<1>3. CASE WorkerActs
  BY <1>3
     DEF WorkerActs, WorkerStep, WorkerTakes, Judge, Verdict, WorkerStays,
         Unsupported, Reject, GivesUp, AttemptFails, WorkerPublishes, Publish,
         WorkerGetsNoAck, PublishGetsNoAck, WorkerAcks, WorkerReports,
         WorkerReportGetsNoAck
<1>4. CASE WriterActs
  BY <1>4
     DEF WriterActs, WriterStep, WriterStores, WriterStays, WriterAnnounces,
         WriterReturns, WriterGetsNoAck, WriterFails
<1>5. CASE Breaks
  BY <1>5
     DEF Breaks, MainLosesLink, WorkerLosesLink, JobReturns, ChildDies, Reporting,
         PodRestarts, WriterRestarts, WriterStays
<1>6. CASE UNCHANGED vars
  BY <1>6 DEF vars
<1> QED
  BY Actors, <1>1, <1>2, <1>3, <1>4, <1>5, <1>6

LEMMA QueueTypesStep == Types /\ [Next]_vars => QueueTypes'
<1> SUFFICES ASSUME Types, [Next]_vars PROVE QueueTypes'
  OBVIOUS
<1> USE Hands DEF Types, QueueTypes, Fault, queues, progress, results, counts
<1>1. CASE Authors
  BY <1>1, AuthorsFrame
<1>2. CASE MainActs
  <2>1. CASE (\E p \in Post : MainTakes(p)) \/ Offloaded \/ Commit \/ OffloadGivesUp
             \/ CommitFails \/ MainReports \/ MainReportGetsNoAck
    BY <2>1
       DEF MainTakes, Offloaded, Commit, MainReturns, OffloadGivesUp, GiveUp,
           CommitFails, MainReports, Publish, MainReportGetsNoAck, PublishGetsNoAck
  <2>2. CASE Offload
    <3>1. queue' \in [Job -> Nat]
      BY <2>2, SentToQueue
    <3>2. attempts' \in [Post -> Nat] /\ offloads' \in [Post -> Nat] /\ cutShort' \in [Post -> Nat]
      BY <2>2 DEF Offload
    <3> QED
      BY <3>1, <3>2
  <2> QED
    BY <1>2, <2>1, <2>2 DEF MainActs, MainStep
<1>3. CASE WorkerActs
  <2>1. CASE Judge \/ WorkerPublishes \/ WorkerAcks \/ WorkerReports \/
             WorkerReportGetsNoAck
    BY <2>1
       DEF Judge, Verdict, WorkerStays, WorkerPublishes, Publish, WorkerAcks,
           WorkerReports, WorkerReportGetsNoAck, PublishGetsNoAck
  <2>2. ASSUME NEW p \in Post, NEW redelivered \in BOOLEAN, WorkerTakes(p, redelivered)
        PROVE  QueueTypes'
    <3>1. queue' \in [Job -> Nat]
      BY <2>2, Delivered
    <3>2. attempts' \in [Post -> Nat] /\ offloads' \in [Post -> Nat] /\ cutShort' \in [Post -> Nat]
      BY <2>2 DEF WorkerTakes
    <3> QED
      BY <3>1, <3>2
  <2>3. CASE Unsupported
    BY <2>3, Rejected DEF Unsupported, WorkerStays
  <2>4. CASE AttemptFails
    BY <2>4, Rejected DEF AttemptFails, WorkerStays
  <2>5. CASE WorkerGetsNoAck
    BY <2>5, Rejected DEF WorkerGetsNoAck, PublishGetsNoAck, WorkerStays
  <2> QED
    BY <1>3, <2>1, <2>2, <2>3, <2>4, <2>5 DEF WorkerActs, WorkerStep
<1>4. CASE WriterActs
  BY <1>4, WriterFrame
<1>5. CASE Breaks
  <2>1. CASE MainLosesLink \/ WriterRestarts
    BY <2>1 DEF MainLosesLink, WriterRestarts, WriterStays
  <2>2. CASE WorkerLosesLink
    BY <2>2, Returned DEF WorkerLosesLink
  <2>3. ASSUME NEW restarted \in BOOLEAN, ChildDies(restarted) PROVE QueueTypes'
    BY <2>3, Returned DEF ChildDies
  <2>4. CASE PodRestarts
    BY <2>4, Returned DEF PodRestarts
  <2> QED
    BY <1>5, <2>1, <2>2, <2>3, <2>4 DEF Breaks
<1>6. CASE UNCHANGED vars
  BY <1>6 DEF vars
<1> QED
  BY Actors, <1>1, <1>2, <1>3, <1>4, <1>5, <1>6

LEMMA EventTypesStep == Types /\ [Next]_vars => EventTypes'
<1> SUFFICES ASSUME Types, [Next]_vars PROVE EventTypes'
  OBVIOUS
<1>a. \A p \in Post, result \in Result : \A e \in Sent(p, result) : IsEvent(e)
  BY SentIs DEF IsEvent
<1> USE Hands, <1>a
   DEF Types, EventTypes, Verdicts, Fault, queues, progress, results, counts
<1>1. CASE Authors
  BY <1>1, AuthorsFrame
<1>2. CASE MainActs
  <2>1. CASE (\E p \in Post : MainTakes(p)) \/ Offload \/ Offloaded \/ Commit \/
             OffloadGivesUp \/ CommitFails
    BY <2>1
       DEF MainTakes, Offload, Offloaded, Commit, MainReturns, OffloadGivesUp,
           GiveUp, CommitFails
  <2>2. CASE MainReports
    BY <2>2 DEF MainReports, Publish, MainReturns, Result
  <2>3. CASE MainReportGetsNoAck
    BY <2>3 DEF MainReportGetsNoAck, PublishGetsNoAck, MainReturns, Result
  <2> QED
    BY <1>2, <2>1, <2>2, <2>3 DEF MainActs, MainStep
<1>3. CASE WorkerActs
  <2>1. CASE (\E p \in Post, redelivered \in BOOLEAN : WorkerTakes(p, redelivered))
             \/ Judge \/ Unsupported \/ AttemptFails \/ WorkerAcks
    BY <2>1
       DEF WorkerTakes, Judge, Verdict, WorkerStays, Unsupported, Reject, GivesUp,
           AttemptFails, WorkerAcks
  <2>2. CASE WorkerPublishes
    BY <2>2 DEF WorkerPublishes, Publish, WorkerStays, WorkerTypes
  <2>3. CASE WorkerGetsNoAck
    BY <2>3
       DEF WorkerGetsNoAck, PublishGetsNoAck, Reject, GivesUp, WorkerStays,
           WorkerTypes
  <2>4. CASE WorkerReports
    BY <2>4 DEF WorkerReports, Publish, WorkerStays, Result
  <2>5. CASE WorkerReportGetsNoAck
    BY <2>5 DEF WorkerReportGetsNoAck, PublishGetsNoAck, WorkerStays, Result
  <2> QED
    BY <1>3, <2>1, <2>2, <2>3, <2>4, <2>5 DEF WorkerActs, WorkerStep
<1>4. CASE WriterActs
  BY <1>4
     DEF WriterActs, WriterStep, WriterStores, WriterStays, WriterAnnounces,
         WriterReturns, WriterGetsNoAck, WriterFails
<1>5. CASE Breaks
  BY <1>5, BreaksFrame
     DEF Breaks, MainLosesLink, WorkerLosesLink, ChildDies, PodRestarts,
         WriterRestarts, WriterStays
<1>6. CASE UNCHANGED vars
  BY <1>6 DEF vars
<1> QED
  BY Actors, <1>1, <1>2, <1>3, <1>4, <1>5, <1>6

LEMMA MainTypesStep == Types /\ [Next]_vars => MainTypes'
<1> SUFFICES ASSUME Types, [Next]_vars PROVE MainTypes'
  OBVIOUS
<1> USE Hands
   DEF Types, StoreTypes, MainTypes, Fault, queues, progress, results, counts
<1>1. CASE Authors
  BY <1>1, AuthorsFrame
<1>2. CASE MainActs
  <2>1. ASSUME NEW p \in Post, MainTakes(p) PROVE MainTypes'
    BY <2>1 DEF MainTakes
  <2>2. CASE Offload
    BY <2>2 DEF Offload
  <2>3. CASE Offloaded
    BY <2>3 DEF Offloaded
  <2>4. CASE Commit
    BY <2>4 DEF Commit, MainReturns
  <2>5. CASE OffloadGivesUp
    BY <2>5 DEF OffloadGivesUp, GiveUp
  <2>6. CASE CommitFails
    BY <2>6 DEF CommitFails, GiveUp
  <2>7. CASE MainReports
    BY <2>7 DEF MainReports, Publish, MainReturns
  <2>8. CASE MainReportGetsNoAck
    BY <2>8 DEF MainReportGetsNoAck, PublishGetsNoAck, MainReturns
  <2> QED
    BY <1>2, <2>1, <2>2, <2>3, <2>4, <2>5, <2>6, <2>7, <2>8 DEF MainActs, MainStep
<1>3. CASE WorkerActs
  BY <1>3, WorkerFrame
<1>4. CASE WriterActs
  BY <1>4, WriterFrame
<1>5. CASE Breaks
  BY <1>5, BreaksFrame
     DEF Breaks, MainLosesLink, WorkerLosesLink, ChildDies, PodRestarts,
         WriterRestarts, WriterStays
<1>6. CASE UNCHANGED vars
  BY <1>6 DEF vars
<1> QED
  BY Actors, <1>1, <1>2, <1>3, <1>4, <1>5, <1>6

LEMMA WorkerTypesStep == Types /\ [Next]_vars => WorkerTypes'
<1> SUFFICES ASSUME Types, [Next]_vars PROVE WorkerTypes'
  OBVIOUS
<1> USE Hands, Verdicted
   DEF Types, WorkerTypes, Result, Fault, queues, progress, results, counts
<1>1. CASE Authors
  BY <1>1, AuthorsFrame
<1>2. CASE MainActs
  BY <1>2, MainFrame
<1>3. CASE WorkerActs
  <2>1. ASSUME NEW p \in Post, NEW redelivered \in BOOLEAN, WorkerTakes(p, redelivered)
        PROVE  WorkerTypes'
    BY <2>1 DEF WorkerTakes
  <2>2. CASE Judge
    BY <2>2 DEF Judge, WorkerStays
  <2>3. CASE Unsupported
    BY <2>3, RejectedWorker DEF Reports, Unsupported, WorkerStays
  <2>4. CASE AttemptFails
    BY <2>4, RejectedWorker DEF Reports, AttemptFails, WorkerStays
  <2>5. CASE WorkerPublishes
    BY <2>5 DEF WorkerPublishes, Publish, WorkerStays
  <2>6. CASE WorkerGetsNoAck
    BY <2>6, RejectedWorker
       DEF Reports, WorkerGetsNoAck, PublishGetsNoAck, WorkerStays
  <2>7. CASE WorkerAcks
    BY <2>7 DEF WorkerAcks, WorkerStays
  <2>8. CASE WorkerReports
    BY <2>8 DEF WorkerReports, Publish, WorkerStays
  <2>9. CASE WorkerReportGetsNoAck
    BY <2>9 DEF WorkerReportGetsNoAck, PublishGetsNoAck, WorkerStays
  <2> QED
    BY <1>3, <2>1, <2>2, <2>3, <2>4, <2>5, <2>6, <2>7, <2>8, <2>9
       DEF WorkerActs, WorkerStep
<1>4. CASE WriterActs
  BY <1>4, WriterFrame
<1>5. CASE Breaks
  BY <1>5
     DEF Breaks, MainLosesLink, WorkerLosesLink, JobReturns, ChildDies, Reporting,
         PodRestarts, WriterRestarts, WriterStays
<1>6. CASE UNCHANGED vars
  BY <1>6 DEF vars
<1> QED
  BY Actors, <1>1, <1>2, <1>3, <1>4, <1>5, <1>6

LEMMA WriterTypesStep == Types /\ [Next]_vars => WriterTypes'
<1> SUFFICES ASSUME Types, [Next]_vars PROVE WriterTypes'
  OBVIOUS
<1> USE Hands DEF Types, WriterTypes, Fault, queues, progress, results, counts
<1>1. CASE Authors
  BY <1>1, AuthorsFrame
<1>2. CASE MainActs
  BY <1>2, MainFrame
<1>3. CASE WorkerActs
  BY <1>3, WorkerFrame
<1>4. CASE WriterActs
  BY <1>4
     DEF WriterActs, WriterStep, WriterStores, WriterStays, WriterAnnounces,
         WriterReturns, WriterGetsNoAck, WriterFails
<1>5. CASE Breaks
  BY <1>5
     DEF Breaks, MainLosesLink, WorkerLosesLink, JobReturns, ChildDies, Reporting,
         PodRestarts, WriterRestarts, WriterStays
<1>6. CASE UNCHANGED vars
  BY <1>6 DEF vars
<1> QED
  BY Actors, <1>1, <1>2, <1>3, <1>4, <1>5, <1>6

LEMMA TypesStep == Types /\ [Next]_vars => Types'
BY StoreTypesStep, QueueTypesStep, EventTypesStep, MainTypesStep, WorkerTypesStep,
   WriterTypesStep
   DEF Types

\* Once it has taken a job, the child process keeps to it until it is idle.
OneJob ==
  worker # Idle /\ worker' # Idle =>
    /\ worker'.post = worker.post /\ worker'.redelivered = worker.redelivered
    /\ worker'.held => worker.held

LEMMA SameJob == Types /\ [Next]_vars => OneJob
<1> SUFFICES ASSUME Types, [Next]_vars PROVE OneJob
  OBVIOUS
<1> USE Hands DEF Types, WorkerTypes, OneJob, queues, progress, results, counts
<1>1. CASE Authors
  BY <1>1, AuthorsFrame
<1>2. CASE MainActs
  BY <1>2, MainFrame
<1>3. CASE WorkerActs
  <2>1. CASE (\E p \in Post, redelivered \in BOOLEAN : WorkerTakes(p, redelivered))
             \/ Judge \/ WorkerPublishes \/ WorkerAcks \/ WorkerReports \/
             WorkerReportGetsNoAck
    BY <2>1
       DEF WorkerTakes, Judge, Verdict, WorkerStays, WorkerPublishes, WorkerAcks,
           WorkerReports, WorkerReportGetsNoAck
  <2>2. CASE Unsupported
    BY <2>2, Rejected DEF OneJob, Unsupported, WorkerStays
  <2>3. CASE AttemptFails
    BY <2>3, Rejected DEF OneJob, AttemptFails, WorkerStays
  <2>4. CASE WorkerGetsNoAck
    BY <2>4, Rejected DEF OneJob, WorkerGetsNoAck, WorkerStays
  <2> QED
    BY <1>3, <2>1, <2>2, <2>3, <2>4 DEF WorkerActs, WorkerStep
<1>4. CASE WriterActs
  BY <1>4, WriterFrame
<1>5. CASE Breaks
  <2>1. CASE MainLosesLink \/ WriterRestarts
    BY <2>1 DEF MainLosesLink, WriterRestarts, WriterStays
  <2>2. CASE WorkerLosesLink
    BY <2>2, Returned DEF WorkerLosesLink
  <2>3. ASSUME NEW restarted \in BOOLEAN, ChildDies(restarted) PROVE OneJob
    BY <2>3, Returned DEF ChildDies
  <2>4. CASE PodRestarts
    BY <2>4, Returned DEF PodRestarts
  <2> QED
    BY <1>5, <2>1, <2>2, <2>3, <2>4 DEF Breaks
<1>6. CASE UNCHANGED vars
  BY <1>6 DEF vars
<1> QED
  BY Actors, <1>1, <1>2, <1>3, <1>4, <1>5, <1>6

\* A post that was created stays so.
StaysKnown == \A p \in Post : status[p] # "none" => status'[p] # "none"

LEMMA CreatedForGood == Types /\ [Next]_vars => StaysKnown
<1> SUFFICES ASSUME Types, [Next]_vars PROVE StaysKnown
  OBVIOUS
<1> USE Hands
   DEF Types, StoreTypes, EventTypes, IsEvent, Result, Fault, StaysKnown, Verdicts,
       queues, progress, results, counts
<1>1. CASE Authors
  BY <1>1, AuthorsFrame DEF Authors, CreatePost, DeletePost, CreateGetsNoAck
<1>2. CASE MainActs
  BY <1>2, MainFrame
<1>3. CASE WorkerActs
  BY <1>3, WorkerFrame
<1>4. CASE WriterActs
  BY <1>4
     DEF WriterActs, WriterStep, WriterStores, WriterStays, WriterAnnounces,
         WriterReturns, WriterGetsNoAck, WriterFails
<1>5. CASE Breaks
  BY <1>5, BreaksFrame
<1>6. CASE UNCHANGED vars
  BY <1>6 DEF vars
<1> QED
  BY Actors, <1>1, <1>2, <1>3, <1>4, <1>5, <1>6

LEMMA KnownPostsStep == Types /\ Known /\ [Next]_vars => KnownPosts'
<1> SUFFICES ASSUME Types, Known, [Next]_vars PROVE KnownPosts'
  OBVIOUS
<1>b. main.pc # "idle" => main # Idle /\ main.post \in Post /\ status[main.post] # "none"
  BY Hands DEF Known, KnownPosts
<1> USE Hands, <1>b
   DEF Types, StoreTypes, EventTypes, IsEvent, Result, Fault, Known, KnownPosts,
       KnownEvents, Verdicts, queues, progress, results, counts
<1>1. CASE Authors
  BY <1>1 DEF Authors, CreatePost, DeletePost, CreateGetsNoAck
<1>2. CASE MainActs
  <2>1. ASSUME NEW p \in Post, MainTakes(p) PROVE KnownPosts'
    BY <2>1 DEF MainTakes
  <2>2. CASE Offload
    BY <2>2 DEF Offload
  <2>3. CASE Offloaded
    BY <2>3 DEF Offloaded
  <2>4. CASE Commit
    BY <2>4 DEF Commit, MainReturns
  <2>5. CASE OffloadGivesUp
    BY <2>5 DEF OffloadGivesUp, GiveUp
  <2>6. CASE CommitFails
    BY <2>6 DEF CommitFails, GiveUp
  <2>7. CASE MainReports
    BY <2>7 DEF MainReports, Publish, MainReturns
  <2>8. CASE MainReportGetsNoAck
    BY <2>8 DEF MainReportGetsNoAck, PublishGetsNoAck, MainReturns
  <2> QED
    BY <1>2, <2>1, <2>2, <2>3, <2>4, <2>5, <2>6, <2>7, <2>8 DEF MainActs, MainStep
<1>3. CASE WorkerActs
  BY <1>3, WorkerFrame
<1>4. CASE WriterActs
  BY <1>4
     DEF WriterActs, WriterStep, WriterStores, WriterStays, WriterAnnounces,
         WriterReturns, WriterGetsNoAck, WriterFails
<1>5. CASE Breaks
  BY <1>5
     DEF Breaks, MainLosesLink, WorkerLosesLink, JobReturns, ChildDies, Reporting,
         PodRestarts, WriterRestarts, WriterStays
<1>6. CASE UNCHANGED vars
  BY <1>6 DEF vars
<1> QED
  BY Actors, <1>1, <1>2, <1>3, <1>4, <1>5, <1>6

LEMMA KnownJobsStep == Types /\ Known /\ [Next]_vars => KnownJobs'
<1> SUFFICES ASSUME Types, Known, [Next]_vars PROVE KnownJobs'
  OBVIOUS
<1>b. main.pc # "idle" => main # Idle /\ main.post \in Post /\ status[main.post] # "none"
  BY Hands DEF Known, KnownPosts
<1>c. worker.pc # "idle" => worker # Idle /\ worker.post \in Post /\ status[worker.post] # "none"
  BY Hands DEF Known, KnownJobs
<1>d. worker # Idle /\ worker' # Idle => worker'.post = worker.post
  BY SameJob DEF OneJob
<1>e. StaysKnown
  BY CreatedForGood
<1> USE Hands, Counted, QueueSame, <1>b, <1>c, <1>d, <1>e
   DEF Types, StaysKnown, Known, KnownPosts, KnownJobs, QueueStays, BackInQueue,
       queues, progress, results, counts
<1>1. CASE Authors
  BY <1>1, AuthorsFrame
<1>2. CASE MainActs
  <2>1. CASE (\E p \in Post : MainTakes(p)) \/ Offloaded \/ Commit \/ OffloadGivesUp
             \/ CommitFails \/ MainReports \/ MainReportGetsNoAck
    BY <2>1
       DEF MainTakes, Offloaded, Commit, MainReturns, OffloadGivesUp, GiveUp,
           CommitFails, MainReports, Publish, MainReportGetsNoAck, PublishGetsNoAck
  <2>2. CASE Offload
    BY <2>2, SentToQueue DEF Offload
  <2> QED
    BY <1>2, <2>1, <2>2 DEF MainActs, MainStep
<1>3. CASE WorkerActs
  <2>1. CASE Judge \/ WorkerPublishes \/ WorkerAcks \/ WorkerReports \/
             WorkerReportGetsNoAck
    BY <2>1
       DEF Judge, Verdict, WorkerStays, WorkerPublishes, Publish, WorkerAcks,
           WorkerReports, WorkerReportGetsNoAck, PublishGetsNoAck
  <2>2. ASSUME NEW p \in Post, NEW redelivered \in BOOLEAN, WorkerTakes(p, redelivered)
        PROVE  KnownJobs'
    BY <2>2, Delivered DEF WorkerTakes
  <2>3. CASE Unsupported
    BY <2>3, Rejected DEF Unsupported, WorkerStays
  <2>4. CASE AttemptFails
    BY <2>4, Rejected DEF AttemptFails, WorkerStays
  <2>5. CASE WorkerGetsNoAck
    BY <2>5, Rejected DEF WorkerGetsNoAck, PublishGetsNoAck, WorkerStays
  <2> QED
    BY <1>3, <2>1, <2>2, <2>3, <2>4, <2>5 DEF WorkerActs, WorkerStep
<1>4. CASE WriterActs
  BY <1>4, WriterFrame
<1>5. CASE Breaks
  <2>1. CASE MainLosesLink \/ WriterRestarts
    BY <2>1 DEF MainLosesLink, WriterRestarts, WriterStays
  <2>2. CASE WorkerLosesLink
    BY <2>2, Returned DEF WorkerLosesLink
  <2>3. ASSUME NEW restarted \in BOOLEAN, ChildDies(restarted) PROVE KnownJobs'
    BY <2>3, Returned DEF ChildDies
  <2>4. CASE PodRestarts
    BY <2>4, Returned DEF PodRestarts
  <2> QED
    BY <1>5, <2>1, <2>2, <2>3, <2>4 DEF Breaks
<1>6. CASE UNCHANGED vars
  BY <1>6 DEF vars
<1> QED
  BY Actors, <1>1, <1>2, <1>3, <1>4, <1>5, <1>6

LEMMA KnownEventsStep == Types /\ Known /\ [Next]_vars => KnownEvents'
<1> SUFFICES ASSUME Types, Known, [Next]_vars PROVE KnownEvents'
  OBVIOUS
<1>a. \A p, result : \A e \in Sent(p, result) : e.post = p /\ e.result = result
  BY SentIs
<1>b. main.pc # "idle" => main # Idle /\ main.post \in Post /\ status[main.post] # "none"
  BY Hands DEF Known, KnownPosts
<1>c. worker.pc # "idle" => worker # Idle /\ worker.post \in Post /\ status[worker.post] # "none"
  BY Hands DEF Known, KnownJobs
<1>e. StaysKnown
  BY CreatedForGood
<1> USE Hands, <1>a, <1>b, <1>c, <1>e
   DEF Types, StoreTypes, EventTypes, IsEvent, Result, Fault, StaysKnown, Known,
       KnownPosts, KnownJobs, KnownEvents, Verdicts, queues, progress, results,
       counts
<1>1. CASE Authors
  BY <1>1, AuthorsFrame
<1>2. CASE MainActs
  <2>1. CASE (\E p \in Post : MainTakes(p)) \/ Offload \/ Offloaded \/ Commit
    BY <2>1 DEF MainTakes, Offload, Offloaded, Commit, MainReturns
  <2>2. CASE OffloadGivesUp \/ CommitFails \/ MainReports \/ MainReportGetsNoAck
    BY <2>2
       DEF OffloadGivesUp, GiveUp, CommitFails, MainReports, Publish, MainReturns,
           MainReportGetsNoAck, PublishGetsNoAck
  <2> QED
    BY <1>2, <2>1, <2>2 DEF MainActs, MainStep
<1>3. CASE WorkerActs
  <2>1. ASSUME NEW p \in Post, NEW redelivered \in BOOLEAN, WorkerTakes(p, redelivered)
        PROVE  KnownEvents'
    BY <2>1 DEF WorkerTakes
  <2>2. CASE Judge
    BY <2>2 DEF Judge, Verdict, WorkerStays
  <2>3. CASE Unsupported
    BY <2>3 DEF Unsupported, Reject, GivesUp, WorkerStays
  <2>4. CASE AttemptFails
    BY <2>4 DEF AttemptFails, Reject, GivesUp, WorkerStays
  <2>5. CASE WorkerPublishes
    BY <2>5 DEF WorkerPublishes, Publish, WorkerStays
  <2>6. CASE WorkerGetsNoAck
    BY <2>6 DEF WorkerGetsNoAck, PublishGetsNoAck, Reject, GivesUp, WorkerStays
  <2>7. CASE WorkerAcks
    BY <2>7 DEF WorkerAcks, WorkerStays
  <2>8. CASE WorkerReports
    <3>1. worker.pc # "idle"
      BY <2>8 DEF WorkerReports
    <3>2. status' = status /\ Verdicts' \subseteq Verdicts \cup Sent(worker.post, "failed")
      BY <2>8 DEF WorkerReports, Publish, WorkerStays
    <3>3. \A e \in Sent(worker.post, "failed") : e.post = worker.post
      BY <1>a
    <3> QED
      BY <1>c, <3>1, <3>2, <3>3 DEF KnownEvents
  <2>9. CASE WorkerReportGetsNoAck
    <3>1. worker.pc # "idle"
      BY <2>9 DEF WorkerReportGetsNoAck
    <3>2. status' = status /\ Verdicts' \subseteq Verdicts \cup Sent(worker.post, "failed")
      BY <2>9 DEF WorkerReportGetsNoAck, PublishGetsNoAck, WorkerStays
    <3>3. \A e \in Sent(worker.post, "failed") : e.post = worker.post
      BY <1>a
    <3> QED
      BY <1>c, <3>1, <3>2, <3>3 DEF KnownEvents
  <2> QED
    BY <1>3, <2>1, <2>2, <2>3, <2>4, <2>5, <2>6, <2>7, <2>8, <2>9
       DEF WorkerActs, WorkerStep
<1>4. CASE WriterActs
  BY <1>4
     DEF WriterActs, WriterStep, WriterStores, WriterStays, WriterAnnounces,
         WriterReturns, WriterGetsNoAck, WriterFails
<1>5. CASE Breaks
  BY <1>5, BreaksFrame
     DEF Breaks, MainLosesLink, WorkerLosesLink, ChildDies, PodRestarts,
         WriterRestarts, WriterStays
<1>6. CASE UNCHANGED vars
  BY <1>6 DEF vars
<1> QED
  BY Actors, <1>1, <1>2, <1>3, <1>4, <1>5, <1>6

LEMMA KnownStep == Types /\ Known /\ [Next]_vars => Known'
BY KnownPostsStep, KnownJobsStep, KnownEventsStep DEF Known

LEMMA ReleasedStep == Types /\ Released /\ [Next]_vars => Released'
<1> SUFFICES ASSUME Types, Released, [Next]_vars PROVE Released'
  OBVIOUS
<1>d. worker # Idle /\ worker' # Idle => worker'.post = worker.post
  BY SameJob DEF OneJob
<1> USE Hands, Counted, QueueSame, <1>d
   DEF Types, Released, Reports, QueueStays, BackInQueue, queues, progress, results,
       counts
<1>1. CASE Authors
  BY <1>1, AuthorsFrame
<1>2. CASE MainActs
  <2>1. CASE (\E p \in Post : MainTakes(p)) \/ Offloaded \/ Commit \/ OffloadGivesUp
             \/ CommitFails \/ MainReports \/ MainReportGetsNoAck
    BY <2>1
       DEF MainTakes, Offloaded, Commit, MainReturns, OffloadGivesUp, GiveUp,
           CommitFails, MainReports, Publish, MainReportGetsNoAck, PublishGetsNoAck
  <2>2. CASE Offload
    BY <2>2, SentToQueue DEF Offload
  <2> QED
    BY <1>2, <2>1, <2>2 DEF MainActs, MainStep
<1>3. CASE WorkerActs
  <2>1. ASSUME NEW p \in Post, NEW redelivered \in BOOLEAN, WorkerTakes(p, redelivered)
        PROVE  Released'
    BY <2>1, Delivered DEF WorkerTakes
  <2>2. CASE Judge
    BY <2>2 DEF Judge, Verdict, WorkerStays
  <2>3. CASE Unsupported
    BY <2>3, Rejected DEF Unsupported, WorkerStays
  <2>4. CASE AttemptFails
    BY <2>4, Rejected DEF AttemptFails, WorkerStays
  <2>5. CASE WorkerPublishes
    BY <2>5 DEF WorkerPublishes, Publish, WorkerStays
  <2>6. CASE WorkerGetsNoAck
    BY <2>6, Rejected DEF WorkerGetsNoAck, PublishGetsNoAck, WorkerStays
  <2>7. CASE WorkerAcks
    BY <2>7 DEF WorkerAcks, WorkerStays
  <2>8. CASE WorkerReports
    BY <2>8 DEF WorkerReports, Publish, WorkerStays
  <2>9. CASE WorkerReportGetsNoAck
    <3>1. worker' = Idle \/ worker'.pc = "last report"
      BY <2>9 DEF WorkerReportGetsNoAck, PublishGetsNoAck, WorkerStays, WorkerTypes
    <3> QED
      BY <3>1
  <2> QED
    BY <1>3, <2>1, <2>2, <2>3, <2>4, <2>5, <2>6, <2>7, <2>8, <2>9
       DEF WorkerActs, WorkerStep
<1>4. CASE WriterActs
  BY <1>4, WriterFrame
<1>5. CASE Breaks
  <2>1. CASE MainLosesLink \/ WriterRestarts
    BY <2>1 DEF MainLosesLink, WriterRestarts, WriterStays
  <2>2. CASE WorkerLosesLink
    <3>1. worker' # Idle => worker # Idle /\ worker'.post = worker.post /\ worker'.pc = worker.pc
      BY <2>2 DEF WorkerLosesLink, WorkerTypes
    <3>2. JobReturns
      BY <2>2 DEF WorkerLosesLink
    <3>3. CASE worker # Idle /\ worker.held
      <4>1. PICK p \in Post : p = worker.post /\ BackInQueue(p)
        BY <3>2, <3>3, Returned
      <4> QED
        BY <3>1, <4>1
    <3>4. CASE worker # Idle /\ ~ worker.held
      <4>1. QueueStays
        BY <3>2, <3>4, Returned
      <4> QED
        BY <3>1, <3>4, <4>1
    <3> QED
      BY <3>1, <3>3, <3>4
  <2>3. ASSUME NEW restarted \in BOOLEAN, ChildDies(restarted) PROVE Released'
    BY <2>3, Returned DEF ChildDies
  <2>4. CASE PodRestarts
    BY <2>4, Returned DEF PodRestarts
  <2> QED
    BY <1>5, <2>1, <2>2, <2>3, <2>4 DEF Breaks
<1>6. CASE UNCHANGED vars
  BY <1>6 DEF vars
<1> QED
  BY Actors, <1>1, <1>2, <1>3, <1>4, <1>5, <1>6

LEMMA StoredStep == Types /\ Known /\ StoredIsTold /\ [Next]_vars => StoredIsTold'
<1> SUFFICES ASSUME Types, Known, StoredIsTold, [Next]_vars PROVE StoredIsTold'
  OBVIOUS
<1> USE Hands
   DEF Types, StoreTypes, EventTypes, IsEvent, Result, Fault, Known, KnownEvents,
       StoredIsTold, Verdicts, queues, progress, results, counts
<1>1. CASE Authors
  BY <1>1 DEF Authors, CreatePost, DeletePost, CreateGetsNoAck
<1>2. CASE MainActs
  BY <1>2, MainFrame
<1>3. CASE WorkerActs
  BY <1>3, WorkerFrame
<1>4. CASE WriterActs
  BY <1>4
     DEF WriterActs, WriterStep, WriterStores, WriterStays, WriterAnnounces,
         WriterReturns, WriterGetsNoAck, WriterFails
<1>5. CASE Breaks
  BY <1>5
     DEF Breaks, MainLosesLink, WorkerLosesLink, JobReturns, ChildDies, Reporting,
         PodRestarts, WriterRestarts, WriterStays
<1>6. CASE UNCHANGED vars
  BY <1>6 DEF vars
<1> QED
  BY Actors, <1>1, <1>2, <1>3, <1>4, <1>5, <1>6

\* A verdict waits until its result is stored, or may be lost.
StaysTold == \A p \in Post : status[p] # "none" /\ Told(p) => Told(p)'

LEMMA ToldForGood == Types /\ StoredIsTold /\ [Next]_vars => StaysTold
<1> SUFFICES ASSUME Types, StoredIsTold, [Next]_vars PROVE StaysTold
  OBVIOUS
<1> USE Hands
   DEF Types, StoreTypes, EventTypes, IsEvent, Result, Fault, StoredIsTold,
       StaysTold, Told, Verdicts, queues, progress, results, counts
<1>1. CASE Authors
  BY <1>1, AuthorsFrame DEF Authors, CreatePost, DeletePost, CreateGetsNoAck
<1>2. CASE MainActs
  BY <1>2
     DEF MainActs, MainStep, MainTakes, Offload, Offloaded, Commit, MainReturns,
         OffloadGivesUp, GiveUp, CommitFails, MainReports, Publish,
         MainReportGetsNoAck, PublishGetsNoAck
<1>3. CASE WorkerActs
  BY <1>3
     DEF WorkerActs, WorkerStep, WorkerTakes, Judge, Verdict, WorkerStays,
         Unsupported, Reject, GivesUp, AttemptFails, WorkerPublishes, Publish,
         WorkerGetsNoAck, PublishGetsNoAck, WorkerAcks, WorkerReports,
         WorkerReportGetsNoAck
<1>4. CASE WriterActs
  BY <1>4
     DEF WriterActs, WriterStep, WriterStores, WriterStays, WriterAnnounces,
         WriterReturns, WriterGetsNoAck, WriterFails
<1>5. CASE Breaks
  BY <1>5
     DEF Breaks, MainLosesLink, WorkerLosesLink, JobReturns, ChildDies, Reporting,
         PodRestarts, WriterRestarts, WriterStays
<1>6. CASE UNCHANGED vars
  BY <1>6 DEF vars
<1> QED
  BY Actors, <1>1, <1>2, <1>3, <1>4, <1>5, <1>6

LEMMA SentTells ==
  ASSUME NEW p \in Post, NEW result, Publish(p, result)
  PROVE  \E e \in verdicts' : e.post = p
BY SentOne DEF Publish

LEMMA AckedStep ==
  Types /\ Known /\ AckedIsTold /\ StoredIsTold /\ [Next]_vars => AckedIsTold'
<1> SUFFICES ASSUME Types, Known, AckedIsTold, StoredIsTold, [Next]_vars
             PROVE  AckedIsTold'
  OBVIOUS
<1>c. worker.pc # "idle" => worker # Idle /\ worker.post \in Post /\ status[worker.post] # "none"
  BY Hands DEF Known, KnownJobs
<1>d. worker # Idle /\ worker' # Idle => worker'.post = worker.post
  BY SameJob DEF OneJob
<1>f. StaysTold
  BY ToldForGood
<1> USE Hands, IdlePc, <1>c, <1>d, <1>f
   DEF Types, AckedIsTold, StaysTold, queues, progress, results, counts
<1>1. CASE Authors
  BY <1>1, AuthorsFrame
<1>2. CASE MainActs
  BY <1>2, MainFrame
<1>3. CASE WorkerActs
  <2>1. ASSUME NEW p \in Post, NEW redelivered \in BOOLEAN, WorkerTakes(p, redelivered)
        PROVE  AckedIsTold'
    BY <2>1 DEF WorkerTakes
  <2>2. CASE Judge
    <3>1. worker'.pc = "publish"
      BY <2>2 DEF Judge, WorkerTypes
    <3> QED
      BY <3>1
  <2>3. CASE Unsupported
    <3>1. worker' = Idle \/ worker'.pc \in Reports
      BY <2>3, Rejected DEF Unsupported, Reports
    <3> QED
      BY <3>1 DEF Reports
  <2>4. CASE AttemptFails
    <3>1. worker' = Idle \/ worker'.pc \in Reports
      BY <2>4, Rejected DEF AttemptFails, Reports
    <3> QED
      BY <3>1 DEF Reports
  <2>5. CASE WorkerPublishes
    <3>1. PICK p \in Post : p = worker.post
      BY <2>5 DEF WorkerPublishes
    <3>2. \E e \in verdicts' : e.post = p
      BY <2>5, <3>1, SentTells DEF WorkerPublishes
    <3>3. Told(p)'
      BY <3>2 DEF Told
    <3>4. worker'.post = p
      BY <2>5, <3>1 DEF WorkerPublishes, WorkerTypes
    <3> QED
      BY <3>3, <3>4
  <2>6. CASE WorkerGetsNoAck
    <3>1. worker' = Idle \/ worker'.pc \in Reports
      BY <2>6, Rejected DEF WorkerGetsNoAck, Reports
    <3> QED
      BY <3>1 DEF Reports
  <2>7. CASE WorkerAcks
    BY <2>7 DEF WorkerAcks, WorkerStays
  <2>8. CASE WorkerReports
    BY <2>8 DEF WorkerReports, Publish, WorkerStays
  <2>9. CASE WorkerReportGetsNoAck
    <3>1. worker' = Idle \/ worker'.pc = "last report"
      BY <2>9 DEF WorkerReportGetsNoAck, WorkerTypes
    <3> QED
      BY <3>1
  <2> QED
    BY <1>3, <2>1, <2>2, <2>3, <2>4, <2>5, <2>6, <2>7, <2>8, <2>9
       DEF WorkerActs, WorkerStep
<1>4. CASE WriterActs
  BY <1>4, WriterFrame
<1>5. CASE Breaks
  <2>1. CASE MainLosesLink \/ (\E restarted \in BOOLEAN : ChildDies(restarted)) \/
             PodRestarts \/ WriterRestarts
    BY <2>1
       DEF MainLosesLink, ChildDies, JobReturns, Reporting, PodRestarts,
           WriterRestarts, WriterStays
  <2>2. CASE WorkerLosesLink
    <3>1. (worker'.pc = worker.pc /\ worker'.post = worker.post) \/ worker' = Idle
      BY <2>2 DEF WorkerLosesLink, WorkerTypes
    <3> QED
      BY <3>1
  <2> QED
    BY <1>5, <2>1, <2>2 DEF Breaks
<1>6. CASE UNCHANGED vars
  BY <1>6 DEF vars
<1> QED
  BY Actors, <1>1, <1>2, <1>3, <1>4, <1>5, <1>6

\* A job that is rejected or returned is still in the queue or at hand, or a
\* report was due that is lost.
LEMMA RejectedStays ==
  ASSUME Types, Released, worker # Idle, worker.pc \notin Reports, NEW pc \in Reports, Reject(pc)
  PROVE  \A p \in Post : InWork(p) => InWork(p)'
<1>1. CASE /\ worker.held /\ worker.redelivered /\ QueueStays
           /\ worker' = [worker EXCEPT !.pc = pc, !.held = FALSE]
  <2>1. worker'.pc = pc /\ worker'.post = worker.post
    BY <1>1 DEF Types, WorkerTypes
  <2>2. worker' # Idle
    BY <2>1, IdlePc DEF Reports
  <2> QED
    BY <1>1, <2>1, <2>2 DEF InWork, Queued, QueueStays
<1>2. CASE \E p \in Post : p = worker.post /\ BackInQueue(p)
  BY <1>2 DEF InWork, Queued, BackInQueue
<1>3. CASE ~ worker.held /\ QueueStays
  BY <1>3 DEF InWork, Queued, QueueStays, Released
<1> QED
  BY <1>1, <1>2, <1>3, Rejected

LEMMA ReturnedStays ==
  ASSUME Types, Released, JobReturns
  PROVE  \A p \in Post :
           InWork(p) => Queued(p)' \/ (Reporting /\ worker # Idle /\ worker.post = p)
<1>1. CASE worker # Idle /\ worker.held
  <2>1. PICK p \in Post : p = worker.post /\ BackInQueue(p)
    BY <1>1, Returned
  <2>2. Queued(p)' /\ \A q \in Post : Queued(q) => Queued(q)'
    BY <2>1 DEF Queued, BackInQueue
  <2> QED
    BY <2>1, <2>2 DEF InWork
<1>2. CASE ~ (worker # Idle /\ worker.held)
  <2>1. \A p \in Post : Queued(p) => Queued(p)'
    BY <1>2, Returned DEF Queued, QueueStays
  <2>2. \A p \in Post : worker # Idle /\ worker.post = p /\ ~ Reporting => Queued(p)
    BY <1>2 DEF Released, Reporting, Reports, Queued
  <2> QED
    BY <2>1, <2>2 DEF InWork
<1> QED
  BY <1>1, <1>2

LEMMA SameWork ==
  queue' = queue /\ worker' = worker => \A p \in Post : InWork(p) => InWork(p)'
BY DEF InWork, Queued, Fresh, Back

\* What was offered for moderation stays so until it is told.
StaysOffered == \A p \in Post : status[p] # "none" /\ Offered(p) => Offered(p)'

LEMMA OfferedForGood ==
  Types /\ Released /\ AckedIsTold /\ StoredIsTold /\ [Next]_vars => StaysOffered
<1> SUFFICES ASSUME Types, Released, AckedIsTold, StoredIsTold, [Next]_vars
             PROVE  StaysOffered
  OBVIOUS
<1>f. StaysTold
  BY ToldForGood
<1> USE Hands, IdlePc, QueueSame, SameWork, <1>f
   DEF Types, StaysTold, Offered, StaysOffered, queues, progress, results, counts
<1>1. CASE Authors
  BY <1>1, AuthorsFrame
<1>2. CASE MainActs
  <2>1. CASE (\E p \in Post : MainTakes(p)) \/ Offloaded \/ Commit \/ OffloadGivesUp
             \/ CommitFails \/ MainReports \/ MainReportGetsNoAck
    BY <2>1
       DEF MainTakes, Offloaded, Commit, MainReturns, OffloadGivesUp, GiveUp,
           CommitFails, MainReports, Publish, MainReportGetsNoAck, PublishGetsNoAck
  <2>2. CASE Offload
    <3>1. worker' = worker
      BY <2>2 DEF Offload
    <3>2. \A p \in Post : Queued(p) => Queued(p)'
      BY <2>2, SentToQueue DEF Queued
    <3> QED
      BY <3>1, <3>2 DEF InWork
  <2> QED
    BY <1>2, <2>1, <2>2 DEF MainActs, MainStep
<1>3. CASE WorkerActs
  <2>1. ASSUME NEW p \in Post, NEW redelivered \in BOOLEAN, WorkerTakes(p, redelivered)
        PROVE  StaysOffered
    <3>1. worker'.post = p /\ worker'.pc = "moderate"
      BY <2>1 DEF WorkerTakes
    <3>2. \A q \in Post : q # p /\ Queued(q) => Queued(q)'
      BY <2>1, Delivered DEF Queued
    <3>3. worker = Idle /\ worker' # Idle
      BY <2>1, <3>1 DEF WorkerTakes
    <3> QED
      BY <3>1, <3>2, <3>3 DEF InWork
  <2>2. CASE Judge
    <3>1. worker'.post = worker.post /\ worker'.pc = "publish"
      BY <2>2 DEF Judge, WorkerTypes
    <3>2. QueueStays /\ worker' # Idle
      BY <2>2, <3>1 DEF Judge
    <3> QED
      BY <3>1, <3>2 DEF InWork, Queued, QueueStays
  <2>3. CASE Unsupported
    <3>1. worker # Idle /\ worker.pc \notin Reports /\ \E pc \in Reports : Reject(pc)
      BY <2>3 DEF Unsupported, Reports
    <3> QED
      BY <3>1, RejectedStays
  <2>4. CASE AttemptFails
    <3>1. worker # Idle /\ worker.pc \notin Reports /\ \E pc \in Reports : Reject(pc)
      BY <2>4 DEF AttemptFails, Reports
    <3> QED
      BY <3>1, RejectedStays
  <2>5. CASE WorkerPublishes
    <3>1. worker'.post = worker.post /\ worker'.pc = "ack"
      BY <2>5 DEF WorkerPublishes, WorkerTypes
    <3>2. QueueStays /\ worker' # Idle
      BY <2>5, <3>1 DEF WorkerPublishes
    <3> QED
      BY <3>1, <3>2 DEF InWork, Queued, QueueStays
  <2>6. CASE WorkerGetsNoAck
    <3>1. worker # Idle /\ worker.pc \notin Reports /\ \E pc \in Reports : Reject(pc)
      BY <2>6 DEF WorkerGetsNoAck, Reports
    <3> QED
      BY <3>1, RejectedStays
  <2>7. CASE WorkerAcks
    <3>1. QueueStays
      BY <2>7 DEF WorkerAcks
    <3>2. \A p \in Post : worker # Idle /\ worker.post = p => Told(p)
      BY <2>7 DEF WorkerAcks, AckedIsTold
    <3> QED
      BY <3>1, <3>2 DEF InWork, Queued, QueueStays
  <2>8. CASE WorkerReports
    <3>1. QueueStays
      BY <2>8 DEF WorkerReports
    <3>2. ASSUME NEW p \in Post, p = worker.post PROVE Told(p)'
      BY <2>8, <3>2, SentTells DEF WorkerReports, Told
    <3> QED
      BY <3>1, <3>2 DEF InWork, Queued, QueueStays
  <2>9. CASE WorkerReportGetsNoAck
    BY <2>9 DEF WorkerReportGetsNoAck, Told
  <2> QED
    BY <1>3, <2>1, <2>2, <2>3, <2>4, <2>5, <2>6, <2>7, <2>8, <2>9
       DEF WorkerActs, WorkerStep
<1>4. CASE WriterActs
  BY <1>4, WriterFrame
<1>5. CASE Breaks
  <2>1. CASE MainLosesLink \/ WriterRestarts
    BY <2>1 DEF MainLosesLink, WriterRestarts, WriterStays
  <2>2. CASE WorkerLosesLink
    <3>1. JobReturns /\ (worker # Idle => worker'.post = worker.post /\ worker'.pc = worker.pc)
      BY <2>2 DEF WorkerLosesLink, WorkerTypes
    <3>2. worker # Idle => worker' # Idle
      BY <3>1
    <3> QED
      BY <3>1, <3>2, ReturnedStays DEF InWork
  <2>3. ASSUME NEW restarted \in BOOLEAN, ChildDies(restarted) PROVE StaysOffered
    <3>1. JobReturns /\ (Reporting => silenced')
      BY <2>3 DEF ChildDies
    <3> QED
      BY <3>1, ReturnedStays DEF Told, InWork
  <2>4. CASE PodRestarts
    <3>1. JobReturns /\ (Reporting => silenced')
      BY <2>4 DEF PodRestarts
    <3> QED
      BY <3>1, ReturnedStays DEF Told, InWork
  <2> QED
    BY <1>5, <2>1, <2>2, <2>3, <2>4 DEF Breaks
<1>6. CASE UNCHANGED vars
  BY <1>6 DEF vars
<1> QED
  BY Actors, <1>1, <1>2, <1>3, <1>4, <1>5, <1>6

LEMMA OffloadedStep ==
  Types /\ Known /\ Released /\ AckedIsTold /\ StoredIsTold /\ OffloadedIsOffered /\ [Next]_vars => OffloadedIsOffered'
<1> SUFFICES ASSUME Types, Known, Released, AckedIsTold, StoredIsTold, OffloadedIsOffered, [Next]_vars
             PROVE  OffloadedIsOffered'
  OBVIOUS
<1>b. main.pc # "idle" => main # Idle /\ main.post \in Post /\ status[main.post] # "none"
  BY Hands DEF Known, KnownPosts
<1>g. StaysOffered
  BY OfferedForGood
<1> USE Hands, IdlePc, <1>b, <1>g
   DEF Types, OffloadedIsOffered, StaysOffered, queues, progress, results, counts
<1>1. CASE Authors
  BY <1>1, AuthorsFrame
<1>2. CASE MainActs
  <2>1. CASE (\E p \in Post : MainTakes(p)) \/ Commit \/ MainReports \/
             MainReportGetsNoAck
    BY <2>1
       DEF MainTakes, Commit, MainReturns, MainReports, Publish,
           MainReportGetsNoAck, PublishGetsNoAck
  <2>2. CASE Offload
    <3>1. PICK p \in Post : p = main.post /\ Queued(p)'
      BY <2>2, SentToQueue DEF Queued
    <3>2. main'.post = p
      BY <2>2, <3>1 DEF Offload, MainTypes
    <3> QED
      BY <3>1, <3>2 DEF Offered, InWork
  <2>3. CASE Offloaded
    <3>1. main.pc # "idle" /\ main'.post = main.post /\ main'.pc = "commit"
      BY <2>3 DEF Offloaded, MainTypes
    <3> QED
      BY <2>3, <3>1 DEF Offloaded
  <2>4. CASE OffloadGivesUp
    <3>1. main.pc # "idle" /\ main'.post = main.post /\ main'.pc = "report"
      BY <2>4 DEF OffloadGivesUp, GiveUp, MainTypes
    <3> QED
      BY <3>1
  <2>5. CASE CommitFails
    <3>1. main.pc # "idle" /\ main'.post = main.post /\ main'.pc = "report"
      BY <2>5 DEF CommitFails, GiveUp, MainTypes
    <3> QED
      BY <3>1
  <2> QED
    BY <1>2, <2>1, <2>2, <2>3, <2>4, <2>5 DEF MainActs, MainStep
<1>3. CASE WorkerActs
  BY <1>3, WorkerFrame
<1>4. CASE WriterActs
  BY <1>4, WriterFrame
<1>5. CASE Breaks
  BY <1>5
     DEF Breaks, MainLosesLink, WorkerLosesLink, JobReturns, ChildDies, Reporting,
         PodRestarts, WriterRestarts, WriterStays
<1>6. CASE UNCHANGED vars
  BY <1>6 DEF vars
<1> QED
  BY Actors, <1>1, <1>2, <1>3, <1>4, <1>5, <1>6

LEMMA PendingStep == WaitInv /\ [Next]_vars => PendingIsKept'
<1> SUFFICES ASSUME WaitInv, [Next]_vars PROVE PendingIsKept'
  OBVIOUS
<1>g. StaysOffered
  BY OfferedForGood DEF WaitInv
<1> USE Hands, IdlePc, <1>g
   DEF WaitInv, Types, StoreTypes, PendingIsKept, AtMain, StaysOffered, queues,
       progress, results, counts
<1>1. CASE Authors
  <2>1. CASE (\E p \in Post : CreatePost(p)) \/ (\E p \in Post : DeletePost(p))
    BY <2>1 DEF CreatePost, DeletePost
  <2>2. ASSUME NEW p \in Post, NEW sent \in BOOLEAN, CreateGetsNoAck(p, sent)
        PROVE  PendingIsKept'
    BY <2>2 DEF CreateGetsNoAck, Offered, Told
  <2> QED
    BY <1>1, <2>1, <2>2 DEF Authors
<1>2. CASE MainActs
  <2>1. ASSUME NEW p \in Post, MainTakes(p) PROVE PendingIsKept'
    BY <2>1 DEF MainTakes
  <2>2. CASE Offload
    <3>1. main' # Idle /\ main'.post = main.post
      BY <2>2 DEF Offload, Types, MainTypes
    <3>2. inbox' = inbox /\ status' = status
      BY <2>2 DEF Offload
    <3> QED
      BY <3>1, <3>2
  <2>3. CASE Offloaded
    <3>1. main' # Idle /\ main'.post = main.post
      BY <2>3 DEF Offloaded, Types, MainTypes
    <3>2. inbox' = inbox /\ status' = status
      BY <2>3 DEF Offloaded
    <3> QED
      BY <3>1, <3>2
  <2>4. CASE Commit
    <3>1. inbox' = inbox /\ status' = status
      BY <2>4 DEF Commit, MainReturns
    <3>2. \A p \in Post : p = main.post => Offered(p)
      BY <2>4 DEF Commit, OffloadedIsOffered
    <3> QED
      BY <3>1, <3>2
  <2>5. CASE OffloadGivesUp
    <3>1. main' # Idle /\ main'.post = main.post
      BY <2>5 DEF OffloadGivesUp, GiveUp, Types, MainTypes
    <3>2. inbox' = inbox /\ status' = status
      BY <2>5 DEF OffloadGivesUp, GiveUp
    <3> QED
      BY <3>1, <3>2
  <2>6. CASE CommitFails
    <3>1. main' # Idle /\ main'.post = main.post
      BY <2>6 DEF CommitFails, GiveUp, Types, MainTypes
    <3>2. inbox' = inbox /\ status' = status
      BY <2>6 DEF CommitFails, GiveUp
    <3> QED
      BY <3>1, <3>2
  <2>7. CASE MainReports
    <3>1. inbox' = inbox /\ status' = status
      BY <2>7 DEF MainReports, Publish, MainReturns
    <3>2. ASSUME NEW p \in Post, p = main.post PROVE Offered(p)'
      BY <2>7, <3>2, SentTells DEF MainReports, Offered, Told
    <3> QED
      BY <3>1, <3>2
  <2>8. CASE MainReportGetsNoAck
    BY <2>8 DEF MainReportGetsNoAck, Offered, Told
  <2> QED
    BY <1>2, <2>1, <2>2, <2>3, <2>4, <2>5, <2>6, <2>7, <2>8 DEF MainActs, MainStep
<1>3. CASE WorkerActs
  BY <1>3, WorkerFrame
<1>4. CASE WriterActs
  <2>1. CASE WriterAnnounces \/ WriterGetsNoAck \/ (\E e \in verdicts :
             WriterFails(e))
    BY <2>1
       DEF WriterAnnounces, WriterReturns, WriterStays, WriterGetsNoAck, WriterFails
  <2>2. ASSUME NEW e \in verdicts, WriterStores(e) PROVE PendingIsKept'
    <3>1. \A p \in Post : status'[p] = "pending" => status[p] = "pending"
      BY <2>2
         DEF WriterStores, Types, StoreTypes, EventTypes, IsEvent, Verdicts, Result
    <3>2. inbox' = inbox /\ main' = main
      BY <2>2 DEF WriterStores, WriterStays
    <3> QED
      BY <3>1, <3>2
  <2> QED
    BY <1>4, <2>1, <2>2 DEF WriterActs, WriterStep
<1>5. CASE Breaks
  BY <1>5
     DEF Breaks, MainLosesLink, WorkerLosesLink, JobReturns, ChildDies, Reporting,
         PodRestarts, WriterRestarts, WriterStays
<1>6. CASE UNCHANGED vars
  BY <1>6 DEF vars
<1> QED
  BY Actors, <1>1, <1>2, <1>3, <1>4, <1>5, <1>6

LEMMA WaitStep == WaitInv /\ [Next]_vars => WaitInv'
BY TypesStep, KnownStep, ReleasedStep, AckedStep, StoredStep, OffloadedStep,
   PendingStep
   DEF WaitInv

LEMMA KeptIsWaiting == WaitInv => PendingIsWaiting
<1> SUFFICES ASSUME WaitInv, NEW p \in Post, status[p] = "pending", ~ silenced
             PROVE  Waiting(p)
  BY DEF PendingIsWaiting
<1>1. AtMain(p) \/ Offered(p)
  BY DEF WaitInv, PendingIsKept
<1>2. Queued(p) => \E redelivered \in BOOLEAN : queue[<<p, redelivered>>] > 0
  BY DEF Queued, Fresh, Back
<1> QED
  BY <1>1, <1>2 DEF AtMain, Offered, Told, InWork, Waiting

\* PendingIsWaiting: for any posts, attachments and number of crashes, lost
\* connections and failing calls, a pending post is in some topic, queue or
\* hand, or a publish went without an ack, a store failed, or a process died
\* with the report of a dropped job.
THEOREM NoPostIsForgotten == Spec => []PendingIsWaiting
<1>1. Init => WaitInv
  BY InitInv
<1>2. WaitInv /\ [Next]_vars => WaitInv'
  BY WaitStep
<1>3. WaitInv => PendingIsWaiting
  BY KeptIsWaiting
<1> QED
  BY <1>1, <1>2, <1>3, PTL DEF Spec

LEMMA SameAttempts ==
  ASSUME Attempted, queue' = queue, attempts' = attempts, worker' = worker \/ worker' = Idle
  PROVE  Attempted'
BY DEF Attempted, Back

LEMMA BackWas ==
  ASSUME Types, NEW p \in Post, NEW redelivered \in BOOLEAN, WorkerTakes(p, redelivered)
  PROVE  /\ \A q \in Post : Back(q)' > 0 => Back(q) > 0
         /\ redelivered => Back(p) > 0
BY Delivered, Counted

LEMMA RejectedAttempt ==
  ASSUME Types, Attempted, worker # Idle, attempts' = attempts, NEW pc \in Reports, Reject(pc)
  PROVE  Attempted'
<1>1. \A p \in Post : Back(p)' > 0 => attempts[p] >= 1
  BY Rejected DEF Attempted, QueueStays, BackInQueue
<1>2. worker' # Idle =>
        worker'.post = worker.post /\ worker.redelivered
  BY Rejected
<1> QED
  BY <1>1, <1>2 DEF Attempted

LEMMA ReturnedAttempt ==
  ASSUME Types, Attempted, JobReturns
  PROVE  \A p \in Post : Back(p)' > 0 => attempts[p] >= 1
BY Returned DEF Attempted, QueueStays, BackInQueue

LEMMA AttemptedStep == Types /\ Attempted /\ [Next]_vars => Attempted'
<1> SUFFICES ASSUME Types, Attempted, [Next]_vars PROVE Attempted'
  OBVIOUS
<1> USE Hands, IdlePc, SameAttempts DEF queues, progress, results, counts
<1>1. CASE Authors
  BY <1>1, AuthorsFrame
<1>2. CASE MainActs
  <2>1. CASE (\E p \in Post : MainTakes(p)) \/ Offloaded \/ Commit \/ OffloadGivesUp
             \/ CommitFails \/ MainReports \/ MainReportGetsNoAck
    BY <2>1
       DEF MainTakes, Offloaded, Commit, MainReturns, OffloadGivesUp, GiveUp,
           CommitFails, MainReports, Publish, MainReportGetsNoAck, PublishGetsNoAck
  <2>2. CASE Offload
    <3>1. worker' = worker /\ attempts' = attempts
      BY <2>2 DEF Offload
    <3>2. \A p \in Post : Back(p)' = Back(p)
      BY <2>2, SentToQueue
    <3> QED
      BY <3>1, <3>2 DEF Attempted
  <2> QED
    BY <1>2, <2>1, <2>2 DEF MainActs, MainStep
<1>3. CASE WorkerActs
  <2>1. CASE WorkerAcks \/ WorkerReports
    BY <2>1 DEF WorkerAcks, WorkerStays, WorkerReports, Publish
  <2>2. ASSUME NEW p \in Post, NEW redelivered \in BOOLEAN, WorkerTakes(p, redelivered)
        PROVE  Attempted'
    <3>1. /\ worker'.post = p /\ worker'.redelivered = redelivered /\ worker'.pc = "moderate"
          /\ attempts' = [attempts EXCEPT ![p] = attempts[p] + 1]
      BY <2>2 DEF WorkerTakes
    <3>2. attempts \in [Post -> Nat]
      BY DEF Types, QueueTypes
    <3>3. /\ \A q \in Post : Back(q)' > 0 => Back(q) > 0
          /\ redelivered => Back(p) > 0
      BY <2>2, BackWas
    <3>4. /\ attempts[p] \in Nat /\ attempts'[p] = attempts[p] + 1
          /\ \A q \in Post : attempts[q] \in Nat /\ attempts'[q] \in Nat /\ attempts'[q] >= attempts[q]
      BY <3>1, <3>2
    <3>5. \A q \in Post : Back(q)' > 0 => attempts'[q] >= 1
      BY <3>3, <3>4 DEF Attempted
    <3>6. attempts'[p] >= 1 /\ (redelivered => attempts'[p] >= 2)
      BY <3>3, <3>4 DEF Attempted
    <3> QED
      BY <3>1, <3>5, <3>6 DEF Attempted, Reports
  <2>3. CASE Judge
    <3>1. /\ worker # Idle /\ worker'.post = worker.post /\ worker'.pc = "publish"
          /\ worker'.redelivered = worker.redelivered
      BY <2>3 DEF Judge, Types, WorkerTypes
    <3>2. attempts' = attempts /\ queue' = queue
      BY <2>3 DEF Judge
    <3> QED
      BY <3>1, <3>2 DEF Attempted, Back, Reports
  <2>4. CASE Unsupported
    <3>1. worker # Idle /\ attempts' = attempts /\ \E pc \in Reports : Reject(pc)
      BY <2>4 DEF Unsupported, Reports
    <3> QED
      BY <3>1, RejectedAttempt
  <2>5. CASE AttemptFails
    <3>1. worker # Idle /\ attempts' = attempts /\ \E pc \in Reports : Reject(pc)
      BY <2>5 DEF AttemptFails, Reports
    <3> QED
      BY <3>1, RejectedAttempt
  <2>6. CASE WorkerPublishes
    <3>1. /\ worker # Idle /\ worker'.post = worker.post /\ worker'.pc = "ack"
          /\ worker'.redelivered = worker.redelivered
      BY <2>6 DEF WorkerPublishes, Types, WorkerTypes
    <3>2. attempts' = attempts /\ queue' = queue
      BY <2>6 DEF WorkerPublishes
    <3> QED
      BY <3>1, <3>2 DEF Attempted, Back, Reports
  <2>7. CASE WorkerGetsNoAck
    <3>1. worker # Idle /\ attempts' = attempts /\ \E pc \in Reports : Reject(pc)
      BY <2>7 DEF WorkerGetsNoAck, Reports
    <3> QED
      BY <3>1, RejectedAttempt
  <2>8. CASE WorkerReportGetsNoAck
    <3>1. /\ worker # Idle /\ worker.pc \in Reports
          /\ worker' # Idle => worker'.post = worker.post
      BY <2>8 DEF WorkerReportGetsNoAck, Reports, Types, WorkerTypes
    <3>2. attempts' = attempts /\ queue' = queue
      BY <2>8 DEF WorkerReportGetsNoAck
    <3> QED
      BY <3>1, <3>2 DEF Attempted, Back, Reports
  <2> QED
    BY <1>3, <2>1, <2>2, <2>3, <2>4, <2>5, <2>6, <2>7, <2>8
       DEF WorkerActs, WorkerStep
<1>4. CASE WriterActs
  BY <1>4, WriterFrame
<1>5. CASE Breaks
  <2>1. CASE MainLosesLink \/ WriterRestarts
    BY <2>1 DEF MainLosesLink, WriterRestarts, WriterStays
  <2>2. CASE WorkerLosesLink
    <3>1. attempts' = attempts /\ JobReturns
      BY <2>2 DEF WorkerLosesLink
    <3>2. worker' # Idle =>
            /\ worker # Idle /\ worker'.post = worker.post
            /\ worker'.redelivered = worker.redelivered /\ worker'.pc = worker.pc
      BY <2>2 DEF WorkerLosesLink, Types, WorkerTypes
    <3> QED
      BY <3>1, <3>2, ReturnedAttempt DEF Attempted
  <2>3. ASSUME NEW restarted \in BOOLEAN, ChildDies(restarted) PROVE Attempted'
    <3>1. worker' = Idle /\ attempts' = attempts /\ JobReturns
      BY <2>3 DEF ChildDies
    <3> QED
      BY <3>1, ReturnedAttempt DEF Attempted
  <2>4. CASE PodRestarts
    <3>1. worker' = Idle /\ attempts' = attempts /\ JobReturns
      BY <2>4 DEF PodRestarts
    <3> QED
      BY <3>1, ReturnedAttempt DEF Attempted
  <2> QED
    BY <1>5, <2>1, <2>2, <2>3, <2>4 DEF Breaks
<1>6. CASE UNCHANGED vars
  BY <1>6 DEF vars
<1> QED
  BY Actors, <1>1, <1>2, <1>3, <1>4, <1>5, <1>6

LEMMA NoFailureStep == Types /\ NoFailure /\ [Next]_vars => NoFailure'
<1> SUFFICES ASSUME Types, NoFailure, [Next]_vars PROVE NoFailure'
  OBVIOUS
<1> USE Hands, IdlePc DEF Types, NoFailure, queues, progress, results, counts
<1>1. CASE Authors
  BY <1>1, AuthorsFrame
<1>2. CASE MainActs
  BY <1>2, MainFrame
<1>3. CASE WorkerActs
  <2>1. ASSUME NEW p \in Post, NEW redelivered \in BOOLEAN, WorkerTakes(p, redelivered)
        PROVE  NoFailure'
    BY <2>1 DEF WorkerTakes
  <2>2. CASE Judge
    <3>1. worker'.result = Verdict(worker.post)
      BY <2>2 DEF Judge, WorkerTypes
    <3> QED
      BY <3>1, Verdicted
  <2>3. CASE Unsupported
    <3>1. worker' = Idle \/ worker'.pc \in Reports
      BY <2>3, Rejected DEF Unsupported, Reports
    <3> QED
      BY <3>1 DEF Reports
  <2>4. CASE AttemptFails
    <3>1. worker' = Idle \/ worker'.pc \in Reports
      BY <2>4, Rejected DEF AttemptFails, Reports
    <3> QED
      BY <3>1 DEF Reports
  <2>5. CASE WorkerPublishes
    <3>1. worker'.pc = "ack"
      BY <2>5 DEF WorkerPublishes, WorkerTypes
    <3> QED
      BY <3>1
  <2>6. CASE WorkerGetsNoAck
    <3>1. worker' = Idle \/ worker'.pc \in Reports
      BY <2>6, Rejected DEF WorkerGetsNoAck, Reports
    <3> QED
      BY <3>1 DEF Reports
  <2>7. CASE WorkerAcks
    BY <2>7 DEF WorkerAcks, WorkerStays
  <2>8. CASE WorkerReports
    BY <2>8 DEF WorkerReports, Publish, WorkerStays
  <2>9. CASE WorkerReportGetsNoAck
    <3>1. worker' = Idle \/ worker'.pc = "last report"
      BY <2>9 DEF WorkerReportGetsNoAck, WorkerTypes
    <3> QED
      BY <3>1
  <2> QED
    BY <1>3, <2>1, <2>2, <2>3, <2>4, <2>5, <2>6, <2>7, <2>8, <2>9
       DEF WorkerActs, WorkerStep
<1>4. CASE WriterActs
  BY <1>4, WriterFrame
<1>5. CASE Breaks
  <2>1. CASE MainLosesLink \/ (\E restarted \in BOOLEAN : ChildDies(restarted)) \/
             PodRestarts \/ WriterRestarts
    BY <2>1
       DEF MainLosesLink, ChildDies, JobReturns, Reporting, PodRestarts,
           WriterRestarts, WriterStays
  <2>2. CASE WorkerLosesLink
    <3>1. worker' = Idle \/ (worker'.pc = worker.pc /\ worker'.result = worker.result)
      BY <2>2 DEF WorkerLosesLink, WorkerTypes
    <3> QED
      BY <3>1
  <2> QED
    BY <1>5, <2>1, <2>2 DEF Breaks
<1>6. CASE UNCHANGED vars
  BY <1>6 DEF vars
<1> QED
  BY Actors, <1>1, <1>2, <1>3, <1>4, <1>5, <1>6

LEMMA ReportIsDueStep == Types /\ ReportIsDue /\ [Next]_vars => ReportIsDue'
<1> SUFFICES ASSUME Types, ReportIsDue, [Next]_vars PROVE ReportIsDue'
  OBVIOUS
<1>b. main.pc # "idle" => main # Idle /\ main.post \in Post
  BY Hands
<1> USE Hands, IdlePc, <1>b
   DEF Types, ReportIsDue, queues, progress, results, counts
<1>1. CASE Authors
  BY <1>1, AuthorsFrame
<1>2. CASE MainActs
  <2>1. CASE (\E p \in Post : MainTakes(p)) \/ Commit \/ MainReports \/
             MainReportGetsNoAck
    BY <2>1
       DEF MainTakes, Commit, MainReturns, MainReports, Publish,
           MainReportGetsNoAck, PublishGetsNoAck
  <2>2. CASE Offload
    <3>1. main'.pc = "confirm"
      BY <2>2 DEF Offload, MainTypes
    <3> QED
      BY <3>1
  <2>3. CASE Offloaded
    <3>1. main'.pc = "commit"
      BY <2>3 DEF Offloaded, MainTypes
    <3> QED
      BY <3>1
  <2>4. CASE OffloadGivesUp
    <3>1. main'.post = main.post /\ gaveUp' = gaveUp \cup {main.post}
      BY <2>4, <1>b DEF OffloadGivesUp, GiveUp, MainTypes
    <3> QED
      BY <3>1
  <2>5. CASE CommitFails
    <3>1. main'.post = main.post /\ gaveUp' = gaveUp \cup {main.post}
      BY <2>5, <1>b DEF CommitFails, GiveUp, MainTypes
    <3> QED
      BY <3>1
  <2> QED
    BY <1>2, <2>1, <2>2, <2>3, <2>4, <2>5 DEF MainActs, MainStep
<1>3. CASE WorkerActs
  BY <1>3, WorkerFrame
<1>4. CASE WriterActs
  BY <1>4, WriterFrame
<1>5. CASE Breaks
  <2>1. CASE MainLosesLink
    BY <2>1 DEF MainLosesLink
  <2>2. CASE WorkerLosesLink
    BY <2>2 DEF WorkerLosesLink, JobReturns
  <2>3. ASSUME NEW restarted \in BOOLEAN, ChildDies(restarted) PROVE ReportIsDue'
    BY <2>3 DEF ChildDies, JobReturns, Reporting
  <2>4. CASE PodRestarts
    BY <2>4 DEF PodRestarts, JobReturns, Reporting
  <2>5. CASE WriterRestarts
    BY <2>5 DEF WriterRestarts, WriterStays
  <2> QED
    BY <1>5, <2>1, <2>2, <2>3, <2>4, <2>5 DEF Breaks
<1>6. CASE UNCHANGED vars
  BY <1>6 DEF vars
<1> QED
  BY Actors, <1>1, <1>2, <1>3, <1>4, <1>5, <1>6

\* A failure that may be told stays so.
StaysMayFail == \A p \in Post : MayFail(p) => MayFail(p)'

LEMMA MayFailForGood == Types /\ [Next]_vars => StaysMayFail
<1> SUFFICES ASSUME Types, [Next]_vars PROVE StaysMayFail
  OBVIOUS
<1> USE 
   DEF Types, QueueTypes, MayFail, StaysMayFail, queues, progress, results, counts
<1>1. CASE Authors
  BY <1>1, AuthorsFrame
<1>2. CASE MainActs
  BY <1>2
     DEF MainActs, MainStep, MainTakes, Offload, Offloaded, Commit, MainReturns,
         OffloadGivesUp, GiveUp, CommitFails, MainReports, Publish,
         MainReportGetsNoAck, PublishGetsNoAck
<1>3. CASE WorkerActs
  <2>1. ASSUME NEW p \in Post, NEW redelivered \in BOOLEAN, WorkerTakes(p, redelivered)
        PROVE  StaysMayFail
    BY <2>1 DEF WorkerTakes
  <2>2. CASE Judge
    BY <2>2 DEF Judge, Verdict, WorkerStays
  <2>3. CASE Unsupported
    BY <2>3 DEF Unsupported, Reject, GivesUp, WorkerStays
  <2>4. CASE AttemptFails
    BY <2>4 DEF AttemptFails, Reject, GivesUp, WorkerStays
  <2>5. CASE WorkerPublishes
    BY <2>5 DEF WorkerPublishes, Publish, WorkerStays
  <2>6. CASE WorkerGetsNoAck
    BY <2>6 DEF WorkerGetsNoAck, PublishGetsNoAck, Reject, GivesUp, WorkerStays
  <2>7. CASE WorkerAcks
    BY <2>7 DEF WorkerAcks, WorkerStays
  <2>8. CASE WorkerReports
    BY <2>8 DEF WorkerReports, Publish, WorkerStays
  <2>9. CASE WorkerReportGetsNoAck
    BY <2>9 DEF WorkerReportGetsNoAck, PublishGetsNoAck, WorkerStays
  <2> QED
    BY <1>3, <2>1, <2>2, <2>3, <2>4, <2>5, <2>6, <2>7, <2>8, <2>9
       DEF WorkerActs, WorkerStep
<1>4. CASE WriterActs
  BY <1>4, WriterFrame
<1>5. CASE Breaks
  BY <1>5, BreaksFrame
<1>6. CASE UNCHANGED vars
  BY <1>6 DEF vars
<1> QED
  BY Actors, <1>1, <1>2, <1>3, <1>4, <1>5, <1>6

LEMMA OneMoreFailure ==
  ASSUME EventTypes, EventsMayFail, StaysMayFail, NEW p \in Post, MayFail(p),
         Verdicts' \subseteq Verdicts \cup Sent(p, "failed")
  PROVE  EventsMayFail'
BY SentIs DEF EventTypes, IsEvent, EventsMayFail, StaysMayFail

LEMMA EventsMayFailStep == Types /\ RetryInv /\ [Next]_vars => EventsMayFail'
<1> SUFFICES ASSUME Types, RetryInv, [Next]_vars PROVE EventsMayFail'
  OBVIOUS
<1>a. \A p, result : \A e \in Sent(p, result) : e.post = p /\ e.result = result
  BY SentIs
<1>b. main.pc # "idle" => main # Idle /\ main.post \in Post
  BY Hands
<1>c. worker.pc # "idle" => worker # Idle /\ worker.post \in Post
  BY Hands
<1>i. StaysMayFail
  BY MayFailForGood
<1> USE Hands, <1>a, <1>b, <1>c, <1>i
   DEF Types, EventTypes, IsEvent, RetryInv, NoFailure, ReportIsDue, EventsMayFail,
       StaysMayFail, Verdicts, queues, progress, results, counts
<1>1. CASE Authors
  BY <1>1, AuthorsFrame
<1>2. CASE MainActs
  <2>1. CASE (\E p \in Post : MainTakes(p)) \/ Offload \/ Offloaded \/ Commit \/
             OffloadGivesUp \/ CommitFails
    BY <2>1
       DEF MainTakes, Offload, Offloaded, Commit, MainReturns, OffloadGivesUp,
           GiveUp, CommitFails
  <2>2. CASE MainReports
    <3>1. PICK p \in Post : p = main.post /\ MayFail(p)
      BY <2>2 DEF MainReports, ReportIsDue, MayFail
    <3>2. Verdicts' \subseteq Verdicts \cup Sent(p, "failed")
      BY <2>2, <3>1 DEF MainReports, Publish, MainReturns, Verdicts
    <3> QED
      BY <3>1, <3>2, OneMoreFailure
  <2>3. CASE MainReportGetsNoAck
    <3>1. PICK p \in Post : p = main.post /\ MayFail(p)
      BY <2>3 DEF MainReportGetsNoAck, ReportIsDue, MayFail
    <3>2. Verdicts' \subseteq Verdicts \cup Sent(p, "failed")
      BY <2>3, <3>1 DEF MainReportGetsNoAck, PublishGetsNoAck, MainReturns, Verdicts
    <3> QED
      BY <3>1, <3>2, OneMoreFailure
  <2> QED
    BY <1>2, <2>1, <2>2, <2>3 DEF MainActs, MainStep
<1>3. CASE WorkerActs
  <2>1. ASSUME NEW p \in Post, NEW redelivered \in BOOLEAN, WorkerTakes(p, redelivered)
        PROVE  EventsMayFail'
    BY <2>1 DEF WorkerTakes
  <2>2. CASE Judge
    BY <2>2 DEF Judge, Verdict, WorkerStays
  <2>3. CASE Unsupported
    BY <2>3 DEF Unsupported, Reject, GivesUp, WorkerStays
  <2>4. CASE AttemptFails
    BY <2>4 DEF AttemptFails, Reject, GivesUp, WorkerStays
  <2>5. CASE WorkerPublishes
    BY <2>5 DEF WorkerPublishes, Publish, WorkerStays
  <2>6. CASE WorkerGetsNoAck
    BY <2>6 DEF WorkerGetsNoAck, PublishGetsNoAck, Reject, GivesUp, WorkerStays
  <2>7. CASE WorkerAcks
    BY <2>7 DEF WorkerAcks, WorkerStays
  <2>8. CASE WorkerReports
    <3>1. PICK p \in Post : p = worker.post /\ MayFail(p)
      BY <2>8 DEF WorkerReports, Attempted, Reports, MayFail
    <3>2. Verdicts' \subseteq Verdicts \cup Sent(p, "failed")
      BY <2>8, <3>1 DEF WorkerReports, Publish, WorkerStays, Verdicts
    <3> QED
      BY <3>1, <3>2, OneMoreFailure
  <2>9. CASE WorkerReportGetsNoAck
    <3>1. PICK p \in Post : p = worker.post /\ MayFail(p)
      BY <2>9 DEF WorkerReportGetsNoAck, Attempted, Reports, MayFail
    <3>2. Verdicts' \subseteq Verdicts \cup Sent(p, "failed")
      BY <2>9, <3>1
         DEF WorkerReportGetsNoAck, PublishGetsNoAck, WorkerStays, Verdicts
    <3> QED
      BY <3>1, <3>2, OneMoreFailure
  <2> QED
    BY <1>3, <2>1, <2>2, <2>3, <2>4, <2>5, <2>6, <2>7, <2>8, <2>9
       DEF WorkerActs, WorkerStep
<1>4. CASE WriterActs
  BY <1>4
     DEF WriterActs, WriterStep, WriterStores, WriterStays, WriterAnnounces,
         WriterReturns, WriterGetsNoAck, WriterFails
<1>5. CASE Breaks
  BY <1>5
     DEF Breaks, MainLosesLink, WorkerLosesLink, JobReturns, ChildDies, Reporting,
         PodRestarts, WriterRestarts, WriterStays
<1>6. CASE UNCHANGED vars
  BY <1>6 DEF vars
<1> QED
  BY Actors, <1>1, <1>2, <1>3, <1>4, <1>5, <1>6

LEMMA StatusMayFailStep == Types /\ RetryInv /\ [Next]_vars => StatusMayFail'
<1> SUFFICES ASSUME Types, RetryInv, [Next]_vars PROVE StatusMayFail'
  OBVIOUS
<1>i. StaysMayFail
  BY MayFailForGood
<1> USE Hands, <1>i
   DEF Types, StoreTypes, EventTypes, IsEvent, RetryInv, EventsMayFail,
       StatusMayFail, StaysMayFail, Verdicts, queues, progress, results, counts
<1>1. CASE Authors
  BY <1>1 DEF Authors, CreatePost, DeletePost, CreateGetsNoAck
<1>2. CASE MainActs
  BY <1>2, MainFrame
<1>3. CASE WorkerActs
  BY <1>3, WorkerFrame
<1>4. CASE WriterActs
  BY <1>4
     DEF WriterActs, WriterStep, WriterStores, WriterStays, WriterAnnounces,
         WriterReturns, WriterGetsNoAck, WriterFails
<1>5. CASE Breaks
  BY <1>5, BreaksFrame
<1>6. CASE UNCHANGED vars
  BY <1>6 DEF vars
<1> QED
  BY Actors, <1>1, <1>2, <1>3, <1>4, <1>5, <1>6

LEMMA RetryStep == Types /\ RetryInv /\ [Next]_vars => RetryInv'
BY AttemptedStep, NoFailureStep, ReportIsDueStep, EventsMayFailStep,
   StatusMayFailStep
   DEF RetryInv

LEMMA HeldKept ==
  ASSUME Types, [Next]_vars, worker # Idle \/ worker' = Idle
  PROVE  \A p \in Post : Held(p)' => Held(p)
BY SameJob DEF OneJob, Held

LEMMA SameBudget ==
  ASSUME Types, BudgetInv, [Next]_vars, queue' = queue, attempts' = attempts,
         offloads' = offloads, cutShort' = cutShort,
         worker' = worker \/ worker' = Idle \/ worker # Idle
  PROVE  BudgetInv'
<1> SUFFICES ASSUME NEW p \in Post PROVE Spent(p)' <= Granted(p)'
  BY DEF BudgetInv
<1>1. Held(p)' => Held(p)
  BY HeldKept DEF Held
<1>2. /\ attempts[p] \in Nat /\ offloads[p] \in Nat /\ cutShort[p] \in Nat
      /\ Fresh(p) \in Nat /\ Back(p) \in Nat
  BY Counted DEF Types, QueueTypes
<1>3. /\ Fresh(p)' = Fresh(p) /\ Back(p)' = Back(p) /\ attempts'[p] = attempts[p]
      /\ offloads'[p] = offloads[p] /\ cutShort'[p] = cutShort[p]
  BY DEF Fresh, Back
<1>4. Spent(p) <= Granted(p)
  BY DEF BudgetInv
<1> QED
  BY <1>1, <1>2, <1>3, <1>4 DEF Spent, Granted

LEMMA RejectedBudget ==
  ASSUME Types, BudgetInv, [Next]_vars, attempts' = attempts, offloads' = offloads,
         cutShort' = cutShort, worker # Idle, NEW pc, Reject(pc)
  PROVE  BudgetInv'
<1> SUFFICES ASSUME NEW p \in Post PROVE Spent(p)' <= Granted(p)'
  BY DEF BudgetInv
<1>1. Held(p)' => Held(p)
  BY HeldKept
<1>2. /\ attempts[p] \in Nat /\ offloads[p] \in Nat /\ cutShort[p] \in Nat
      /\ Fresh(p) \in Nat /\ Back(p) \in Nat /\ Spent(p) <= Granted(p)
  BY Counted DEF Types, QueueTypes, BudgetInv
<1>3. CASE QueueStays
  <2>1. Fresh(p)' = Fresh(p) /\ Back(p)' = Back(p)
    BY <1>3 DEF QueueStays
  <2> QED
    BY <1>1, <1>2, <2>1 DEF Spent, Granted
<1>4. CASE /\ worker.held /\ ~ worker.redelivered /\ worker' = Idle
           /\ \E q \in Post : q = worker.post /\ BackInQueue(q)
  <2>1. ~ Held(p)'
    BY <1>4 DEF Held
  <2>2. Fresh(p)' = Fresh(p) /\ \/ Back(p)' = Back(p)
                                \/ Back(p)' = Back(p) + 1 /\ Held(p)
    BY <1>4 DEF BackInQueue, Held
  <2> QED
    BY <1>2, <2>1, <2>2 DEF Spent, Granted
<1> QED
  BY <1>3, <1>4, Rejected

LEMMA ReturnedBudget ==
  ASSUME Types, BudgetInv, attempts' = attempts, offloads' = offloads, JobReturns,
         \A p \in Post : ~ Held(p)'
  PROVE  BudgetInv'
<1> SUFFICES ASSUME NEW p \in Post PROVE Spent(p)' <= Granted(p)'
  BY DEF BudgetInv
<1>1. /\ attempts[p] \in Nat /\ offloads[p] \in Nat /\ cutShort[p] \in Nat
      /\ Fresh(p) \in Nat /\ Back(p) \in Nat /\ Spent(p) <= Granted(p)
  BY Counted DEF Types, QueueTypes, BudgetInv
<1>2. Fresh(p)' = Fresh(p) /\ \/ Back(p)' = Back(p) /\ cutShort'[p] = cutShort[p]
                              \/ Back(p)' = Back(p) + 1 /\ cutShort'[p] = cutShort[p] + 1
  <2>1. CASE worker # Idle /\ worker.held
    <3>1. PICK q \in Post : BackInQueue(q) /\ cutShort' = [cutShort EXCEPT ![q] = @ + 1]
      BY <2>1, Returned
    <3>2. CASE p = q
      BY <3>1, <3>2 DEF BackInQueue, Types, QueueTypes
    <3>3. CASE p # q
      BY <3>1, <3>3 DEF BackInQueue, Types, QueueTypes
    <3> QED
      BY <3>2, <3>3
  <2>2. CASE ~ (worker # Idle /\ worker.held)
    BY <2>2, Returned DEF QueueStays
  <2> QED
    BY <2>1, <2>2
<1> QED
  BY <1>1, <1>2 DEF Spent, Granted

LEMMA DeliveredBudget ==
  ASSUME Types, BudgetInv, NEW q \in Post, NEW redelivered \in BOOLEAN,
         WorkerTakes(q, redelivered)
  PROVE  BudgetInv'
<1> SUFFICES ASSUME NEW p \in Post PROVE Spent(p)' <= Granted(p)'
  BY DEF BudgetInv
<1>1. /\ attempts[p] \in Nat /\ offloads[p] \in Nat /\ cutShort[p] \in Nat
      /\ Fresh(p) \in Nat /\ Back(p) \in Nat /\ Spent(p) <= Granted(p)
  BY Counted DEF Types, QueueTypes, BudgetInv
<1>2. ~ Held(p) /\ (Held(p)' => p = q /\ ~ redelivered)
  BY DEF WorkerTakes, Held
<1>3. offloads'[p] = offloads[p] /\ cutShort'[p] = cutShort[p]
  BY DEF WorkerTakes, counts
<1>4. attempts'[p] = IF p = q THEN attempts[p] + 1 ELSE attempts[p]
  BY DEF WorkerTakes, Types, QueueTypes
<1>5. CASE p # q
  <2>1. Fresh(p)' = Fresh(p) /\ Back(p)' = Back(p)
    BY <1>5, Delivered
  <2> QED
    BY <1>1, <1>2, <1>3, <1>4, <1>5, <2>1 DEF Spent, Granted
<1>6. CASE p = q /\ redelivered
  <2>1. Fresh(p)' = Fresh(p) /\ Back(p)' = Back(p) - 1
    BY <1>6, Delivered
  <2> QED
    BY <1>1, <1>2, <1>3, <1>4, <1>6, <2>1 DEF Spent, Granted
<1>7. CASE p = q /\ ~ redelivered
  <2>1. Fresh(p)' = Fresh(p) - 1 /\ Back(p)' = Back(p)
    BY <1>7, Delivered
  <2> QED
    BY <1>1, <1>2, <1>3, <1>4, <1>7, <2>1 DEF Spent, Granted
<1> QED
  BY <1>5, <1>6, <1>7

LEMMA OffloadBudget == ASSUME Types, BudgetInv, Offload PROVE BudgetInv'
<1> SUFFICES ASSUME NEW p \in Post PROVE Spent(p)' <= Granted(p)'
  BY DEF BudgetInv
<1>1. /\ attempts[p] \in Nat /\ offloads[p] \in Nat /\ cutShort[p] \in Nat
      /\ Fresh(p) \in Nat /\ Back(p) \in Nat /\ Spent(p) <= Granted(p)
  BY Counted DEF Types, QueueTypes, BudgetInv
<1>2. /\ attempts'[p] = attempts[p] /\ cutShort'[p] = cutShort[p] /\ worker' = worker
      /\ offloads' = [offloads EXCEPT ![main.post] = offloads[main.post] + 1]
  BY DEF Offload
<1>3. Held(p)' = Held(p)
  BY <1>2 DEF Held
<1>4. PICK q \in Post : /\ q = main.post /\ Fresh(q)' = Fresh(q) + 1
                        /\ \A r \in Post : r # q => Fresh(r)' = Fresh(r)
                        /\ \A r \in Post : Back(r)' = Back(r)
  BY SentToQueue
<1>5. offloads'[p] = IF p = q THEN offloads[p] + 1 ELSE offloads[p]
  BY <1>2, <1>4 DEF Types, QueueTypes
<1>6. Fresh(p)' = IF p = q THEN Fresh(p) + 1 ELSE Fresh(p)
  BY <1>4
<1>7. Back(p)' = Back(p)
  BY <1>4
<1> QED
  BY <1>1, <1>2, <1>3, <1>5, <1>6, <1>7 DEF Spent, Granted

LEMMA BudgetStep == Types /\ BudgetInv /\ [Next]_vars => BudgetInv'
<1> SUFFICES ASSUME Types, BudgetInv, [Next]_vars PROVE BudgetInv'
  OBVIOUS
<1> USE Hands, SameBudget DEF queues, progress, results, counts
<1>1. CASE Authors
  BY <1>1, AuthorsFrame
<1>2. CASE MainActs
  <2>1. CASE (\E p \in Post : MainTakes(p)) \/ Offloaded \/ Commit \/ OffloadGivesUp
             \/ CommitFails \/ MainReports \/ MainReportGetsNoAck
    BY <2>1
       DEF MainTakes, Offloaded, Commit, MainReturns, OffloadGivesUp, GiveUp,
           CommitFails, MainReports, Publish, MainReportGetsNoAck, PublishGetsNoAck
  <2>2. CASE Offload
    BY <2>2, OffloadBudget
  <2> QED
    BY <1>2, <2>1, <2>2 DEF MainActs, MainStep
<1>3. CASE WorkerActs
  <2>1. CASE Judge \/ WorkerPublishes \/ WorkerAcks \/ WorkerReports \/
             WorkerReportGetsNoAck
    BY <2>1
       DEF Judge, Verdict, WorkerStays, WorkerPublishes, Publish, WorkerAcks,
           WorkerReports, WorkerReportGetsNoAck, PublishGetsNoAck
  <2>2. ASSUME NEW p \in Post, NEW redelivered \in BOOLEAN, WorkerTakes(p, redelivered)
        PROVE  BudgetInv'
    BY <2>2, DeliveredBudget
  <2>3. CASE Unsupported
    <3>1. worker # Idle /\ UNCHANGED counts /\ \E pc \in Reports : Reject(pc)
      BY <2>3 DEF Unsupported, Reports
    <3> QED
      BY <3>1, RejectedBudget DEF counts
  <2>4. CASE AttemptFails
    <3>1. worker # Idle /\ UNCHANGED counts /\ \E pc \in Reports : Reject(pc)
      BY <2>4 DEF AttemptFails, Reports
    <3> QED
      BY <3>1, RejectedBudget DEF counts
  <2>5. CASE WorkerGetsNoAck
    <3>1. worker # Idle /\ UNCHANGED counts /\ \E pc \in Reports : Reject(pc)
      BY <2>5 DEF WorkerGetsNoAck, Reports
    <3> QED
      BY <3>1, RejectedBudget DEF counts
  <2> QED
    BY <1>3, <2>1, <2>2, <2>3, <2>4, <2>5 DEF WorkerActs, WorkerStep
<1>4. CASE WriterActs
  BY <1>4, WriterFrame
<1>5. CASE Breaks
  <2>1. CASE MainLosesLink \/ WriterRestarts
    BY <2>1 DEF MainLosesLink, WriterRestarts, WriterStays
  <2>2. CASE WorkerLosesLink
    <3>1. attempts' = attempts /\ offloads' = offloads /\ JobReturns
      BY <2>2 DEF WorkerLosesLink
    <3>2. worker' = Idle \/ ~ worker'.held
      BY <2>2 DEF WorkerLosesLink, WorkerTypes, Types
    <3>3. \A p \in Post : ~ Held(p)'
      BY <3>2 DEF Held
    <3> QED
      BY <3>1, <3>3, ReturnedBudget
  <2>3. ASSUME NEW restarted \in BOOLEAN, ChildDies(restarted) PROVE BudgetInv'
    <3>1. attempts' = attempts /\ offloads' = offloads /\ JobReturns
      BY <2>3 DEF ChildDies
    <3>2. worker' = Idle \/ ~ worker'.held
      BY <2>3 DEF ChildDies
    <3>3. \A p \in Post : ~ Held(p)'
      BY <3>2 DEF Held
    <3> QED
      BY <3>1, <3>3, ReturnedBudget
  <2>4. CASE PodRestarts
    <3>1. attempts' = attempts /\ offloads' = offloads /\ JobReturns
      BY <2>4 DEF PodRestarts
    <3>2. worker' = Idle \/ ~ worker'.held
      BY <2>4 DEF PodRestarts
    <3>3. \A p \in Post : ~ Held(p)'
      BY <3>2 DEF Held
    <3> QED
      BY <3>1, <3>3, ReturnedBudget
  <2> QED
    BY <1>5, <2>1, <2>2, <2>3, <2>4 DEF Breaks
<1>6. CASE UNCHANGED vars
  BY <1>6 DEF vars
<1> QED
  BY Actors, <1>1, <1>2, <1>3, <1>4, <1>5, <1>6

\* FailedIsRetried: for any posts, attachments and number of faults, a post
\* fails only after two attempts at it or when the main process gave it up, and
\* the child process attempts it at most twice each time it is queued, and once
\* more for each attempt that a crash or a lost connection cut short.
THEOREM FailuresAreRetried == Spec => []FailedIsRetried
<1> DEFINE Inv == Types /\ RetryInv /\ BudgetInv
<1>1. Init => Inv
  BY InitInv DEF WaitInv
<1>2. Inv /\ [Next]_vars => Inv'
  BY TypesStep, RetryStep, BudgetStep
<1>3. Inv => FailedIsRetried
  <2> SUFFICES ASSUME Inv, NEW p \in Post
               PROVE  /\ status[p] = "failed" => attempts[p] >= 2 \/ p \in gaveUp
                      /\ attempts[p] <= 2 * offloads[p] + cutShort[p]
    BY DEF FailedIsRetried
  <2>1. status[p] = "failed" => attempts[p] >= 2 \/ p \in gaveUp
    BY DEF RetryInv, StatusMayFail, MayFail
  <2>2. /\ attempts[p] \in Nat /\ offloads[p] \in Nat /\ cutShort[p] \in Nat
        /\ Fresh(p) \in Nat /\ Back(p) \in Nat /\ Spent(p) <= Granted(p)
    BY Counted DEF Types, QueueTypes, BudgetInv
  <2>3. attempts[p] <= 2 * offloads[p] + cutShort[p]
    BY <2>2 DEF Spent, Granted
  <2> QED
    BY <2>1, <2>3
<1> QED
  BY <1>1, <1>2, <1>3, PTL DEF Spec
=============================================================================
