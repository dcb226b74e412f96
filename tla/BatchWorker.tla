---------------------------- MODULE BatchWorker ----------------------------
(***************************************************************************)
(* The dual-buffer batching consumer of writer-service, as written in      *)
(* CommentLikeCountWorker.consumer.ts: COMMENT_LIKED events are gathered    *)
(* in activeBatch, and a flush (started by the interval timer, or by        *)
(* eachMessage when the batch is full) swaps the buffers, adds the batch    *)
(* to the like counts with $inc, commits the Kafka offsets by hand and      *)
(* clears the flushed buffer.  Several calls of rotateAndflushBatch may     *)
(* overlap: each one is an activation with a program counter of its own,    *)
(* and gives up control only where the code awaits.                         *)
(*                                                                          *)
(* Offsets are 1-based here: <<p, o>> is the message at Kafka offset o - 1  *)
(* of partition p, so "commit o" is the code's String(offset + 1).          *)
(* Map<commentId, diff> is kept per message, which is the same sum with     *)
(* its terms still told apart.  A definition marked "slip" is a faulty       *)
(* variant of the one after it: the properties are tested against it.       *)
(***************************************************************************)
EXTENDS Naturals, Sequences, FiniteSets

CONSTANTS
  Partition,     \* partitions of COMMENT_LIKED_EVENT_TOPIC
  Comment,       \* comment ids
  Tick,          \* interval timer calls of rotateAndflushBatch
  Consumer,      \* the call made by eachMessage, which awaits it
  MaxBatchSize,  \* _MAX_BATCH_SIZE
  MaxLog,        \* bound: messages per partition
  MaxMessages,   \* bound: messages in all of them
  MaxRewinds,    \* bound: crashes and rebalances
  MaxDbErrors    \* bound: failing bulk writes

ASSUME BatchWorkerAssumption ==
  /\ Consumer \notin Tick
  /\ {MaxBatchSize, MaxLog, MaxMessages, MaxRewinds, MaxDbErrors} \subseteq Nat

Activation == Tick \cup {Consumer}
Offset     == 0 .. MaxLog
Message    == Partition \X (1 .. MaxLog)

VARIABLES
  log,        \* the topic: per partition, the liked comment of each message
  position,   \* per partition, the last message handed to eachMessage
  committed,  \* per partition, the committed offset
  active,     \* activeBatch
  flushing,   \* flushingBatch
  pc,         \* where each activation of rotateAndflushBatch stands
  dto,        \* the diff each activation computed from its batch
  applied,    \* how often each message was added to its comment's likeCount
  failed,     \* messages of a bulk write that failed without applying them
  rewinds,
  dbErrors

vars == <<log, position, committed, active, flushing, pc, dto, applied,
          failed, rewinds, dbErrors>>
broker == <<log, position, committed>>
faults == <<failed, rewinds, dbErrors>>

NoMessage  == [m \in Message |-> 0]
EmptyBatch == [updates          |-> NoMessage,
               partitionOffsets |-> [p \in Partition |-> 0]]

CommentOf(m) == log[m[1]][m[2]]

\* The keys of the Map: its size is what the two guards of the code look at.
Keys(batch) == {CommentOf(m) : m \in {n \in Message : batch.updates[n] > 0}}

\* Lines 115-121: count the message, remember the largest offset.
AddTo(batch, p, o) ==
  [updates          |-> [batch.updates EXCEPT ![<<p, o>>] = @ + 1],
   partitionOffsets |-> [batch.partitionOffsets EXCEPT
                           ![p] = IF o > @ THEN o ELSE @]]

ClearedOffsets(batch) ==   \* slip: updates.clear() is missing
  [batch EXCEPT !.partitionOffsets = EmptyBatch.partitionOffsets]
Cleared(batch) == EmptyBatch

\* Lines 62-68: the offsets to commit, for the partitions in the batch.
NextOffsetsTooFar ==       \* slip: offset + 2
  [p \in Partition |-> flushing.partitionOffsets[p] + 1]
NextOffsetsRead == position                   \* slip: what was read, not flushed
NextOffsets ==
  [p \in Partition |-> IF flushing.partitionOffsets[p] > 0
                       THEN flushing.partitionOffsets[p] ELSE committed[p]]

----------------------------------------------------------------------------
Init ==
  /\ log       = [p \in Partition |-> << >>]
  /\ position  = [p \in Partition |-> 0]
  /\ committed = [p \in Partition |-> 0]
  /\ active    = EmptyBatch
  /\ flushing  = EmptyBatch
  /\ pc        = [a \in Activation |-> "idle"]
  /\ dto       = [a \in Activation |-> NoMessage]
  /\ applied   = NoMessage
  /\ failed    = {}
  /\ rewinds   = 0
  /\ dbErrors  = 0

\* LikeServices.bulkInsert publishes COMMENT_LIKED, without a key.
Publish(p, c) ==
  /\ Len(log[p]) < MaxLog
  /\ Cardinality({m \in Message : m[2] <= Len(log[m[1]])}) < MaxMessages
  /\ log' = [log EXCEPT ![p] = Append(@, c)]
  /\ UNCHANGED <<position, committed, active, flushing, pc, dto, applied, faults>>

CanRotateUnguarded(batch) == Keys(batch) # {}   \* slip: 2nd flag dropped
CanRotate(batch) == Keys(batch) # {} /\ Keys(flushing) = {}

RotateSharing(a, batch) ==   \* slip: one buffer under both names
  /\ active'   = batch
  /\ flushing' = batch
  /\ dto'      = [dto EXCEPT ![a] = batch.updates]
  /\ pc'       = [pc EXCEPT ![a] = "write"]

RotateWithoutTemp(a, batch) ==   \* slip: the swap without temp
  /\ active'   = flushing
  /\ flushing' = flushing
  /\ dto'      = [dto EXCEPT ![a] = flushing.updates]
  /\ pc'       = [pc EXCEPT ![a] = "write"]

Rotate(a, batch) ==
  /\ active'   = flushing
  /\ flushing' = batch
  /\ dto'      = [dto EXCEPT ![a] = batch.updates]
  /\ pc'       = [pc EXCEPT ![a] = "write"]

EachMessage(p) ==
  /\ pc[Consumer] = "idle"
  /\ position[p] < Len(log[p])
  /\ position' = [position EXCEPT ![p] = @ + 1]
  /\ LET batch == AddTo(active, p, position[p] + 1)
         flush == Cardinality(Keys(batch)) > MaxBatchSize /\ CanRotate(batch)
     IN  \/ flush /\ Rotate(Consumer, batch)
         \/ ~flush /\ active' = batch /\ UNCHANGED <<flushing, pc, dto>>
  /\ UNCHANGED <<log, committed, applied, faults>>

TimerFires(a) ==
  /\ pc[a] = "idle"
  /\ CanRotate(active)
  /\ Rotate(a, active)
  /\ UNCHANGED <<broker, applied, faults>>

BulkWrite(a) ==
  /\ pc[a] = "write"
  /\ applied' = [m \in Message |-> applied[m] + dto[a][m]]
  /\ pc' = [pc EXCEPT ![a] = "commit"]
  /\ UNCHANGED <<broker, active, flushing, dto, faults>>

\* finally { ... }: both maps of flushingBatch are cleared.
Clear(a) ==
  /\ flushing' = Cleared(flushing)
  /\ dto' = [dto EXCEPT ![a] = NoMessage]
  /\ pc'  = [pc EXCEPT ![a] = "idle"]

\* The bulk write is unordered, so an error may leave the updates of some
\* comments applied; or all, when the find after it is what fails.
BulkWriteFails(a) ==
  /\ pc[a] = "write"
  /\ dbErrors < MaxDbErrors
  /\ dbErrors' = dbErrors + 1
  /\ \E done \in SUBSET Comment :
       /\ applied' = [m \in Message |->
            IF dto[a][m] > 0 /\ CommentOf(m) \in done
            THEN applied[m] + dto[a][m] ELSE applied[m]]
       /\ failed' = failed \cup
            {m \in Message : dto[a][m] > 0 /\ CommentOf(m) \notin done}
  /\ Clear(a)
  /\ UNCHANGED <<broker, active, rewinds>>

CommitOffsets(a) ==
  /\ pc[a] = "commit"
  /\ committed' = NextOffsets
  /\ pc' = [pc EXCEPT ![a] = "clear"]
  /\ UNCHANGED <<log, position, active, flushing, dto, applied, faults>>

\* commitOffsets rejects (the group is rebalancing, the broker is away).
CommitFails(a) ==
  /\ pc[a] = "commit"
  /\ Clear(a)
  /\ UNCHANGED <<broker, active, applied, faults>>

FlushReturns(a) ==
  /\ pc[a] = "clear"
  /\ Clear(a)
  /\ UNCHANGED <<broker, active, applied, faults>>

\* The process dies and is restarted: the buffers are gone, the group
\* resumes from its committed offsets.
Crash ==
  /\ rewinds < MaxRewinds
  /\ rewinds'  = rewinds + 1
  /\ position' = committed
  /\ active'   = EmptyBatch
  /\ flushing' = EmptyBatch
  /\ pc'       = [a \in Activation |-> "idle"]
  /\ dto'      = [a \in Activation |-> NoMessage]
  /\ UNCHANGED <<log, committed, applied, failed, dbErrors>>

\* The consumer rejoins its group and fetches from the committed offsets;
\* nothing in the class clears the buffers then.
Rebalance ==
  /\ rewinds < MaxRewinds
  /\ rewinds'  = rewinds + 1
  /\ position' = committed
  /\ UNCHANGED <<log, committed, active, flushing, pc, dto, applied, failed,
                 dbErrors>>

FlushStep(a) ==
  \/ BulkWrite(a)
  \/ BulkWriteFails(a)
  \/ CommitOffsets(a)
  \/ CommitFails(a)
  \/ FlushReturns(a)

Next ==
  \/ \E p \in Partition, c \in Comment : Publish(p, c)
  \/ \E p \in Partition : EachMessage(p)
  \/ \E a \in Tick : TimerFires(a)
  \/ \E a \in Activation : FlushStep(a)
  \/ Crash
  \/ Rebalance

\* kafkajs keeps handing over messages, setInterval keeps firing, and every
\* awaited call returns or throws.
Fairness ==
  /\ \A p \in Partition : WF_vars(EachMessage(p))
  /\ WF_vars(\E a \in Tick : TimerFires(a))
  /\ \A a \in Activation : WF_vars(FlushStep(a))

Spec     == Init /\ [][Next]_vars
FairSpec == Spec /\ Fairness

----------------------------------------------------------------------------
Batch == [updates          : [Message -> Nat],
          partitionOffsets : [Partition -> Offset]]

\* The shape of every variable; offsets stay within the log's bound.
TypeOK ==
  /\ log       \in [Partition -> Seq(Comment)]
  /\ \A p \in Partition : Len(log[p]) \in Offset
  /\ position  \in [Partition -> Offset]
  /\ committed \in [Partition -> Offset]
  /\ active    \in Batch
  /\ flushing  \in Batch
  /\ pc        \in [Activation -> {"idle", "write", "commit", "clear"}]
  /\ dto       \in [Activation -> [Message -> Nat]]
  /\ applied   \in [Message -> Nat]
  /\ failed    \in SUBSET Message
  /\ rewinds   \in 0 .. MaxRewinds
  /\ dbErrors  \in 0 .. MaxDbErrors

InFlush(a) == pc[a] # "idle"
Settled(m) == applied[m] > 0 \/ m \in failed

\* At most one call of rotateAndflushBatch is past its guard, and what it is
\* writing is still exactly the content of flushingBatch: nothing is added to
\* or cleared from that buffer behind its back (comment at lines 42-46).
FlushIsExclusive ==
  /\ \A a, b \in Activation : InFlush(a) /\ InFlush(b) => a = b
  /\ \A a \in Activation : InFlush(a) => dto[a] = flushing.updates

\* Every message the consumer was handed is counted, failed, or still in one
\* of the two buffers: an event that arrives during a flush is not lost when
\* the flushed buffer is cleared.
NothingForgotten ==
  \A p \in Partition : \A o \in 1 .. position[p] :
    \/ Settled(<<p, o>>)
    \/ active.updates[<<p, o>>] > 0
    \/ flushing.updates[<<p, o>>] > 0

\* Whatever lies below a committed offset, and so is never read again, was
\* counted or belonged to a bulk write that failed.
CommittedIsSettled ==
  \A p \in Partition : \A o \in 1 .. committed[p] : Settled(<<p, o>>)

Unwritten(m) ==
  IF \E a \in Activation : pc[a] = "write" THEN flushing.updates[m] ELSE 0

\* An event is counted (or waiting to be) at most once, plus once for every
\* crash or rebalance: without those the non-idempotent $inc is exactly-once.
DuplicatesOnlyFromRewinds ==
  \A m \in Message :
    applied[m] + active.updates[m] + Unwritten(m)
      <= rewinds + (IF m[2] <= position[m[1]] THEN 1 ELSE 0)

\* Every published event is counted in the end, unless its bulk write failed.
EventuallySettled ==
  \A m \in Message : (m[2] <= Len(log[m[1]])) ~> Settled(m)

\* The worker keeps the promise of AckedConsumer: a restart may repeat work
\* but never moves past a message nobody settled.
Promise == INSTANCE AckedConsumer
             WITH settled <- {m \in Message : Settled(m)}, acked <- committed
ImplementsAckedConsumer == Promise!Spec
============================================================================
