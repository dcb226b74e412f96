-------------------------- MODULE BatchWorkerProof --------------------------
(***************************************************************************)
(* Proofs about BatchWorker, for any partitions, comments, timer calls and  *)
(* bounds: its type invariant, the exclusion of flushes, the safety of the   *)
(* committed offsets, the bound on duplicates, and that it implements        *)
(* AckedConsumer.                                                            *)
(***************************************************************************)
EXTENDS BatchWorker, TLAPS

\* The content of a buffer is what the emptiness guards of the code look at.
LEMMA KeysEmpty ==
  ASSUME NEW batch
  PROVE  Keys(batch) = {} <=> \A m \in Message : ~(batch.updates[m] > 0)
BY DEF Keys

LEMMA MessageShape ==
  /\ \A p \in Partition, o \in 1 .. MaxLog : <<p, o>> \in Message
  /\ \A m \in Message : m[1] \in Partition /\ m[2] \in 1 .. MaxLog
                          /\ m = <<m[1], m[2]>>
BY DEF Message

LEMMA EmptyBatchType == EmptyBatch \in Batch
BY BatchWorkerAssumption DEF EmptyBatch, Batch, NoMessage, Offset

LEMMA AddToType ==
  ASSUME NEW batch \in Batch, NEW p \in Partition, NEW o \in 1 .. MaxLog
  PROVE  AddTo(batch, p, o) \in Batch
BY BatchWorkerAssumption DEF AddTo, Batch, Message, Offset

LEMMA NextOffsetsType ==
  ASSUME TypeOK
  PROVE  NextOffsets \in [Partition -> Offset]
BY DEF NextOffsets, TypeOK, Batch, Offset

LEMMA RotateType ==
  ASSUME TypeOK, NEW a \in Activation, NEW batch \in Batch, Rotate(a, batch)
  PROVE  /\ active' \in Batch
         /\ flushing' \in Batch
         /\ dto' \in [Activation -> [Message -> Nat]]
         /\ pc' \in [Activation -> {"idle", "write", "commit", "clear"}]
BY DEF TypeOK, Rotate, Batch

LEMMA ClearType ==
  ASSUME TypeOK, NEW a \in Activation, Clear(a)
  PROVE  /\ flushing' \in Batch
         /\ dto' \in [Activation -> [Message -> Nat]]
         /\ pc' \in [Activation -> {"idle", "write", "commit", "clear"}]
BY EmptyBatchType DEF TypeOK, Clear, Cleared, NoMessage

----------------------------------------------------------------------------
LEMMA InitTypeOK == Init => TypeOK
BY EmptyBatchType, BatchWorkerAssumption
DEF Init, TypeOK, NoMessage, Offset, Activation

LEMMA NextTypeOK == TypeOK /\ [Next]_vars => TypeOK'
<1> SUFFICES ASSUME TypeOK, [Next]_vars PROVE TypeOK'
  OBVIOUS
<1> USE BatchWorkerAssumption
<1>1. ASSUME NEW p \in Partition, NEW c \in Comment, Publish(p, c) PROVE TypeOK'
  BY <1>1 DEF TypeOK, Publish, Offset, faults
<1>2. ASSUME NEW p \in Partition, EachMessage(p) PROVE TypeOK'
  <2> DEFINE o == position[p] + 1
             batch == AddTo(active, p, o)
  <2>1. o \in 1 .. MaxLog /\ position' \in [Partition -> Offset]
    BY <1>2 DEF EachMessage, TypeOK, Offset
  <2>2. batch \in Batch
    BY <2>1, AddToType DEF TypeOK
  <2>3. Consumer \in Activation
    BY DEF Activation
  <2>4. CASE Rotate(Consumer, batch)
    <3> HIDE DEF batch
    <3> QED BY <1>2, <2>1, <2>2, <2>3, <2>4, RotateType DEF EachMessage, TypeOK, faults
  <2>5. CASE active' = batch /\ UNCHANGED <<flushing, pc, dto>>
    <3> HIDE DEF batch
    <3> QED BY <1>2, <2>1, <2>2, <2>5 DEF EachMessage, TypeOK, faults
  <2> QED BY <1>2, <2>4, <2>5 DEF EachMessage
<1>3. ASSUME NEW a \in Tick, TimerFires(a) PROVE TypeOK'
  BY <1>3, RotateType DEF TypeOK, TimerFires, broker, faults, Activation
<1>4. ASSUME NEW a \in Activation, BulkWrite(a) PROVE TypeOK'
  BY <1>4 DEF TypeOK, BulkWrite, broker, faults
<1>5. ASSUME NEW a \in Activation, BulkWriteFails(a) PROVE TypeOK'
  BY <1>5, ClearType DEF TypeOK, BulkWriteFails, broker
<1>6. ASSUME NEW a \in Activation, CommitOffsets(a) PROVE TypeOK'
  BY <1>6, NextOffsetsType DEF TypeOK, CommitOffsets, faults
<1>7. ASSUME NEW a \in Activation, CommitFails(a) \/ FlushReturns(a) PROVE TypeOK'
  BY <1>7, ClearType DEF TypeOK, CommitFails, FlushReturns, broker, faults
<1>8. CASE Crash
  BY <1>8, EmptyBatchType DEF TypeOK, Crash, NoMessage
<1>9. CASE Rebalance
  BY <1>9 DEF TypeOK, Rebalance
<1>10. CASE UNCHANGED vars
  BY <1>10 DEF TypeOK, vars
<1> QED
  BY <1>1, <1>2, <1>3, <1>4, <1>5, <1>6, <1>7, <1>8, <1>9, <1>10
  DEF Next, FlushStep

\* The variables keep their shape; in particular committed offsets and the
\* offsets of a batch never leave the log.
THEOREM TypeCorrect == Spec => []TypeOK
BY InitTypeOK, NextTypeOK, PTL DEF Spec

----------------------------------------------------------------------------
(***************************************************************************)
(* The inductive invariant.  A commit is safe because the offset committed  *)
(* for a partition is that of a message in the flushed buffer, everything   *)
(* below a message of that buffer is settled or in it as well, and at the   *)
(* time of the commit the buffer has been written.  That the buffer is      *)
(* closed downwards when it is swapped in comes from the same fact about    *)
(* activeBatch, whose predecessors cannot be in an older flush: the guard   *)
(* of rotateAndflushBatch lets a buffer be swapped in only when none is     *)
(* being flushed.                                                           *)
(***************************************************************************)
Held(batch, p, o) == batch.updates[<<p, o>>] > 0

FlushingIsOwned ==
  (\E a \in Activation : InFlush(a)) <=> (\E m \in Message : flushing.updates[m] > 0)

OffsetsAreHeld(batch) ==
  \A p \in Partition :
    batch.partitionOffsets[p] > 0 => Held(batch, p, batch.partitionOffsets[p])

WrittenIsSettled ==
  \A a \in Activation : pc[a] \in {"commit", "clear"} =>
    \A m \in Message : flushing.updates[m] > 0 => Settled(m)

FlushingIsClosed ==
  \A p \in Partition : \A o \in 1 .. MaxLog : Held(flushing, p, o) =>
    \A q \in 1 .. o : Settled(<<p, q>>) \/ Held(flushing, p, q)

ClosedWith(batch) ==
  \A p \in Partition : \A o \in 1 .. MaxLog : Held(batch, p, o) =>
    \A q \in 1 .. o :
      Settled(<<p, q>>) \/ Held(flushing, p, q) \/ Held(batch, p, q)

Remembers(batch, read) ==
  \A p \in Partition : \A o \in 1 .. read[p] :
    Settled(<<p, o>>) \/ Held(flushing, p, o) \/ Held(batch, p, o)

IInv ==
  /\ TypeOK
  /\ FlushIsExclusive
  /\ FlushingIsOwned
  /\ OffsetsAreHeld(flushing)
  /\ OffsetsAreHeld(active)
  /\ WrittenIsSettled
  /\ FlushingIsClosed
  /\ ClosedWith(active)
  /\ Remembers(active, position)
  /\ CommittedIsSettled

LEMMA InitIInv == Init => IInv
<1> SUFFICES ASSUME Init PROVE IInv
  OBVIOUS
<1>1. TypeOK
  BY InitTypeOK
<1>2. \A m \in Message : ~(EmptyBatch.updates[m] > 0)
  BY DEF EmptyBatch, NoMessage
<1>3. \A p \in Partition : EmptyBatch.partitionOffsets[p] = 0
  BY DEF EmptyBatch
<1> QED
  BY <1>1, <1>2, <1>3, MessageShape, BatchWorkerAssumption
  DEF Init, IInv, FlushIsExclusive, FlushingIsOwned, OffsetsAreHeld, Held,
      WrittenIsSettled, FlushingIsClosed, ClosedWith, Remembers,
      CommittedIsSettled, InFlush

\* Settled messages stay settled, whatever the step.
LEMMA SettledStays ==
  ASSUME TypeOK, [Next]_vars, NEW m \in Message, Settled(m)
  PROVE  Settled(m)'
<1>1. applied' = applied /\ failed' = failed => Settled(m)'
  BY DEF Settled
<1>2. ASSUME NEW a \in Activation, BulkWrite(a) PROVE Settled(m)'
  <2>1. applied'[m] = applied[m] + dto[a][m] /\ failed' = failed
    BY <1>2 DEF BulkWrite, faults
  <2>2. applied[m] \in Nat /\ dto[a][m] \in Nat
    BY DEF TypeOK
  <2> QED BY <2>1, <2>2 DEF Settled
<1>3. ASSUME NEW a \in Activation, BulkWriteFails(a) PROVE Settled(m)'
  <2>1. applied'[m] \in {applied[m] + dto[a][m], applied[m]} /\ failed \subseteq failed'
    BY <1>3 DEF BulkWriteFails
  <2>2. applied[m] \in Nat /\ dto[a][m] \in Nat
    BY DEF TypeOK
  <2> QED BY <2>1, <2>2 DEF Settled
<1> QED
  BY <1>1, <1>2, <1>3
  DEF Next, FlushStep, Publish, EachMessage, TimerFires, CommitOffsets,
      CommitFails, FlushReturns, Crash, Rebalance, faults, vars

\* Swapping a buffer in, be it by the timer or by eachMessage.
LEMMA RotateIInv ==
  ASSUME IInv, TypeOK', NEW a \in Activation, NEW batch \in Batch,
         NEW read \in [Partition -> Offset],
         pc[a] = "idle", CanRotate(batch), Rotate(a, batch),
         OffsetsAreHeld(batch), ClosedWith(batch), Remembers(batch, read),
         position' = read, UNCHANGED <<committed, applied, failed>>
  PROVE  IInv'
<1>1. \A m \in Message : ~(flushing.updates[m] > 0)
  BY KeysEmpty DEF CanRotate
<1>2. \A b \in Activation : ~InFlush(b)
  BY <1>1 DEF IInv, FlushingIsOwned
<1>3. \E m \in Message : batch.updates[m] > 0
  BY KeysEmpty DEF CanRotate
<1>4. /\ active' = flushing /\ flushing' = batch
      /\ dto' = [dto EXCEPT ![a] = batch.updates]
      /\ pc'  = [pc EXCEPT ![a] = "write"]
  BY DEF Rotate
<1>5. \A b \in Activation : pc'[b] = (IF b = a THEN "write" ELSE "idle")
  BY <1>2, <1>4 DEF IInv, TypeOK, InFlush
<1>6. dto'[a] = flushing'.updates
  BY <1>4 DEF IInv, TypeOK
<1>7. \A m : Settled(m)' <=> Settled(m)
  BY DEF Settled
<1>8. \A p \in Partition, o \in 1 .. MaxLog : ~Held(flushing, p, o)
  BY <1>1, MessageShape DEF Held
<1>9. FlushIsExclusive' /\ FlushingIsOwned' /\ WrittenIsSettled'
  BY <1>3, <1>4, <1>5, <1>6
  DEF FlushIsExclusive, FlushingIsOwned, WrittenIsSettled, InFlush
<1>10. OffsetsAreHeld(flushing)' /\ OffsetsAreHeld(active)'
  BY <1>4 DEF IInv, OffsetsAreHeld, Held
<1>11. FlushingIsClosed'
  <2> SUFFICES ASSUME NEW p \in Partition, NEW o \in 1 .. MaxLog,
                      Held(batch, p, o), NEW q \in 1 .. o
               PROVE  Settled(<<p, q>>) \/ Held(batch, p, q)
    BY <1>4, <1>7 DEF FlushingIsClosed, Held
  <2>1. q \in 1 .. MaxLog
    BY BatchWorkerAssumption
  <2> QED BY <1>8, <2>1 DEF ClosedWith
<1>12. ClosedWith(active)'
  BY <1>4, <1>8 DEF ClosedWith, Held
<1>13. Remembers(active, position)'
  BY <1>4, <1>7 DEF Remembers, Held
<1>14. CommittedIsSettled'
  BY <1>7 DEF IInv, CommittedIsSettled
<1> QED
  BY <1>9, <1>10, <1>11, <1>12, <1>13, <1>14 DEF IInv

\* Leaving a flush, once what it held is settled (now or before).
LEMMA ClearIInv ==
  ASSUME IInv, TypeOK', NEW a \in Activation, InFlush(a), Clear(a),
         UNCHANGED <<active, position, committed>>,
         \A m \in Message : Settled(m) => Settled(m)',
         \A m \in Message : flushing.updates[m] > 0 => Settled(m)'
  PROVE  IInv'
<1>1. /\ flushing' = EmptyBatch /\ pc' = [pc EXCEPT ![a] = "idle"]
  BY DEF Clear, Cleared
<1>2. \A b \in Activation : pc'[b] = "idle"
  BY <1>1 DEF IInv, TypeOK, FlushIsExclusive, InFlush
<1>3. \A m \in Message : ~(flushing'.updates[m] > 0)
  BY <1>1 DEF EmptyBatch, NoMessage
<1>4. \A p \in Partition, o \in 1 .. MaxLog : Held(flushing, p, o) => Settled(<<p, o>>)'
  BY MessageShape DEF Held
<1>5. \A p \in Partition, o \in 1 .. MaxLog : Settled(<<p, o>>) => Settled(<<p, o>>)'
  BY MessageShape
<1>6. FlushIsExclusive' /\ FlushingIsOwned' /\ WrittenIsSettled'
  BY <1>2, <1>3
  DEF FlushIsExclusive, FlushingIsOwned, WrittenIsSettled, InFlush
<1>7. OffsetsAreHeld(flushing)' /\ OffsetsAreHeld(active)'
  BY <1>1 DEF IInv, OffsetsAreHeld, Held, EmptyBatch
<1>8. FlushingIsClosed'
  BY <1>3, MessageShape DEF FlushingIsClosed, Held
<1>9. ClosedWith(active)'
  <2> SUFFICES ASSUME NEW p \in Partition, NEW o \in 1 .. MaxLog,
                      Held(active, p, o), NEW q \in 1 .. o
               PROVE  Settled(<<p, q>>)' \/ Held(active, p, q)
    BY DEF ClosedWith, Held
  <2>1. q \in 1 .. MaxLog
    BY BatchWorkerAssumption
  <2> QED BY <1>4, <1>5, <2>1 DEF IInv, ClosedWith
<1>10. Remembers(active, position)'
  <2> SUFFICES ASSUME NEW p \in Partition, NEW o \in 1 .. position[p]
               PROVE  Settled(<<p, o>>)' \/ Held(active, p, o)
    BY DEF Remembers, Held
  <2>1. o \in 1 .. MaxLog
    BY BatchWorkerAssumption DEF IInv, TypeOK, Offset
  <2> QED BY <1>4, <1>5, <2>1 DEF IInv, Remembers
<1>11. CommittedIsSettled'
  <2> SUFFICES ASSUME NEW p \in Partition, NEW o \in 1 .. committed[p]
               PROVE  Settled(<<p, o>>)'
    BY DEF CommittedIsSettled
  <2>1. o \in 1 .. MaxLog
    BY BatchWorkerAssumption DEF IInv, TypeOK, Offset
  <2> QED BY <1>5, <2>1 DEF IInv, CommittedIsSettled
<1> QED
  BY <1>6, <1>7, <1>8, <1>9, <1>10, <1>11 DEF IInv

\* Growing activeBatch by the next message of a partition.
LEMMA AddToKeeps ==
  ASSUME IInv, NEW p \in Partition, position[p] + 1 \in 1 .. MaxLog,
         NEW batch, batch = AddTo(active, p, position[p] + 1),
         NEW read, read = [position EXCEPT ![p] = @ + 1]
  PROVE  OffsetsAreHeld(batch) /\ ClosedWith(batch) /\ Remembers(batch, read)
<1> DEFINE o == position[p] + 1
<1>1. /\ active.updates \in [Message -> Nat]
      /\ active.partitionOffsets \in [Partition -> Offset]
      /\ position \in [Partition -> Offset]
  BY DEF IInv, TypeOK, Batch
<1>2. o \in 1 .. MaxLog /\ <<p, o>> \in Message
  BY MessageShape
<1>3. \A r \in Partition, q \in 1 .. MaxLog :
        Held(batch, r, q) <=> Held(active, r, q) \/ (r = p /\ q = o)
  <2> SUFFICES ASSUME NEW r \in Partition, NEW q \in 1 .. MaxLog
               PROVE  Held(batch, r, q) <=> Held(active, r, q) \/ (r = p /\ q = o)
    OBVIOUS
  <2>1. batch.updates = [active.updates EXCEPT ![<<p, o>>] = @ + 1]
    BY DEF AddTo
  <2>2. <<r, q>> \in Message
    BY MessageShape
  <2>3. CASE r = p /\ q = o
    <3>1. batch.updates[<<p, o>>] = active.updates[<<p, o>>] + 1
      BY <1>1, <1>2, <2>1
    <3>2. active.updates[<<p, o>>] \in Nat
      BY <1>1, <1>2
    <3> QED BY <2>3, <3>1, <3>2 DEF Held
  <2>4. CASE ~(r = p /\ q = o)
    <3>1. <<r, q>> # <<p, o>>
      BY <2>4
    <3>2. batch.updates[<<r, q>>] = active.updates[<<r, q>>]
      BY <1>1, <2>1, <2>2, <3>1
    <3> QED BY <2>4, <3>2 DEF Held
  <2> QED BY <2>3, <2>4
<1>4. OffsetsAreHeld(batch)
  <2> SUFFICES ASSUME NEW r \in Partition, batch.partitionOffsets[r] > 0
               PROVE  Held(batch, r, batch.partitionOffsets[r])
    BY DEF OffsetsAreHeld
  <2>1. batch.partitionOffsets =
          [active.partitionOffsets EXCEPT ![p] = IF o > @ THEN o ELSE @]
    BY DEF AddTo
  <2>2. \/ r = p /\ batch.partitionOffsets[r] = o
        \/ batch.partitionOffsets[r] = active.partitionOffsets[r]
    BY <1>1, <2>1
  <2>3. CASE r = p /\ batch.partitionOffsets[r] = o
    BY <1>2, <1>3, <2>3
  <2>4. CASE batch.partitionOffsets[r] = active.partitionOffsets[r]
    <3>1. active.partitionOffsets[r] \in 1 .. MaxLog
      BY <1>1, <2>4, BatchWorkerAssumption DEF Offset
    <3> QED BY <1>3, <2>4, <3>1 DEF IInv, OffsetsAreHeld
  <2> QED BY <2>2, <2>3, <2>4
<1>5. Remembers(batch, read)
  <2> SUFFICES ASSUME NEW r \in Partition, NEW q \in 1 .. read[r]
               PROVE  Settled(<<r, q>>) \/ Held(flushing, r, q) \/ Held(batch, r, q)
    BY DEF Remembers
  <2>1. read[r] \in Offset /\ (r # p => read[r] = position[r]) /\ read[p] = o
    BY <1>1, <1>2 DEF Offset
  <2>2. q \in 1 .. MaxLog
    BY <2>1, BatchWorkerAssumption DEF Offset
  <2>3. CASE r = p /\ q = o
    BY <1>3, <2>2, <2>3
  <2>4. CASE ~(r = p /\ q = o)
    <3>1. q \in 1 .. position[r]
      BY <1>1, <2>1, <2>4 DEF Offset
    <3> QED BY <1>3, <2>2, <3>1 DEF IInv, Remembers
  <2> QED BY <2>3, <2>4
<1>6. ClosedWith(batch)
  <2> SUFFICES ASSUME NEW r \in Partition, NEW n \in 1 .. MaxLog,
                      Held(batch, r, n), NEW q \in 1 .. n
               PROVE  Settled(<<r, q>>) \/ Held(flushing, r, q) \/ Held(batch, r, q)
    BY DEF ClosedWith
  <2>1. q \in 1 .. MaxLog
    BY BatchWorkerAssumption
  <2>2. CASE Held(active, r, n)
    BY <1>3, <2>1, <2>2 DEF IInv, ClosedWith
  <2>3. CASE r = p /\ n = o
    <3>1. q \in 1 .. read[r]
      BY <1>1, <2>3
    <3> QED BY <1>5, <3>1 DEF Remembers
  <2> QED BY <1>3, <2>2, <2>3
<1> QED BY <1>4, <1>5, <1>6

LEMMA NextIInv == IInv /\ [Next]_vars => IInv'
<1> SUFFICES ASSUME IInv, [Next]_vars PROVE IInv'
  OBVIOUS
<1> USE BatchWorkerAssumption
<1>1. TypeOK /\ TypeOK'
  BY NextTypeOK DEF IInv
<1>2. \A m \in Message : Settled(m) => Settled(m)'
  BY <1>1, SettledStays
<1>3. ASSUME NEW p \in Partition, NEW c \in Comment, Publish(p, c) PROVE IInv'
  BY <1>1, <1>3
  DEF Publish, faults, IInv, FlushIsExclusive, FlushingIsOwned, OffsetsAreHeld,
      Held, WrittenIsSettled, FlushingIsClosed, ClosedWith, Remembers,
      CommittedIsSettled, InFlush, Settled
<1>4. ASSUME NEW p \in Partition, EachMessage(p) PROVE IInv'
  <2> DEFINE batch == AddTo(active, p, position[p] + 1)
             read  == [position EXCEPT ![p] = @ + 1]
  <2>1. position[p] + 1 \in 1 .. MaxLog /\ read \in [Partition -> Offset]
    <3>1. /\ position[p] \in 0 .. MaxLog /\ Len(log[p]) \in 0 .. MaxLog
          /\ position \in [Partition -> 0 .. MaxLog]
      BY <1>1 DEF TypeOK, Offset
    <3>2. position[p] < Len(log[p])
      BY <1>4 DEF EachMessage
    <3>3. position[p] + 1 \in 1 .. MaxLog
      BY <3>1, <3>2
    <3> QED BY <3>1, <3>3 DEF Offset
  <2>2. batch \in Batch
    BY <1>1, <2>1, AddToType DEF TypeOK
  <2>3. OffsetsAreHeld(batch) /\ ClosedWith(batch) /\ Remembers(batch, read)
    BY <2>1, AddToKeeps
  <2>4. /\ pc[Consumer] = "idle" /\ position' = read
        /\ UNCHANGED <<committed, applied, failed>>
    BY <1>4 DEF EachMessage, faults
  <2>5. CASE CanRotate(batch) /\ Rotate(Consumer, batch)
    <3>1. Consumer \in Activation
      BY DEF Activation
    <3> HIDE DEF batch, read
    <3> QED BY <1>1, <2>1, <2>2, <2>3, <2>4, <2>5, <3>1, RotateIInv
  <2>6. CASE active' = batch /\ UNCHANGED <<flushing, pc, dto>>
    <3> HIDE DEF batch, read
    <3> QED
      BY <1>1, <2>3, <2>4, <2>6
      DEF IInv, FlushIsExclusive, FlushingIsOwned, OffsetsAreHeld, Held,
          WrittenIsSettled, FlushingIsClosed, ClosedWith, Remembers,
          CommittedIsSettled, InFlush, Settled
  <2> QED BY <1>4, <2>5, <2>6 DEF EachMessage
<1>5. ASSUME NEW a \in Tick, TimerFires(a) PROVE IInv'
  <2>1. a \in Activation /\ active \in Batch /\ position \in [Partition -> Offset]
    BY <1>1 DEF Activation, TypeOK
  <2> QED BY <1>1, <1>5, <2>1, RotateIInv DEF TimerFires, broker, faults, IInv
<1>6. ASSUME NEW a \in Activation, BulkWrite(a) PROVE IInv'
  <2>1. \A m \in Message : flushing.updates[m] > 0 => Settled(m)'
    <3> SUFFICES ASSUME NEW m \in Message, flushing.updates[m] > 0
                 PROVE  applied'[m] > 0
      BY DEF Settled
    <3>1. dto[a] = flushing.updates /\ applied'[m] = applied[m] + dto[a][m]
      BY <1>6 DEF IInv, FlushIsExclusive, InFlush, BulkWrite
    <3>2. applied[m] \in Nat /\ dto[a][m] \in Nat
      BY <1>1 DEF TypeOK
    <3> QED BY <3>1, <3>2
  <2>2. UNCHANGED <<position, committed, active, flushing, dto>>
    BY <1>6 DEF BulkWrite, broker
  <2>3. \A b \in Activation : InFlush(b)' <=> InFlush(b)
    BY <1>1, <1>6 DEF BulkWrite, InFlush, TypeOK
  <2>4. FlushIsExclusive' /\ FlushingIsOwned' /\ WrittenIsSettled'
    BY <2>1, <2>2, <2>3 DEF IInv, FlushIsExclusive, FlushingIsOwned, WrittenIsSettled
  <2>5. OffsetsAreHeld(flushing)' /\ OffsetsAreHeld(active)'
    BY <2>2 DEF IInv, OffsetsAreHeld, Held
  <2>6. \A p \in Partition, o \in 1 .. MaxLog : Settled(<<p, o>>) => Settled(<<p, o>>)'
    BY <1>2, MessageShape
  <2>7. \A o \in 1 .. MaxLog : \A q \in 1 .. o : q \in 1 .. MaxLog
    OBVIOUS
  <2>8. FlushingIsClosed' /\ ClosedWith(active)'
    BY <2>2, <2>6, <2>7 DEF IInv, FlushingIsClosed, ClosedWith, Held
  <2>9. \A p \in Partition : /\ \A o \in 1 .. position[p] : o \in 1 .. MaxLog
                             /\ \A o \in 1 .. committed[p] : o \in 1 .. MaxLog
    <3> SUFFICES ASSUME NEW p \in Partition
                 PROVE  /\ \A o \in 1 .. position[p] : o \in 1 .. MaxLog
                        /\ \A o \in 1 .. committed[p] : o \in 1 .. MaxLog
      OBVIOUS
    <3>1. position[p] \in 0 .. MaxLog /\ committed[p] \in 0 .. MaxLog
      BY <1>1 DEF TypeOK, Offset
    <3> QED BY <3>1
  <2>10. Remembers(active, position)' /\ CommittedIsSettled'
    BY <2>2, <2>6, <2>9 DEF IInv, Remembers, CommittedIsSettled, Held
  <2> QED BY <1>1, <2>4, <2>5, <2>8, <2>10 DEF IInv
<1>7. ASSUME NEW a \in Activation, BulkWriteFails(a) PROVE IInv'
  <2>1. \A m \in Message : flushing.updates[m] > 0 => Settled(m)'
    <3> SUFFICES ASSUME NEW m \in Message, flushing.updates[m] > 0
                 PROVE  applied'[m] > 0 \/ m \in failed'
      BY DEF Settled
    <3>1. dto[a] = flushing.updates
      BY <1>7 DEF IInv, FlushIsExclusive, InFlush, BulkWriteFails
    <3>2. PICK done \in SUBSET Comment :
            /\ applied' = [n \in Message |->
                 IF dto[a][n] > 0 /\ CommentOf(n) \in done
                 THEN applied[n] + dto[a][n] ELSE applied[n]]
            /\ failed' = failed \cup
                 {n \in Message : dto[a][n] > 0 /\ CommentOf(n) \notin done}
      BY <1>7 DEF BulkWriteFails
    <3>3. applied[m] \in Nat /\ dto[a][m] \in Nat
      BY <1>1 DEF TypeOK
    <3>4. CASE CommentOf(m) \in done
      BY <3>1, <3>2, <3>3, <3>4
    <3>5. CASE CommentOf(m) \notin done
      BY <3>1, <3>2, <3>5
    <3> QED BY <3>4, <3>5
  <2>2. InFlush(a) /\ Clear(a) /\ UNCHANGED <<active, position, committed>>
    BY <1>7 DEF BulkWriteFails, broker, InFlush
  <2> QED BY <1>1, <1>2, <2>1, <2>2, ClearIInv
<1>8. ASSUME NEW a \in Activation, CommitOffsets(a) PROVE IInv'
  <2>1. /\ UNCHANGED <<position, active, flushing, dto, applied, failed>>
        /\ committed' = NextOffsets
    BY <1>8 DEF CommitOffsets, faults
  <2>2. \A m : Settled(m)' <=> Settled(m)
    BY <2>1 DEF Settled
  <2>3. \A b \in Activation : InFlush(b)' <=> InFlush(b)
    BY <1>1, <1>8 DEF CommitOffsets, InFlush, TypeOK
  <2>4. \A m \in Message : flushing.updates[m] > 0 => Settled(m)
    BY <1>8 DEF CommitOffsets, IInv, WrittenIsSettled
  <2>5. FlushIsExclusive' /\ FlushingIsOwned' /\ WrittenIsSettled'
    BY <2>1, <2>2, <2>3, <2>4
    DEF IInv, FlushIsExclusive, FlushingIsOwned, WrittenIsSettled
  <2>6. /\ OffsetsAreHeld(flushing)' /\ OffsetsAreHeld(active)'
        /\ FlushingIsClosed' /\ ClosedWith(active)'
        /\ Remembers(active, position)'
    BY <2>1, <2>2
    DEF IInv, OffsetsAreHeld, FlushingIsClosed, ClosedWith, Remembers, Held
  <2>7. ASSUME NEW p \in Partition, NEW o \in 1 .. committed'[p]
        PROVE  Settled(<<p, o>>)
    <3> DEFINE top == flushing.partitionOffsets[p]
    <3>1. top \in Offset
      BY <1>1 DEF TypeOK, Batch
    <3>2. CASE top > 0
      <4>1. committed'[p] = top /\ top \in 1 .. MaxLog /\ Held(flushing, p, top)
        BY <2>1, <3>1, <3>2 DEF NextOffsets, Offset, IInv, OffsetsAreHeld
      <4>2. Settled(<<p, o>>) \/ Held(flushing, p, o)
        BY <4>1 DEF IInv, FlushingIsClosed
      <4>3. <<p, o>> \in Message
        BY <4>1, MessageShape
      <4> QED BY <2>4, <4>2, <4>3 DEF Held
    <3>3. CASE ~(top > 0)
      <4>1. committed'[p] = committed[p]
        BY <2>1, <3>3 DEF NextOffsets
      <4> QED BY <4>1 DEF IInv, CommittedIsSettled
    <3> QED BY <3>2, <3>3
  <2>8. CommittedIsSettled'
    BY <2>2, <2>7 DEF CommittedIsSettled
  <2> QED BY <1>1, <2>5, <2>6, <2>8 DEF IInv
<1>9. ASSUME NEW a \in Activation, CommitFails(a) \/ FlushReturns(a) PROVE IInv'
  <2>1. /\ InFlush(a) /\ Clear(a) /\ UNCHANGED <<active, position, committed>>
        /\ pc[a] \in {"commit", "clear"}
    BY <1>9 DEF CommitFails, FlushReturns, broker, InFlush
  <2>2. \A m \in Message : flushing.updates[m] > 0 => Settled(m)'
    BY <1>2, <2>1 DEF IInv, WrittenIsSettled
  <2> QED BY <1>1, <1>2, <2>1, <2>2, ClearIInv
<1>10. CASE Crash
  <2>1. /\ active' = EmptyBatch /\ flushing' = EmptyBatch
        /\ position' = committed /\ committed' = committed
        /\ pc' = [a \in Activation |-> "idle"]
    BY <1>10 DEF Crash
  <2>2. \A m : Settled(m)' <=> Settled(m)
    BY <1>10 DEF Crash, Settled
  <2>3. \A m \in Message : ~(EmptyBatch.updates[m] > 0)
    BY DEF EmptyBatch, NoMessage
  <2>4. \A p \in Partition : EmptyBatch.partitionOffsets[p] = 0
    BY DEF EmptyBatch
  <2>5. FlushIsExclusive' /\ FlushingIsOwned' /\ WrittenIsSettled'
    BY <2>1, <2>3 DEF FlushIsExclusive, FlushingIsOwned, WrittenIsSettled, InFlush
  <2>6. /\ OffsetsAreHeld(flushing)' /\ OffsetsAreHeld(active)'
        /\ FlushingIsClosed' /\ ClosedWith(active)'
    BY <2>1, <2>3, <2>4, MessageShape
    DEF OffsetsAreHeld, FlushingIsClosed, ClosedWith, Held
  <2>7. Remembers(active, position)' /\ CommittedIsSettled'
    BY <2>1, <2>2 DEF IInv, Remembers, CommittedIsSettled
  <2> QED BY <1>1, <2>5, <2>6, <2>7 DEF IInv
<1>11. CASE Rebalance
  <2>1. /\ UNCHANGED <<active, flushing, pc, dto, applied, failed, committed>>
        /\ position' = committed
    BY <1>11 DEF Rebalance
  <2>2. Remembers(active, position)'
    BY <2>1 DEF IInv, Remembers, CommittedIsSettled, Settled
  <2> QED
    BY <1>1, <2>1, <2>2
    DEF IInv, FlushIsExclusive, FlushingIsOwned, OffsetsAreHeld, Held,
        WrittenIsSettled, FlushingIsClosed, ClosedWith, CommittedIsSettled,
        InFlush, Settled
<1>12. CASE UNCHANGED vars
  BY <1>1, <1>12
  DEF vars, IInv, FlushIsExclusive, FlushingIsOwned, OffsetsAreHeld, Held,
      WrittenIsSettled, FlushingIsClosed, ClosedWith, Remembers,
      CommittedIsSettled, InFlush, Settled
<1> QED
  BY <1>3, <1>4, <1>5, <1>6, <1>7, <1>8, <1>9, <1>10, <1>11, <1>12
  DEF Next, FlushStep

LEMMA Invariance == Spec => []IInv
BY InitIInv, NextIInv, PTL DEF Spec

\* However timer calls and eachMessage interleave, only one flush is ever in
\* progress and flushingBatch is frozen while it is.
THEOREM FlushExclusion == Spec => []FlushIsExclusive
BY Invariance, PTL DEF IInv

\* No message handed to the consumer falls between the two buffers.
THEOREM NeverForgets == Spec => []NothingForgotten
<1>1. IInv => NothingForgotten
  BY DEF IInv, Remembers, NothingForgotten, Held
<1> QED BY <1>1, Invariance, PTL

\* Committed offsets never pass a message that was neither counted nor part
\* of a failed write, whatever crashes and rebalances happen.
THEOREM CommitSafety == Spec => []CommittedIsSettled
BY Invariance, PTL DEF IInv

----------------------------------------------------------------------------
(***************************************************************************)
(* Duplicates.  What a message contributes to its like count, now or by     *)
(* the flushes to come, grows only when the message is handed over again,   *)
(* and that takes a crash or a rebalance; the swap, the write and the clear *)
(* only move it from one place to the next.                                 *)
(***************************************************************************)
LEMMA UnwrittenIdle ==
  ASSUME \A a \in Activation : pc[a] # "write", NEW m \in Message
  PROVE  Unwritten(m) = 0
BY DEF Unwritten

LEMMA RotateMovesUpdates ==
  ASSUME IInv, NEW a \in Activation, NEW batch \in Batch,
         CanRotate(batch), Rotate(a, batch), NEW m \in Message
  PROVE  Unwritten(m) = 0 /\ Unwritten(m)' = batch.updates[m] /\ active'.updates[m] = 0
<1>1. \A n \in Message : ~(flushing.updates[n] > 0)
  BY KeysEmpty DEF CanRotate
<1>2. \A b \in Activation : pc[b] = "idle"
  BY <1>1 DEF IInv, FlushingIsOwned, InFlush
<1>3. Unwritten(m) = 0
  BY <1>2, UnwrittenIdle
<1>4. pc'[a] = "write" /\ flushing' = batch /\ active' = flushing
  BY DEF Rotate, IInv, TypeOK
<1>5. flushing.updates[m] \in Nat
  BY DEF IInv, TypeOK, Batch
<1>6. flushing.updates[m] = 0
  BY <1>1, <1>5
<1> QED BY <1>3, <1>4, <1>6 DEF Unwritten

LEMMA NoUnwrittenAfterClear ==
  ASSUME IInv, NEW a \in Activation, InFlush(a), Clear(a), NEW m \in Message
  PROVE  Unwritten(m)' = 0
<1>1. \A b \in Activation : pc'[b] = "idle"
  BY DEF IInv, TypeOK, FlushIsExclusive, InFlush, Clear
<1> QED BY <1>1 DEF Unwritten

LEMMA NextDuplicates ==
  ASSUME IInv, IInv', [Next]_vars, DuplicatesOnlyFromRewinds
  PROVE  DuplicatesOnlyFromRewinds'
<1> USE BatchWorkerAssumption
<1> SUFFICES ASSUME NEW m \in Message
             PROVE  applied'[m] + active'.updates[m] + Unwritten(m)'
                      <= rewinds' + (IF m[2] <= position'[m[1]] THEN 1 ELSE 0)
  BY DEF DuplicatesOnlyFromRewinds
<1> DEFINE read == IF m[2] <= position[m[1]] THEN 1 ELSE 0
<1>1. /\ applied[m] \in Nat /\ active.updates[m] \in Nat /\ rewinds \in Nat
      /\ flushing.updates[m] \in Nat /\ Unwritten(m) \in Nat
  BY DEF IInv, TypeOK, Batch, Unwritten
<1>2. applied[m] + active.updates[m] + Unwritten(m) <= rewinds + read
  BY DEF DuplicatesOnlyFromRewinds
<1>3. m[1] \in Partition /\ m[2] \in 1 .. MaxLog /\ m = <<m[1], m[2]>>
  BY MessageShape
<1>4. ASSUME UNCHANGED <<applied, active, flushing, pc, rewinds, position>>
      PROVE  applied'[m] + active'.updates[m] + Unwritten(m)'
               <= rewinds' + (IF m[2] <= position'[m[1]] THEN 1 ELSE 0)
  BY <1>2, <1>4 DEF Unwritten
<1>5. ASSUME NEW p \in Partition, EachMessage(p)
      PROVE  applied'[m] + active'.updates[m] + Unwritten(m)'
               <= rewinds' + (IF m[2] <= position'[m[1]] THEN 1 ELSE 0)
  <2> DEFINE batch == AddTo(active, p, position[p] + 1)
             now   == IF m[2] <= position'[m[1]] THEN 1 ELSE 0
  <2>1. /\ position[p] \in Nat /\ position[m[1]] \in Nat
        /\ position'[p] = position[p] + 1
        /\ (m[1] # p => position'[m[1]] = position[m[1]])
        /\ applied' = applied /\ rewinds' = rewinds
    BY <1>3, <1>5 DEF EachMessage, IInv, TypeOK, Offset, faults
  <2>2. position[p] + 1 \in 1 .. MaxLog
    <3>1. position'[p] \in 0 .. MaxLog
      BY DEF IInv, TypeOK, Offset
    <3> QED BY <2>1, <3>1
  <2>3. batch \in Batch
    BY <2>2, AddToType DEF IInv, TypeOK
  <2>4. applied[m] + batch.updates[m] + Unwritten(m) <= rewinds + now
    <3>1. active.updates \in [Message -> Nat]
      BY DEF IInv, TypeOK, Batch
    <3>2. batch.updates = [active.updates EXCEPT ![<<p, position[p] + 1>>] = @ + 1]
      BY DEF AddTo
    <3>3. CASE m = <<p, position[p] + 1>>
      <4>1. batch.updates[m] = active.updates[m] + 1
        BY <3>1, <3>2, <3>3
      <4>2. m[1] = p /\ m[2] = position[p] + 1
        BY <3>3
      <4>3. read = 0 /\ now = 1
        BY <2>1, <4>2
      <4> QED BY <1>1, <1>2, <4>1, <4>3
    <3>4. CASE m # <<p, position[p] + 1>>
      <4>1. batch.updates[m] = active.updates[m]
        BY <3>1, <3>2, <3>4
      <4>2. read = now
        BY <1>3, <2>1, <3>4
      <4> QED BY <1>2, <4>1, <4>2
    <3> QED BY <3>3, <3>4
  <2>5. CASE CanRotate(batch) /\ Rotate(Consumer, batch)
    <3>1. Consumer \in Activation
      BY DEF Activation
    <3>2. batch.updates[m] \in Nat
      BY <2>3 DEF Batch
    <3> HIDE DEF batch
    <3>3. Unwritten(m) = 0 /\ Unwritten(m)' = batch.updates[m] /\ active'.updates[m] = 0
      BY <2>3, <2>5, <3>1, RotateMovesUpdates
    <3> QED BY <1>1, <2>1, <2>4, <3>2, <3>3
  <2>6. CASE active' = batch /\ UNCHANGED <<flushing, pc, dto>>
    <3>1. Unwritten(m)' = Unwritten(m)
      BY <2>6 DEF Unwritten
    <3> HIDE DEF batch
    <3> QED BY <2>1, <2>4, <2>6, <3>1
  <2> QED BY <1>5, <2>5, <2>6 DEF EachMessage
<1>6. ASSUME NEW a \in Tick, TimerFires(a)
      PROVE  applied'[m] + active'.updates[m] + Unwritten(m)'
               <= rewinds' + (IF m[2] <= position'[m[1]] THEN 1 ELSE 0)
  <2>1. a \in Activation /\ active \in Batch
    BY DEF Activation, IInv, TypeOK
  <2>2. Unwritten(m) = 0 /\ Unwritten(m)' = active.updates[m] /\ active'.updates[m] = 0
    BY <1>6, <2>1, RotateMovesUpdates DEF TimerFires
  <2>3. UNCHANGED <<applied, rewinds, position>>
    BY <1>6 DEF TimerFires, broker, faults
  <2> QED BY <1>1, <1>2, <2>2, <2>3
<1>7. ASSUME NEW a \in Activation, BulkWrite(a)
      PROVE  applied'[m] + active'.updates[m] + Unwritten(m)'
               <= rewinds' + (IF m[2] <= position'[m[1]] THEN 1 ELSE 0)
  <2>1. Unwritten(m) = flushing.updates[m] /\ dto[a] = flushing.updates
    BY <1>7 DEF Unwritten, BulkWrite, IInv, FlushIsExclusive, InFlush
  <2>2. applied'[m] = applied[m] + dto[a][m]
    BY <1>7 DEF BulkWrite
  <2>3. Unwritten(m)' = 0
    <3>1. \A b \in Activation : pc'[b] # "write"
      BY <1>7 DEF BulkWrite, IInv, TypeOK, FlushIsExclusive, InFlush
    <3> QED BY <3>1 DEF Unwritten
  <2>4. UNCHANGED <<active, rewinds, position>>
    BY <1>7 DEF BulkWrite, broker, faults
  <2> QED BY <1>1, <1>2, <2>1, <2>2, <2>3, <2>4
<1>8. ASSUME NEW a \in Activation, BulkWriteFails(a)
      PROVE  applied'[m] + active'.updates[m] + Unwritten(m)'
               <= rewinds' + (IF m[2] <= position'[m[1]] THEN 1 ELSE 0)
  <2>1. Unwritten(m) = flushing.updates[m] /\ dto[a] = flushing.updates
    BY <1>8 DEF Unwritten, BulkWriteFails, IInv, FlushIsExclusive, InFlush
  <2>2. applied'[m] \in {applied[m] + dto[a][m], applied[m]}
    BY <1>8 DEF BulkWriteFails
  <2>3. Unwritten(m)' = 0
    BY <1>8, NoUnwrittenAfterClear DEF BulkWriteFails, InFlush
  <2>4. UNCHANGED <<active, rewinds, position>>
    BY <1>8 DEF BulkWriteFails, broker
  <2> QED BY <1>1, <1>2, <2>1, <2>2, <2>3, <2>4
<1>9. ASSUME NEW a \in Activation, CommitOffsets(a)
      PROVE  applied'[m] + active'.updates[m] + Unwritten(m)'
               <= rewinds' + (IF m[2] <= position'[m[1]] THEN 1 ELSE 0)
  <2>1. Unwritten(m) = 0
    BY <1>9, UnwrittenIdle DEF CommitOffsets, IInv, FlushIsExclusive, InFlush
  <2>2. Unwritten(m)' = 0
    <3>1. \A b \in Activation : pc'[b] # "write"
      BY <1>9 DEF CommitOffsets, IInv, TypeOK, FlushIsExclusive, InFlush
    <3> QED BY <3>1 DEF Unwritten
  <2>3. UNCHANGED <<applied, active, rewinds, position>>
    BY <1>9 DEF CommitOffsets, faults
  <2> QED BY <1>2, <2>1, <2>2, <2>3
<1>10. ASSUME NEW a \in Activation, CommitFails(a) \/ FlushReturns(a)
       PROVE  applied'[m] + active'.updates[m] + Unwritten(m)'
                <= rewinds' + (IF m[2] <= position'[m[1]] THEN 1 ELSE 0)
  <2>1. InFlush(a) /\ Clear(a) /\ UNCHANGED <<applied, active, rewinds, position>>
    BY <1>10 DEF CommitFails, FlushReturns, InFlush, broker, faults
  <2>2. Unwritten(m)' = 0
    BY <2>1, NoUnwrittenAfterClear
  <2> QED BY <1>1, <1>2, <2>1, <2>2
<1>11. CASE Crash
  <2>1. /\ Unwritten(m)' = 0 /\ active'.updates[m] = 0
        /\ applied' = applied /\ rewinds' = rewinds + 1
    BY <1>11 DEF Crash, Unwritten, EmptyBatch, NoMessage
  <2> QED BY <1>1, <1>2, <2>1
<1>12. CASE Rebalance
  <2>1. /\ Unwritten(m)' = Unwritten(m) /\ active' = active
        /\ applied' = applied /\ rewinds' = rewinds + 1
    BY <1>12 DEF Rebalance, Unwritten
  <2> QED BY <1>1, <1>2, <2>1
<1>13. ASSUME NEW p \in Partition, NEW c \in Comment, Publish(p, c)
       PROVE  UNCHANGED <<applied, active, flushing, pc, rewinds, position>>
  BY <1>13 DEF Publish, faults
<1> QED
  BY <1>4, <1>5, <1>6, <1>7, <1>8, <1>9, <1>10, <1>11, <1>12, <1>13
  DEF Next, FlushStep, vars

\* The $inc of a like count is applied at most once per event, plus once for
\* every crash or rebalance of the consumer.
THEOREM NoUnexplainedDuplicates == Spec => []DuplicatesOnlyFromRewinds
<1>1. Init => DuplicatesOnlyFromRewinds
  <2> SUFFICES ASSUME Init, NEW m \in Message
               PROVE  applied[m] + active.updates[m] + Unwritten(m)
                        <= rewinds + (IF m[2] <= position[m[1]] THEN 1 ELSE 0)
    BY DEF DuplicatesOnlyFromRewinds
  <2>1. applied[m] = 0 /\ active.updates[m] = 0 /\ rewinds = 0 /\ Unwritten(m) = 0
    BY DEF Init, EmptyBatch, NoMessage, Unwritten
  <2> QED BY <2>1
<1>2. IInv /\ IInv' /\ [Next]_vars /\ DuplicatesOnlyFromRewinds
        => DuplicatesOnlyFromRewinds'
  BY NextDuplicates
<1> QED BY <1>1, <1>2, Invariance, PTL DEF Spec

----------------------------------------------------------------------------
(***************************************************************************)
(* The refinement: a commit acknowledges, every other step settles.         *)
(***************************************************************************)
LEMMA StepRefines ==
  IInv /\ IInv' /\ [Next]_vars
    => [Promise!Next]_<<{m \in Message : Settled(m)}, committed>>
<1> SUFFICES ASSUME IInv, IInv', [Next]_vars
             PROVE  Promise!Next
  OBVIOUS
<1> DEFINE settled == {m \in Message : Settled(m)}
<1>1. CASE committed' = committed
  <2>1. settled \subseteq settled'
    BY SettledStays DEF IInv
  <2> QED BY <1>1, <2>1 DEF Promise!Next, Promise!Settle, Promise!Message, Message
<1>2. ASSUME NEW a \in Activation, CommitOffsets(a) PROVE Promise!Next
  <2>1. UNCHANGED <<applied, failed>>
    BY <1>2 DEF CommitOffsets, faults
  <2>2. settled' = settled
    BY <2>1 DEF Settled
  <2>3. committed' \in [Partition -> 0 .. MaxLog]
    BY DEF IInv, TypeOK, Offset
  <2>4. ASSUME NEW p \in Partition, NEW o \in 1 .. committed'[p]
        PROVE  <<p, o>> \in settled
    <3>1. o \in 1 .. MaxLog
      BY <2>3, BatchWorkerAssumption
    <3>2. Settled(<<p, o>>)
      BY <2>1 DEF IInv, CommittedIsSettled, Settled
    <3> QED BY <3>1, <3>2, MessageShape
  <2> QED BY <2>2, <2>3, <2>4 DEF Promise!Next, Promise!Acknowledge
<1>3. committed' = committed \/ \E a \in Activation : CommitOffsets(a)
  BY DEF Next, FlushStep, Publish, EachMessage, TimerFires, BulkWrite,
         BulkWriteFails, CommitFails, FlushReturns, Crash, Rebalance, broker, vars
<1> QED BY <1>1, <1>2, <1>3

\* The batching consumer is an acknowledging consumer: what is behind its
\* committed offsets was settled before they were committed.
THEOREM Implements == Spec => ImplementsAckedConsumer
<1>1. Init => Promise!Init
  BY DEF Init, Promise!Init, Settled, NoMessage
<1> QED
  BY <1>1, StepRefines, Invariance, PTL
  DEF Spec, ImplementsAckedConsumer, Promise!Spec

=============================================================================
