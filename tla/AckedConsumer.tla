--------------------------- MODULE AckedConsumer ---------------------------
(***************************************************************************)
(* What a manually committing Kafka consumer promises its topic: a message  *)
(* once settled (handled, or given up on) stays settled, and an offset is   *)
(* acknowledged only when every message below it is settled.  How messages  *)
(* are batched, in which order they are settled, and how often the process  *)
(* is restarted is left open.                                               *)
(***************************************************************************)
EXTENDS Naturals

CONSTANTS Partition, MaxLog

VARIABLES
  settled,   \* messages that need not be delivered again
  acked      \* per partition, the committed offset

Message == Partition \X (1 .. MaxLog)

Init ==
  /\ settled = {}
  /\ acked   = [p \in Partition |-> 0]

Settle ==
  /\ settled \subseteq settled'
  /\ settled' \subseteq Message
  /\ UNCHANGED acked

Acknowledge ==
  /\ acked' \in [Partition -> 0 .. MaxLog]
  /\ \A p \in Partition : \A o \in 1 .. acked'[p] : <<p, o>> \in settled
  /\ UNCHANGED settled

Next == Settle \/ Acknowledge

Spec == Init /\ [][Next]_<<settled, acked>>
============================================================================
