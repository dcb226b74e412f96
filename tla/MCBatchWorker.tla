--------------------------- MODULE MCBatchWorker ---------------------------
(* A small instance of BatchWorker for TLC. *)
EXTENDS BatchWorker, TLC

CONSTANTS p1, p2, c1, c2, t1, eachMessage

TwoPartitions == {p1, p2}
TwoComments   == {c1, c2}
OneTick       == {t1}
============================================================================
