--------------------------- MODULE MCCallProtocol ---------------------------
(* A small instance of CallProtocol for TLC. *)
EXTENDS CallProtocol, TLC

CONSTANTS r1, r2, r3

ThreeDevices == {r1, r2, r3}

Symmetry == Permutations(Recipient)
============================================================================
