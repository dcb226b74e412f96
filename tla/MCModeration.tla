---------------------------- MODULE MCModeration ----------------------------
(* A small instance of Moderation for TLC. *)
EXTENDS Moderation, TLC

CONSTANT p1

OnePost  == {p1}
============================================================================
