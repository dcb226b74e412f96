-------------------------- MODULE MCPostReadModels --------------------------
(* A small instance of PostReadModels for TLC. *)
EXTENDS PostReadModels

CONSTANTS p1

OnePost == {p1}
============================================================================
