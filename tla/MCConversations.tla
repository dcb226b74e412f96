-------------------------- MODULE MCConversations --------------------------
(* A small instance of Conversations for TLC. *)
EXTENDS Conversations, TLC

CONSTANTS ann, bob, cat, a1, b1

ThreeUsers == {ann, bob, cat}
TwoDevices == {a1, b1}
Owner == a1 :> ann @@ b1 :> bob
Contacts == a1 :> {bob} @@ b1 :> {ann, bob, cat}
============================================================================
