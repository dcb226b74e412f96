----------------------------- MODULE MCRewards -----------------------------
(* A small instance of Rewards for TLC. *)
EXTENDS Rewards, TLC

CONSTANTS ann, bob, v1, v2, q1, c1, c2

TwoUsers    == {ann, bob}
TwoConvos   == {v1, v2}
OnePost     == {q1}
OneComment  == {c1}
TwoComments == {c1, c2}

Symmetry == UNION {Permutations(User), Permutations(Convo), Permutations(Comment)}
============================================================================
