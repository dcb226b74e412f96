--------------------------- MODULE MCLikePipeline ---------------------------
(* A small instance of LikePipeline for TLC. *)
EXTENDS LikePipeline

CONSTANTS ann, bob, c1

TwoAuthors == {ann, bob}
OneComment == {c1}
NoComment  == {}
Bounds ==
  {[workers |-> Worker, requests |-> 3, deletions |-> 0, faults |-> 0],
   [workers |-> Worker, requests |-> 2, deletions |-> 1, faults |-> 0],
   [workers |-> Worker, requests |-> 1, deletions |-> 0, faults |-> 1],
   [workers |-> {"like", "unlike", "count"}, requests |-> 2, deletions |-> 0, faults |-> 1]}
============================================================================
