------------------------ MODULE MCFriendNotifications ------------------------
(* A small instance of FriendNotifications for TLC. *)
EXTENDS FriendNotifications, TLC

CONSTANTS ann, bob, k1, k2, k3, p1, p2

TwoUsers      == {ann, bob}
ThreeCalls    == {k1, k2, k3}
OnePartition  == {p1}
TwoPartitions == {p1, p2}

Symmetry == UNION {Permutations(User), Permutations(Call), Permutations(Partition)}
============================================================================
