------------------------------ MODULE MCLists ------------------------------
(* A small instance of Lists for TLC: every list, any times. *)
EXTENDS Lists

Ids == 1 .. 4
Times == 1 .. 2
Kinds == Requests \cup Posts \cup Pages
           \cup {"mutualFriends", "notifications", "feed", "comments", "userSearch"}
Limits == {1, 2}
=============================================================================
