--------------------------- MODULE MCProfileIndex ---------------------------
(* A small instance of ProfileIndex (and Accounts) for TLC. *)
EXTENDS ProfileIndex

CONSTANTS ann, bob, root

Addresses == {ann, bob}
Admins == {root}
SignedIn(who) == {Token("user", e, 0) : e \in who} \cup {Token("admin", root, 0)}
Scenes ==
  {[registered |-> {}, tokens |-> {}, faults |-> 0, acts |-> 4,
    asked |-> {"signUp", "verify", "google"}],
   [registered |-> {}, tokens |-> {}, faults |-> 1, acts |-> 3,
    asked |-> {"signUp", "verify"}],
   [registered |-> {ann}, tokens |-> SignedIn({ann}), faults |-> 0, acts |-> 4,
    asked |-> {"reset", "login", "block"}],
   [registered |-> {ann}, tokens |-> SignedIn({ann}), faults |-> 0, acts |-> 3,
    asked |-> {"google", "refresh", "block"}],
   [registered |-> {ann}, tokens |-> SignedIn({ann}), faults |-> 1, acts |-> 4,
    asked |-> {"reset", "change"}],
   [registered |-> {ann}, tokens |-> {}, faults |-> 0, acts |-> 3,
    asked |-> {"admin", "logout", "refresh"}],
   [registered |-> {ann}, tokens |-> SignedIn({ann}), faults |-> 0, acts |-> 3,
    asked |-> {"profile", "picture", "block"}],
   [registered |-> {ann}, tokens |-> SignedIn({ann}), faults |-> 1, acts |-> 2,
    asked |-> {"profile", "picture", "block"}],
   [registered |-> {}, tokens |-> SignedIn({}), faults |-> 0, acts |-> 3,
    asked |-> {"google", "profile", "picture", "block"}],
   [registered |-> {}, tokens |-> SignedIn({}), faults |-> 1, acts |-> 2,
    asked |-> {"google", "profile", "picture", "block"}]}
============================================================================
