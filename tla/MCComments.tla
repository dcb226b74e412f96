----------------------------- MODULE MCComments -----------------------------
(* A small instance of CommentNotifications (and Comments) for TLC. *)
EXTENDS CommentNotifications, TLC

CONSTANTS ann, bob, cat, p1, c1, c2

ThreeUsers == {ann, bob, cat}
OnePost == {p1}
TwoComments == {c1, c2}
Author == p1 :> ann
Commenter == c1 :> bob @@ c2 :> ann
OnPost == [c \in TwoComments |-> p1]
Scenes ==
  {[consumers |-> {"indexPost", "countCreated", "countDeleted"},
    comments |-> TwoComments, verdicts |-> {"ok"}, faults |-> 1],
   [consumers |-> {"indexPost", "indexCreated", "indexDeleted", "noticeCreated",
                   "noticeDeleted", "noticePost"},
    comments |-> TwoComments, verdicts |-> {}, faults |-> 0],
   [consumers |-> {"indexPost", "indexCreated", "indexDeleted", "noticeCreated",
                   "noticeDeleted", "noticePost"},
    comments |-> {c1}, verdicts |-> {}, faults |-> 1],
   [consumers |-> {"indexCreated", "indexDeleted", "noticeDeleted", "noticePost",
                   "noticeLiked", "noticeUnliked"},
    comments |-> {c1}, verdicts |-> {}, faults |-> 1],
   [consumers |-> {"noticeJudged"},
    comments |-> {}, verdicts |-> Judgement, faults |-> 1]}
============================================================================
