\* One post with any attachment, and any two faults.
SPECIFICATION FairSpec
CONSTANTS
  p1 = p1
  Post <- OnePost
  MaxFaults = 2
INVARIANTS
  PendingIsWaiting
  FailedIsRetried
PROPERTIES
  PostsAreJudged
CHECK_DEADLOCK FALSE
