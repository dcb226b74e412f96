\* One post, of a hot author or not, two verdicts, and two faults.
SPECIFICATION Spec
CONSTANTS
  p1 = p1
  Post <- OnePost
  MaxVerdicts = 2
  MaxFaults = 2
INVARIANTS
  IndexAgrees
  FeedIsComplete
PROPERTIES
  IndexNeverBack
CHECK_DEADLOCK FALSE
