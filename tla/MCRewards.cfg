\* Three chat messages or liked comments, of two users, and one fault.
SPECIFICATION Spec
CONSTANTS
  ann = ann
  bob = bob
  v1 = v1
  v2 = v2
  q1 = q1
  c1 = c1
  c2 = c2
  User <- TwoUsers
  Convo <- TwoConvos
  Post <- OnePost
  Comment <- TwoComments
  Interval = 2
  MaxTime = 3
  MaxInputs = 3
  MaxFaults = 1
SYMMETRY Symmetry
INVARIANTS
  RewardedOnce
  ShownIsEarned
  CoolOff
CHECK_DEADLOCK FALSE
