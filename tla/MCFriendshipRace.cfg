\* Three calls are enough for a cancel to overtake an accept.
SPECIFICATION FriendSpec
CONSTANTS
  ann = ann
  bob = bob
  k1 = k1
  k2 = k2
  k3 = k3
  p1 = p1
  p2 = p2
  User <- TwoUsers
  Call <- ThreeCalls
  Partition <- OnePartition
  MaxFaults = 0
PROPERTIES
  OnlyUnfriendingEndsFriendship
CHECK_DEADLOCK FALSE
