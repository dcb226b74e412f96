\* Three racing calls, two partitions, a lost publish or restart on either side.
SPECIFICATION NotiSpec
CONSTANTS
  ann = ann
  bob = bob
  k1 = k1
  k2 = k2
  k3 = k3
  p1 = p1
  p2 = p2
  User <- TwoUsers
  Call <- ThreeCalls
  Partition <- TwoPartitions
  MaxFaults = 1
  MaxMishaps = 1
SYMMETRY Symmetry
INVARIANTS
  EventsTellTheStory
  NotificationsMirrorRows
PROPERTIES
  RetriesAreHarmless
CHECK_DEADLOCK FALSE
