\* Three messages among three users, two of them online.
SPECIFICATION ConvoSpec
CONSTANTS
  ann = ann
  bob = bob
  cat = cat
  a1 = a1
  b1 = b1
  User <- ThreeUsers
  Socket <- TwoDevices
  UserOf <- Owner
  Writes <- Contacts
  Client = b1
  Peer = ann
  PageSize = 1
  MaxTime = 2
  MaxActs = 3
INVARIANTS
  StoredForBoth
  NoMessageMissed
  ViewsAgree
  RecentsShowEach
CHECK_DEADLOCK FALSE
