\* Three entries and one that is created; pages of one or two.
SPECIFICATION ScrollSpec
CONSTANTS
  Id <- Ids
  Time <- Times
  Kind <- Kinds
  Limit <- Limits
  CacheSize = 2
  MaxPages = 6
  MaxChanges = 2
  Nothing = Nothing
INVARIANTS
  ScrollShowsAll
CHECK_DEADLOCK FALSE
