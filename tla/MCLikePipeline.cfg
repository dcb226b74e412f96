\* Three clicks of two users; two and a deletion; one or two and a crash or failure.
SPECIFICATION FairSpec
CONSTANTS
  ann = ann
  bob = bob
  c1 = c1
  Author <- TwoAuthors
  Comment <- OneComment
  PostAuthor <- ann
  OwnComment <- NoComment
  Bound <- Bounds
INVARIANTS
  EventsMirrorLikes
  LikeArrives
  LastClickDecides
  CountsAgree
PROPERTIES
  CountsCatchUp
CHECK_DEADLOCK FALSE
