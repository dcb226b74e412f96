\* Two comments, one of them the post author's own, on a post that is judged.
SPECIFICATION NotiSpec
CONSTANTS
  ann = ann
  bob = bob
  cat = cat
  p1 = p1
  c1 = c1
  c2 = c2
  User <- ThreeUsers
  Post <- OnePost
  Comment <- TwoComments
  PostAuthor <- Author
  CommentAuthor <- Commenter
  PostOf <- OnPost
  Scene <- Scenes
  MaxLikes = 2
INVARIANTS
  OrphansAreExplained
  IndexMirrorsComments
  CountsWithinSlack
  PostAuthorsKnow
  LikesAreCounted
CHECK_DEADLOCK FALSE
