\* Two addresses and an admin; each scene asks for some of the operations.
SPECIFICATION PSpec
CONSTANTS
  ann = ann
  bob = bob
  root = root
  Email <- Addresses
  Admin <- Admins
  Scene <- Scenes
INVARIANTS
  AccountsAreProven
  BlockedStaysOut
  IndexSettles
CHECK_DEADLOCK FALSE
