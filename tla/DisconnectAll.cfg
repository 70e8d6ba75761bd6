\* The close-time grace loop: the close gets through disconnect_all
\* whatever the peers do.
CONSTANTS
  Peers = {p1, p2}
  Timeout = 6
  MinCloseTimeout = 2
  Interval = 2
  MaxDup = 1
  MaxTime = 10
  AllocCanFail = TRUE
SPECIFICATION FairSpec
INVARIANTS
  TypeOK
PROPERTIES
  Terminates
