\* The comment above the grace loop: an extra quiet interval before it breaks.
CONSTANTS
  Peers = {p1, p2}
  Timeout = 6
  MinCloseTimeout = 2
  Interval = 2
  MaxDup = 1
  MaxTime = 10
  AllocCanFail = TRUE
SPECIFICATION Spec
INVARIANT
  QuietIntervalBeforeExit
