\* The control-message ring: its occupancy, the per-peer masks, the
\* in-place ACK overwrite and the timer that drains it.  Two peers whose
\* queueable types overflow a ring of two; the peers are symmetric.
CONSTANTS
  Peers = {p1, p2}
  QSize = 2
  MaxAcks = 2
  NULL = NULL
SYMMETRY MCSymmetry
SPECIFICATION Spec
INVARIANTS
  TypeOK
  RingMatchesMasks
  QueuedAckIsCurrent
  QueuedHasTimer
