\* Every draining rc_qp is eventually freed, given that the NIC works off
\* its queues and the application keeps calling the progress engine.
\* Drains move the QP to ERR (connection errors and reconnects do); a drain
\* with move_to_err = 0 of an rc_qp with no send outstanding leaves its
\* receive WQEs posted on an RTS QP and is freed only by teardown.
\* No symmetry: it is unsound for liveness.  One rc_qp object, recreated
\* after it is freed; two sbufs in a pair; one RDMA write outstanding at a
\* time, so the counters are also checked here with RDMA writes in flight
\* (the safety run leaves them out to stay within its time).
CONSTANTS
  b1 = b1
  b2 = b2
  b3 = b3
  b4 = b4
  Bufs = {b1, b2}
  QPs = {q1}
  Coallesce = 2
  HfiReapThresh = 256
  RecvTotal = 1
  MoveToErr = {TRUE}
  DrainArgs = {FALSE}
  DriverFailures = FALSE
  MaxRdma = 1
  NULL = NULL
SPECIFICATION FairSpec
INVARIANTS
  CountersTrackPosted
PROPERTIES
  DrainCompletes
  PoolReplenishes
