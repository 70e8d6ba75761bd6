\* Safety of the send-buffer pool and the rc_qp drain protocol, with
\* reconnects that drain with and without moving the QP to ERR, and with
\* ibv_modify_qp and ibv_post_send allowed to fail: a failed post is undone
\* by psm3_ep_verbs_unalloc_sbuf, a failed drain is a fatal error that
\* terminates the process.
CONSTANTS
  b1 = b1
  b2 = b2
  b3 = b3
  b4 = b4
  Bufs <- MCBufs
  QPs = {q1, q2}
  Coallesce = 2
  HfiReapThresh = 256
  RecvTotal = 1
  MoveToErr = {TRUE, FALSE}
  DrainArgs = {FALSE, TRUE}
  DriverFailures = TRUE
  MaxRdma = 0
  NULL = NULL
SYMMETRY MCSymmetry
SPECIFICATION Spec
INVARIANTS
  TypeOK
  CountersTrackPosted
  NoFreeWithWorkPosted
  BuffersConserved
  ReapFindsBuffer
PROPERTIES
  DrainingGetsNoWork
