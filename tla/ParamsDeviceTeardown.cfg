\* Can psm3_ep_open_verbs, on a failure or in psm3_ep_free_verbs, destroy a
\* device resource while one created on it is still open?  Every RDMA mode,
\* the kernel MR cache with and without the rv's user MR capability, with
\* and without an SRQ, and every step failing in turn.  And can an endpoint
\* open that fails, or a close whose fini fails, free the ep while the stats
\* registry still points into it?
CONSTANTS
  MaxCredit = 6
  MinDefault = 2
  MaxDefault = 4
  RcMinDefault = 3
  RcMaxDefault = 5
  StepDefault = 1
  Psm2FlowCredits = 3
  FieldVals <- MCFieldVals
  SendDescs = {1, 3, 5}
  Widths = {0, 1, 2, 4, 8, 16, 32}
  Speeds = {0, 1, 2, 3, 4, 8, 16, 32, 64, 128, 256}
  RdmaEnvs = {Keep, 0, 1, 2, 3, 4, 9, 18}
  MrEnvs = {Keep, 0, 1, 2, 3, 7}
  PtlMaxInit = 3
  DevWords = {"self", "shm", "ips", "nic", "bogus"}
  MaxDevWords = 4
  Coallesce = 2
  SendWqesVals = {0, 1, 3, 4, 6}
  SendRdmaVals = {0, 1}
  HwMaxWrVals = {1, 2, 4, 5, 8}
  Keep = Keep
  Bad = Bad
SPECIFICATION Spec
INVARIANTS
  DestroyedAfterUsers
