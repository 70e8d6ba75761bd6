\* The start-up selections over every input of the bounded sets: env tuples
\* of up to three fields (empty, not a number, negative, zero, in range and
\* above IPS_MAX_CREDIT), send descriptor counts below, between and above
\* the defaults, every IB width and speed code and unknown ones, every
\* build and machine with PSM3_RDMA and PSM3_MR_CACHE_MODE set or not.
CONSTANTS
  MaxCredit = 6
  MinDefault = 2
  MaxDefault = 4
  RcMinDefault = 3
  RcMaxDefault = 5
  StepDefault = 1
  Psm2FlowCredits = 3
  FieldVals <- MCFieldVals
  SendDescs = {1, 3, 5}
  Widths = {0, 1, 2, 4, 8, 16, 32}
  Speeds = {0, 1, 2, 3, 4, 8, 16, 32, 64, 128, 256}
  RdmaEnvs = {Keep, 0, 1, 2, 3, 4, 9, 18}
  MrEnvs = {Keep, 0, 1, 2, 3, 7}
  PtlMaxInit = 3
  DevWords = {"self", "shm", "ips", "nic", "bogus"}
  MaxDevWords = 4
  Coallesce = 2
  SendWqesVals = {0, 1, 3, 4, 6}
  SendRdmaVals = {0, 1}
  HwMaxWrVals = {1, 2, 4, 5, 8}
  Keep = Keep
  Bad = Bad
SPECIFICATION Spec
INVARIANTS
  TypeOK
  CreditsConfigValid
  RateIsLanesTimesLaneRate
  MrCacheModeServesRdma
  
  RcQpHoldsSendPool
  PoolsReleasedOnce
  DeviceReleasedOnce
  EndpointReleasedOnClose
