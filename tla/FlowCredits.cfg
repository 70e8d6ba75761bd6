\* Safety of credit accounting and retransmission of one flow.
CONSTANTS
  PsnMod = 8
  MinCredits = 1
  FlowCredits = 2
  CeilCredits = 3
  Adjust = 1
  IncThresh = 1
  MaxQueued = 3
  Total = 4
  ChanCap = 2
  MaxLoss = 1
  StartPsn = 6
SPECIFICATION Spec
INVARIANTS
  TypeOK
  NoCreditLeak
  MaxCreditsInRange
  InFlightHasAckTimer
