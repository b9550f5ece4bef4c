CONSTANTS
  Requests = {r1, r2, r3}
  Txs = {t1}
  None = None
  WaitFinalized = TRUE
  MaxFaults = 2
SPECIFICATION Spec
INVARIANT OkMeansFinal
PROPERTY EveryRequestAnswered
CHECK_DEADLOCK FALSE
