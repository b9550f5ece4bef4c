\* Three contracts on two chains, one transaction id requested twice, one
\* relayer restart, everybody allowed to act.
CONSTANTS
  Tx = {t1}
  hotel = hotel
  flight = flight
  train = train
  bc2 = bc2
  bc3 = bc3
  Contract = {hotel, flight, train}
  Chain = {bc2, bc3}
  ChainOf <- TravelChainOf
  Batch <- TravelBatch
  Num <- OneEach
  LockSize <- OneEach
  Rooms <- OneEach
  LocalBookings <- FlightCustomers
  Fee = 0
  DappTimeout = 0
  BridgeTimeout = 1
  MaxAttempts = 2
  ExecuteThreshold = 3
  UpdateAckThreshold = 3
  RootResults = {1}
  InitiatorActs = TRUE
  AnyoneUnlocks = TRUE
  MaxRestarts = 1
SPECIFICATION Spec
INVARIANTS
  TypeOK
  IInv
  CompletedImpliesUpdated
  NoLockAfterUpdate
  AcksBelowThreshold
PROPERTIES
  UpdateOnlyWhileCommitDecided
  Refinement
CHECK_DEADLOCK FALSE
