\* One request, the relayer deciding; a local customer may take the last seat
\* of the flight before it is locked.
CONSTANTS
  Tx = {t1}
  hotel = hotel
  flight = flight
  train = train
  bc2 = bc2
  bc3 = bc3
  Contract = {hotel, flight, train}
  Chain = {bc2, bc3}
  ChainOf <- TravelChainOf
  Batch <- TravelBatch
  Num <- OneEach
  LockSize <- OneEach
  Rooms <- OneEach
  LocalBookings <- FlightCustomers
  Fee = 0
  DappTimeout = 0
  BridgeTimeout = 1
  MaxAttempts = 1
  ExecuteThreshold = 3
  UpdateAckThreshold = 3
  RootResults = {1}
  InitiatorActs = FALSE
  AnyoneUnlocks = TRUE
  MaxRestarts = 1
SPECIFICATION Spec
INVARIANTS
  FailedLockNeverCommits
CHECK_DEADLOCK FALSE
