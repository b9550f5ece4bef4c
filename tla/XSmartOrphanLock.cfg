\* One request, the relayer alone acting, under its fairness; no restart, no
\* unlock by others and no local customer: only the order of the calls is open.
CONSTANTS
  Tx = {t1}
  hotel = hotel
  flight = flight
  train = train
  bc2 = bc2
  bc3 = bc3
  Contract = {hotel, flight, train}
  Chain = {bc2, bc3}
  ChainOf <- TravelChainOf
  Batch <- TravelBatch
  Num <- OneEach
  LockSize <- OneEach
  Rooms <- OneEach
  LocalBookings <- NoCustomers
  Fee = 0
  DappTimeout = 0
  BridgeTimeout = 1
  MaxAttempts = 1
  ExecuteThreshold = 3
  UpdateAckThreshold = 3
  RootResults = {1}
  InitiatorActs = FALSE
  AnyoneUnlocks = FALSE
  MaxRestarts = 0
SPECIFICATION FairSpec
PROPERTIES
  AbortReleasesLocks
CHECK_DEADLOCK FALSE
