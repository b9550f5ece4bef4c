\* The hotel alone: two transactions, each requested up to twice, and local
\* customers compete for two rooms; the logic path computes the updates.
CONSTANTS
  Tx = {t1, t2}
  hotel = hotel
  flight = flight
  train = train
  bc2 = bc2
  bc3 = bc3
  Contract = {hotel}
  Chain = {bc2}
  ChainOf <- HotelChainOf
  Batch <- HotelBatch
  Num <- OneEach
  LockSize <- OneEach
  Rooms <- TwoEach
  LocalBookings <- AllCustomers
  Fee = 1
  DappTimeout = 0
  BridgeTimeout = 1
  MaxAttempts = 2
  ExecuteThreshold = 1
  UpdateAckThreshold = 1
  RootResults = {}
  InitiatorActs = TRUE
  AnyoneUnlocks = TRUE
  MaxRestarts = 0
SPECIFICATION Spec
INVARIANTS
  BookedExactlyOnce
  LockAccounting
  FeeSolvency
  RoomsNeverLost
CHECK_DEADLOCK FALSE
