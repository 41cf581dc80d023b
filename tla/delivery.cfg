SPECIFICATION FairBusSpec
CONSTANTS
  Addresses = {1, 2}
  NoAddress = NoAddress
  NoUpdate = NoUpdate
  BlockTime = 1
  StartingTime = 0
  ClockStart = 0
  MaxNow = 0
  Durations = {}
  Second = 1
  MaxInt64 = 1000
  Free = Free
  Leaked = Leaked
  Main = Main
  Handlers = {h1}
  AutoRunners = {g1}
  Clients = {1}
  GenesisValidators <- OnlyOne
  GenesisParams = 0
  InitialHeight = 1
  InitResponses <- InitOnlyOne
  Responses <- KeepOrRefuse
  AppMay = {"fewTxResults"}
  ProduceBlocks = FALSE
  AutoIncludeTx = TRUE
  Txs = {x}
  NoTx = NoTx
  NoMisbehaviour = NoMisbehaviour
  Misbehaviours = {}
  StatusRequests = {}
  MaxAdvance = 0
  MaxCopies = 1
  MaxBlocks = 1
  MaxRuns = 2
  Subscriptions = {s1}
  RemoteAddr <- OneAddr
  Query <- TxsAndBlocks
  BufferSize = 2
  Indexer = Indexer
INVARIANTS IndexMatchesStores IndexLagsTwoBlocks NothingSkipped BusInv DeliveryInv
PROPERTIES TxsAreIncluded StoresUnlock TxsAreIndexed EventsAreDelivered
CHECK_DEADLOCK FALSE
