SPECIFICATION FairRpcSpec
CONSTANTS
  Addresses = {1, 2}
  NoAddress = NoAddress
  NoUpdate = NoUpdate
  BlockTime = 1
  StartingTime = 0
  ClockStart = 0
  MaxNow = 0
  Durations = {}
  Second = 1
  MaxInt64 = 1000
  Free = Free
  Leaked = Leaked
  Main = Main
  Handlers = {h1}
  AutoRunners = {}
  Clients = {1, 2}
  GenesisValidators <- OnlyOne
  GenesisParams = 0
  InitialHeight = 1
  InitResponses <- InitOnlyOne
  Responses <- KeepOrRefuse
  AppMay = {"fewTxResults"}
  ProduceBlocks = FALSE
  AutoIncludeTx = FALSE
  Txs = {x}
  NoTx = NoTx
  NoMisbehaviour = NoMisbehaviour
  Misbehaviours = {}
  StatusRequests = {}
  MaxAdvance = 0
  MaxCopies = 1
  MaxBlocks = 1
  MaxRuns = 2
  Subscriptions = {}
  RemoteAddr <- OneAddr
  Query <- TxsAndBlocks
  BufferSize = 2
  Indexer = Indexer
  DefaultPerPage = 2
  MaxPerPage = 3
  NoParam = NoParam
  Readers = {r1}
  HeightParams <- SomeHeights
  PageParams <- SomePages
  OrderParams = {"", "other"}
  QueriesFail = TRUE
  MaxReads = 2
  Kinds = {"block", "commit", "validators", "consensus_params", "block_results", "block_search", "tx", "tx_search", "abci_query", "abci_info", "status"}
INVARIANTS AnswersFound CommitAnswersMatch ReadsGoForward QueryAnswersAreSnapshots StatusGoesForward PagesPartition
PROPERTIES ReadsReturn
CHECK_DEADLOCK FALSE
