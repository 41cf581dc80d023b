SPECIFICATION Spec
CONSTANTS
  Addresses = {1, 2, 3}
  NoAddress = NoAddress
  NoUpdate = NoUpdate
  BlockTime = 1
  StartingTime = 0
  ClockStart = 0
  MaxNow = 0
  Durations = {}
  Second = 1
  MaxInt64 = 1000
  Free = Free
  Leaked = Leaked
  Main = Main
  Handlers = {h1}
  AutoRunners = {}
  Clients = {1, 2, 3}
  GenesisValidators <- BigSmall
  GenesisParams = 0
  InitialHeight = 1
  InitResponses <- InitBigSmall
  Responses <- KeepOrReplace
  AppMay = {}
  ProduceBlocks = TRUE
  AutoIncludeTx = FALSE
  Txs = {}
  NoTx = NoTx
  NoMisbehaviour = NoMisbehaviour
  Misbehaviours <- SomeMisbehaviours
  StatusRequests = {}
  MaxAdvance = 0
  MaxCopies = 0
  MaxBlocks = 1
  MaxRuns = 3
INVARIANTS UpdatesApplyTwoBlocksLater EvidenceNamesASigner HistoryInv ReadsInOrder ReadInv
CHECK_DEADLOCK FALSE
