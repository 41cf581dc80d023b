SPECIFICATION Spec
CONSTANTS
  Addresses = {1, 2}
  NoAddress = NoAddress
  NoUpdate = NoUpdate
  BlockTime = 1
  StartingTime = 0
  ClockStart = 0
  MaxNow = 0
  Durations = {1, 2}
  Second = 2
  MaxInt64 = 3
  Free = Free
  Leaked = Leaked
  Main = Main
  Handlers = {h1}
  AutoRunners = {g1}
  Clients = {1}
  GenesisValidators <- OnlyOne
  GenesisParams = 0
  InitialHeight = 1
  InitResponses <- InitOnlyOne
  Responses <- NoChange
  AppMay = {"omitTx", "rejectTx", "failCheckTx", "fewTxResults", "failFinalizeBlock"}
  ProduceBlocks = TRUE
  AutoIncludeTx = TRUE
  Txs = {x, y}
  NoTx = NoTx
  NoMisbehaviour = NoMisbehaviour
  Misbehaviours = {}
  StatusRequests = {}
  MaxAdvance = 4
  MaxCopies = 1
  MaxBlocks = 1
  MaxRuns = 3
INVARIANTS TxsLostOnlyWithBlocks NoTxDuplicated TxInv NoTimeGained TimeInv ReadsInOrder
CHECK_DEADLOCK FALSE
