SPECIFICATION Spec
CONSTANTS
  Addresses = {1, 2}
  NoAddress = NoAddress
  NoUpdate = NoUpdate
  BlockTime = 1
  StartingTime = 0
  ClockStart = 0
  MaxNow = 0
  Durations = {}
  Second = 1
  MaxInt64 = 1000
  Free = Free
  Leaked = Leaked
  Main = Main
  Handlers = {h1}
  AutoRunners = {}
  Clients = {1, 2}
  GenesisValidators <- BigSmall
  GenesisParams = 0
  InitialHeight = 1
  InitResponses <- InitBigSmall
  Responses <- NoChange
  AppMay = {}
  ProduceBlocks = FALSE
  AutoIncludeTx = FALSE
  Txs = {}
  NoTx = NoTx
  NoMisbehaviour = NoMisbehaviour
  Misbehaviours = {}
  StatusRequests = {}
  MaxAdvance = 0
  MaxCopies = 0
  MaxBlocks = 1
  MaxRuns = 2
INVARIANTS StatesAreAfterBlocks
CHECK_DEADLOCK FALSE
