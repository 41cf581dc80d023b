SPECIFICATION FairSpec
CONSTANTS
  Addresses = {1, 2}
  NoAddress = NoAddress
  NoUpdate = NoUpdate
  BlockTime <- SystemClock
  StartingTime = 4
  ClockStart = 3
  MaxNow = 4
  Durations = {1}
  Second = 1
  MaxInt64 = 1000
  Free = Free
  Leaked = Leaked
  Main = Main
  Handlers = {h1, h2}
  AutoRunners = {}
  Clients = {1, 2}
  GenesisValidators <- BigSmall
  GenesisParams = 0
  InitialHeight = 1
  InitResponses <- InitBigSmall
  Responses <- NoChange
  AppMay = {"failInitChain", "rejectProposal", "failFinalizeBlock", "failCommit"}
  ProduceBlocks = FALSE
  AutoIncludeTx = FALSE
  Txs = {}
  NoTx = NoTx
  NoMisbehaviour = NoMisbehaviour
  Misbehaviours = {}
  StatusRequests = {}
  MaxAdvance = 1
  MaxCopies = 0
  MaxBlocks = 1
  MaxRuns = 2
INVARIANTS BlocksLinked AppsFollowStores LastCommitIsStored AppHashOfParent TimeFollowsClock
PROPERTIES RunsReturn RefinesLedger
CHECK_DEADLOCK FALSE
