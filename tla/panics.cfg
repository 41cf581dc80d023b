SPECIFICATION Spec
CONSTANTS
  Addresses = {1, 2, 3}
  NoAddress = NoAddress
  NoUpdate = NoUpdate
  BlockTime = 1
  StartingTime = 0
  ClockStart = 0
  MaxNow = 0
  Durations = {}
  Second = 1
  MaxInt64 = 1000
  Free = Free
  Leaked = Leaked
  Main = Main
  Handlers = {h1, h2}
  AutoRunners = {}
  Clients = {1, 2}
  GenesisValidators <- BigSmall
  GenesisParams = 3
  InitialHeight = 1
  InitResponses <- InitAny
  Responses <- KeepOrFail
  AppMay = {"failPrepareProposal", "unknownStatus", "failExtendVote", "rejectExtension", "failFinalizeBlock"}
  ProduceBlocks = FALSE
  AutoIncludeTx = FALSE
  Txs = {}
  NoTx = NoTx
  NoMisbehaviour = NoMisbehaviour
  Misbehaviours = {}
  StatusRequests <- UpOrDown
  MaxAdvance = 0
  MaxCopies = 0
  MaxBlocks = 1
  MaxRuns = 2
SYMMETRY HandlerSymmetry
INVARIANTS TypeOK StoresAgree CommitsHaveQuorum StorageInv
PROPERTIES StoresAppendOnly
CHECK_DEADLOCK FALSE
