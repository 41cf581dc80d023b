----------------------------- MODULE TypeProofs -----------------------------
(***************************************************************************)
(* Type correctness of block production: no step of a goroutine and no     *)
(* stage of runBlock_helper breaks a type.  The proofs hold for every set  *)
(* of goroutines, validators, applications and requests.                   *)
(***************************************************************************)
EXTENDS AbciClientProps, WellFoundedInduction, TLAPS

-----------------------------------------------------------------------------
(* Types.                                                                  *)

(* UpdateWithChangeSet keeps voting powers natural numbers, provided that  *)
(* validateValidatorUpdates has passed the updates.                        *)
LEMMA ChangeSetType ==
  ASSUME NEW power \in Powers,
         NEW r \in Response,
         validateValidatorUpdates(r.updates)
  PROVE  UpdateWithChangeSet(power, r.updates) \in Powers
BY DEF UpdateWithChangeSet, Powers, Response, validateValidatorUpdates, Updated

(* Arithmetic on durations stays within their range.                       *)
LEMMA WrapType ==
  ASSUME NEW x \in Int
  PROVE  Wrap(x) \in Int /\ Wrap(x) >= -MaxInt64 - 1 /\ Wrap(x) <= MaxInt64
<1>1. Half \in Nat /\ Half > 0 /\ Half = MaxInt64 + 1 /\ MaxInt64 \in Nat
  BY TimesAreIntegers DEF Half
<1>2. (x + Half) % (2 * Half) \in 0..(2 * Half - 1)
  BY <1>1
<1>3. QED
  BY <1>1, <1>2 DEF Wrap

(* A set with a chosen proposer is a validator set.                        *)
LEMMA WithProposerType ==
  ASSUME NEW power \in Powers,
         NEW set \in WithProposer(power)
  PROVE  set \in ValidatorSet
BY DEF WithProposer, ValidatorSet, Members

(* The values that the variables start with, and are reset to.             *)
LEMMA EmptyTypes ==
  /\ NoPower \in Powers
  /\ EmptyCommit \in Commit
  /\ IsBlock(EmptyBlock)
  /\ NoResponse \in Response
  /\ EmptyValidatorSet \in ValidatorSet
BY DEF NoPower, Powers, EmptyCommit, Commit, IsBlock, EmptyBlock, NoResponse, Response,
       EmptyValidatorSet, ValidatorSet

(* The genesis state is a state.                                           *)
LEMMA GenesisType ==
  ASSUME NEW vals \in GenesisSets, NEW next \in GenesisSets
  PROVE  GenesisState(vals, next) \in State
<1>1. GenesisSets \subseteq ValidatorSet
  BY ConstantsHaveTypes, EmptyTypes, WithProposerType, Zenon DEF GenesisSets
<1>2. QED
  BY <1>1, ConstantsHaveTypes, EmptyTypes DEF GenesisState, State

(* What main and NewAbciClient set up has its type.                        *)
LEMMA InitType == Init => StateTypeOK
<1> SUFFICES ASSUME Init PROVE StateTypeOK
  OBVIOUS
<1>1. GoroutineTypeOK
  BY EmptyTypes DEF Init, GoroutineTypeOK, Labels, Threads
<1>2. ClientTypeOK
  <2>1. CurState \in State
    BY GenesisType, Zenon DEF Init
  <2>2. TimeTypeOK
    BY TimesAreIntegers DEF Init, TimeInit, InitialOffset, TimeTypeOK
  <2>3. QED
    BY <2>1, <2>2, EmptyTypes, Zenon DEF Init, ClientTypeOK, Mutex
<1>3. StorageTypeOK
  BY DEF Init, StorageInit, StorageTypeOK, Mutex
<1>4. EnvironmentTypeOK
  <2>1. BlockId(EmptyBlock) \in Id
    BY Zenon DEF BlockId, EmptyBlock, Id
  <2>2. QED
    BY <2>1, Zenon DEF Init, EnvironmentTypeOK
<1>5. QED
  BY <1>1, <1>2, <1>3, <1>4, Zenon DEF StateTypeOK

(* A step that leaves the storage alone keeps its type.                    *)
LEMMA StorageFrame ==
  ASSUME StorageTypeOK, UNCHANGED storageVars
  PROVE  StorageTypeOK'
BY Zenon DEF StorageTypeOK, storageVars, Mutex, IsBlock

(* So does one that leaves the environment alone,                          *)
LEMMA EnvironmentFrame ==
  ASSUME EnvironmentTypeOK, UNCHANGED <<inputVars, apps>>
  PROVE  EnvironmentTypeOK'
BY Zenon DEF EnvironmentTypeOK, inputVars

(* or the fields of the AbciClient struct,                                 *)
LEMMA ClientFrame ==
  ASSUME ClientTypeOK, UNCHANGED <<processVars, chainVars, timeVars>>
  PROVE  ClientTypeOK'
BY Zenon DEF ClientTypeOK, processVars, chainVars, timeVars, TimeTypeOK, Mutex, IsBlock

(* or those that describe the chain,                                       *)
LEMMA ChainFrame ==
  ASSUME ClientTypeOK, UNCHANGED <<chainVars, timeVars>>,
         blockMutex' \in Mutex, serving' \in BOOLEAN, crashed' \in BOOLEAN
  PROVE  ClientTypeOK'
BY Zenon DEF ClientTypeOK, chainVars, timeVars, TimeTypeOK, Mutex, IsBlock

(* or the locals of the goroutines.                                        *)
LEMMA GoroutineFrame ==
  ASSUME GoroutineTypeOK, UNCHANGED <<pc, numBlocks, argVars, helperVars>>
  PROVE  GoroutineTypeOK'
BY Zenon DEF GoroutineTypeOK, argVars, helperVars, IsBlock

(* RunBlockWithTimeAndProposer returns: the locals are reset.              *)
LEMMA LeaveType ==
  ASSUME StateTypeOK, NEW t \in Threads, NEW outcome \in {"ok", "error", "panic"},
         Leave(t, outcome)
  PROVE  /\ GoroutineTypeOK'
         /\ blockMutex' \in Mutex /\ serving' \in BOOLEAN /\ crashed' \in BOOLEAN
<1>1. NextLabel(t, outcome) \in Labels
  BY Zenon DEF NextLabel, Labels
<1>2. GoroutineTypeOK'
  BY <1>1, EmptyTypes DEF Leave, Goto, StateTypeOK, GoroutineTypeOK, IsBlock
<1>3. blockMutex' \in Mutex
  BY Zenon DEF Leave, MutexAfter, Mutex
<1>4. serving' \in BOOLEAN
  BY Zenon DEF Leave, StateTypeOK, ClientTypeOK
<1>5. crashed' \in BOOLEAN
  BY Zenon DEF Leave
<1>6. QED
  BY Zenon, <1>2, <1>3, <1>4, <1>5

(* A step of runBlock_helper that goes on: only the helper's locals move.  *)
LEMMA ContinueType ==
  ASSUME StateTypeOK, NEW t \in Threads, NEW label \in Labels, Continue(t, label),
         IsBlock(block'), res' \in Response,
         votes' \subseteq Addresses, remaining' \subseteq Addresses
  PROVE  /\ GoroutineTypeOK'
         /\ blockMutex' \in Mutex /\ serving' \in BOOLEAN /\ crashed' \in BOOLEAN
BY Zenon DEF Continue, Goto, StateTypeOK, GoroutineTypeOK, ClientTypeOK, argVars, processVars,
       IsBlock, Mutex

(* main's startup and its production loop.                                 *)
LEMMA StartupType ==
  ASSUME StateTypeOK, Startup PROVE StateTypeOK'
<1> USE DEF StateTypeOK
<1>1. CASE InitChain
  <2>1. GoroutineTypeOK'
    BY <1>1, Zenon DEF InitChain, Goto, GoroutineTypeOK, argVars, helperVars, IsBlock, Labels
  <2>2. CurState' \in State
    <3>1. CASE \E answer \in InitResponses : UpdateStateFromInit(answer)
      <4>1. PICK answer \in InitResponses : UpdateStateFromInit(answer)
        BY Zenon, <3>1
      <4>2. answer.validators \in Powers /\ (answer.params # NoUpdate => answer.params \in Nat)
        BY Zenon, ConstantsHaveTypes
      <4>3. CASE answer.validators = NoPower
        BY <4>1, <4>2, <4>3, Zenon DEF UpdateStateFromInit, ClientTypeOK, State
      <4>4. CASE answer.validators # NoPower
        <5>1. WithProposer(answer.validators) \subseteq ValidatorSet
          BY Zenon, <4>2, WithProposerType
        <5>2. QED
          BY <4>1, <4>2, <4>4, <5>1, Zenon DEF UpdateStateFromInit, ClientTypeOK, State
      <4>5. QED
        BY Zenon, <4>3, <4>4
    <3>2. CASE UNCHANGED CurState
      BY <3>2, Zenon DEF ClientTypeOK
    <3>3. QED
      BY <1>1, <3>1, <3>2, Zenon DEF InitChain
  <2>3. ClientTypeOK'
    BY <1>1, <2>2, Zenon DEF InitChain, ClientTypeOK, timeVars, TimeTypeOK, Mutex, IsBlock
  <2>4. StorageTypeOK' /\ EnvironmentTypeOK'
    BY <1>1, StorageFrame, EnvironmentFrame, Zenon DEF InitChain
  <2>5. QED
    BY Zenon, <2>1, <2>3, <2>4
<1>2. CASE RunFirstBlock
  <2>1. GoroutineTypeOK'
    BY <1>2, TimesAreIntegers DEF RunFirstBlock, Goto, GoroutineTypeOK, ClientTypeOK, State,
       ValidatorSet, helperVars, IsBlock, Labels, FirstBlockTime, NextProposer, Threads
  <2>2. QED
    BY <1>2, <2>1, ClientFrame, StorageFrame, EnvironmentFrame, Zenon DEF RunFirstBlock
<1>3. CASE StartServer
  <2>1. GoroutineTypeOK'
    BY <1>3, Zenon DEF StartServer, Goto, GoroutineTypeOK, argVars, helperVars, IsBlock, Labels
  <2>2. ClientTypeOK'
    BY <1>3, ChainFrame, Zenon DEF StartServer, ClientTypeOK, Mutex
  <2>3. QED
    BY <1>3, <2>1, <2>2, StorageFrame, EnvironmentFrame, Zenon DEF StartServer
<1>4. CASE ProduceBlock
  <2>1. GoroutineTypeOK'
    BY <1>4 DEF ProduceBlock, StartRuns, Goto, GoroutineTypeOK, helperVars, IsBlock, Labels, Threads
  <2>2. EnvironmentTypeOK'
    BY <1>4 DEF ProduceBlock, StartRuns, EnvironmentTypeOK
  <2>3. QED
    BY <1>4, <2>1, <2>2, ClientFrame, StorageFrame, Zenon DEF ProduceBlock, StartRuns
<1>5. QED
  BY <1>1, <1>2, <1>3, <1>4, Zenon DEF Startup

(* The RPC requests that run a block or queue a transaction.               *)
LEMMA RequestType ==
  ASSUME StateTypeOK, NEW t \in Handlers, Request(t) \/ QueueTx(t) PROVE StateTypeOK'
<1> USE DEF StateTypeOK
<1>1. CASE \E n \in Nat, m \in Misbehaviours \cup {NoMisbehaviour} : StartRuns(t, n, m)
  <2>1. GoroutineTypeOK'
    BY <1>1 DEF StartRuns, Goto, GoroutineTypeOK, helperVars, IsBlock, Labels, Threads
  <2>2. EnvironmentTypeOK'
    BY <1>1 DEF StartRuns, EnvironmentTypeOK
  <2>3. QED
    BY <1>1, <2>1, <2>2, ClientFrame, StorageFrame, Zenon DEF StartRuns
<1>2. CASE AdvanceBlocks(t)
  BY <1>1, <1>2, ConstantsHaveTypes DEF AdvanceBlocks
<1>3. CASE CauseMisbehaviour(t)
  BY <1>1, <1>3, Zenon DEF CauseMisbehaviour
<1>4. CASE BroadcastTx(t)
  <2>1. GoroutineTypeOK'
    BY <1>4, Zenon DEF BroadcastTx, Goto, GoroutineTypeOK, helperVars, IsBlock, Labels
  <2>2. EnvironmentTypeOK'
    BY <1>4 DEF BroadcastTx, EnvironmentTypeOK
  <2>3. QED
    BY <1>4, <2>1, <2>2, ClientFrame, StorageFrame, Zenon DEF BroadcastTx
<1>5. CASE QueueTx(t)
  <2>1. pc' \in [Threads -> Labels]
    BY <1>5, Zenon DEF QueueTx, Goto, GoroutineTypeOK, Labels, Threads
  <2>2. numBlocks' \in [Threads -> Int]
    BY <1>5 DEF QueueTx, GoroutineTypeOK
  <2>3. GoroutineTypeOK'
    BY <1>5, <2>1, <2>2, Zenon DEF QueueTx, GoroutineTypeOK, helperVars, IsBlock
  <2>4. QED
    BY <1>5, <2>3, ClientFrame, StorageFrame, EnvironmentFrame, Zenon DEF QueueTx
<1>6. QED
  BY <1>2, <1>3, <1>4, <1>5, Zenon DEF Request

(* The system clock, and the requests that only set a value.               *)
LEMMA ControlType ==
  ASSUME StateTypeOK, ClockTick \/ RequestAdvanceTime \/ SetSigningStatus PROVE StateTypeOK'
<1> USE DEF StateTypeOK
<1>1. CASE ClockTick
  <2>1. ClientTypeOK'
    BY <1>1 DEF ClockTick, Tick, ClientTypeOK, processVars, chainVars, TimeTypeOK, Mutex, IsBlock
  <2>2. QED
    BY <1>1, <2>1, GoroutineFrame, StorageFrame, EnvironmentFrame, Zenon DEF ClockTick
<1>2. CASE RequestAdvanceTime
  <2>0. TimeTypeOK'
    <3>1. PICK d \in Durations : AdvanceTime(Wrap(d * Second))
      BY <1>2, Zenon DEF RequestAdvanceTime
    <3>2. d * Second \in Int
      BY TimesAreIntegers
    <3>3. curOffset + Wrap(d * Second) \in Int
      BY <3>2, WrapType DEF ClientTypeOK, TimeTypeOK
    <3>4. QED
      BY <3>1, <3>3, WrapType, Zenon DEF AdvanceTime, ClientTypeOK, TimeTypeOK
  <2>1. ClientTypeOK'
    BY <1>2, <2>0, Zenon DEF RequestAdvanceTime, ClientTypeOK, processVars, chainVars, Mutex, IsBlock
  <2>2. EnvironmentTypeOK'
    BY <1>2, TimesAreIntegers DEF RequestAdvanceTime, EnvironmentTypeOK
  <2>3. QED
    BY <1>2, <2>1, <2>2, GoroutineFrame, StorageFrame, Zenon DEF RequestAdvanceTime
<1>3. CASE SetSigningStatus
  <2>1. EnvironmentTypeOK'
    BY <1>3, ConstantsHaveTypes, Zenon DEF SetSigningStatus, EnvironmentTypeOK
  <2>2. QED
    BY <1>3, <2>1, GoroutineFrame, ClientFrame, StorageFrame, Zenon DEF SetSigningStatus
<1>4. QED
  BY Zenon, <1>1, <1>2, <1>3

(* RunBlock before and at blockMutex.Lock().                               *)
LEMMA BeforeLockType ==
  ASSUME StateTypeOK, NEW t \in Threads,
         ReadLastBlockTime(t) \/ CallGetBlockTime(t) \/ ReadProposer(t) \/ LockBlockMutex(t)
  PROVE  StateTypeOK'
<1> USE DEF StateTypeOK
<1>1. CASE ReadLastBlockTime(t)
  <2>1. GoroutineTypeOK'
    BY <1>1, Zenon DEF ReadLastBlockTime, Goto, GoroutineTypeOK, ClientTypeOK, helperVars, IsBlock, Labels
  <2>2. QED
    BY <1>1, <2>1, ClientFrame, StorageFrame, EnvironmentFrame, Zenon DEF ReadLastBlockTime
<1>2. CASE CallGetBlockTime(t)
  <2>1. NextBlockTime(blockTime[t]) \in Int
    <3>1. BlockTime + curOffset \in Int /\ now + curOffset \in Int /\ blockTime[t] \in Int
      BY TimesAreIntegers DEF GoroutineTypeOK, ClientTypeOK, TimeTypeOK
    <3>2. Wrap(BlockTime + curOffset) \in Int
      BY <3>1, WrapType, Zenon
    <3>3. QED
      BY <3>1, <3>2 DEF NextBlockTime
  <2>2. GoroutineTypeOK'
    BY <1>2, <2>1, Zenon DEF CallGetBlockTime, Goto, GoroutineTypeOK, helperVars, IsBlock, Labels
  <2>3. TimeTypeOK'
    BY <1>2, <2>1 DEF CallGetBlockTime, GetBlockTime, ClientTypeOK, TimeTypeOK, timeVars
  <2>4. ClientTypeOK'
    BY <1>2, <2>3, Zenon DEF CallGetBlockTime, ClientTypeOK, processVars, chainVars, Mutex, IsBlock
  <2>5. QED
    BY <1>2, <2>2, <2>4, StorageFrame, EnvironmentFrame, Zenon DEF CallGetBlockTime
<1>3. CASE ReadProposer(t)
  <2>1. NextProposer \in Addresses \cup {NoAddress}
    BY Zenon DEF NextProposer, ClientTypeOK, State, ValidatorSet
  <2>2. GoroutineTypeOK'
    BY <1>3, <2>1, Zenon DEF ReadProposer, Goto, GoroutineTypeOK, helperVars, IsBlock, Labels
  <2>3. QED
    BY <1>3, <2>2, ClientFrame, StorageFrame, EnvironmentFrame, Zenon DEF ReadProposer
<1>4. CASE LockBlockMutex(t)
  <2>1. GoroutineTypeOK'
    BY <1>4, Zenon DEF LockBlockMutex, Goto, GoroutineTypeOK, argVars, helperVars, IsBlock, Labels
  <2>2. ClientTypeOK'
    BY <1>4, ChainFrame, Zenon DEF LockBlockMutex, ClientTypeOK, Mutex
  <2>3. QED
    BY <1>4, <2>1, <2>2, StorageFrame, EnvironmentFrame, Zenon DEF LockBlockMutex
<1>5. QED
  BY Zenon, <1>1, <1>2, <1>3, <1>4

-----------------------------------------------------------------------------
(* The stages of runBlock_helper.                                          *)

(* A stage of runBlock_helper that leaves or goes on, with the fields of   *)
(* the client, the storage and the applications as they are.               *)
LEMMA StageType ==
  ASSUME StateTypeOK, NEW t \in Threads,
         \/ \E outcome \in {"ok", "error", "panic"} : Leave(t, outcome)
         \/ /\ \E label \in Labels : Continue(t, label)
            /\ IsBlock(block') /\ res' \in Response
            /\ votes' \subseteq Addresses /\ remaining' \subseteq Addresses
  PROVE  /\ GoroutineTypeOK'
         /\ UNCHANGED <<chainVars, timeVars>> => ClientTypeOK'
         /\ blockMutex' \in Mutex /\ serving' \in BOOLEAN /\ crashed' \in BOOLEAN
BY LeaveType, ContinueType, ChainFrame, Zenon DEF StateTypeOK

(* runBlock_helper until the block is proposed.                            *)
LEMMA ProposalType ==
  ASSUME StateTypeOK, NEW t \in Threads, CheckTxs(t) \/ DecideProposal(t)
  PROVE  StateTypeOK'
<1> USE DEF StateTypeOK
<1>1. CASE CheckTxs(t)
  <2>1. \/ Leave(t, "error")
        \/ Continue(t, "propose") /\ UNCHANGED helperVars
    BY <1>1, Zenon DEF CheckTxs
  <2>2. UNCHANGED helperVars => /\ IsBlock(block') /\ res' \in Response
                                /\ votes' \subseteq Addresses /\ remaining' \subseteq Addresses
    BY Zenon DEF helperVars, GoroutineTypeOK, IsBlock
  <2>3. GoroutineTypeOK' /\ (UNCHANGED <<chainVars, timeVars>> => ClientTypeOK')
    BY <2>1, <2>2, StageType, Zenon DEF Labels
  <2>4. UNCHANGED <<chainVars, inputVars, apps, timeVars, storageVars>>
    BY <1>1, Zenon DEF CheckTxs
  <2>5. QED
    BY Zenon, <2>3, <2>4, StorageFrame, EnvironmentFrame
<1>2. CASE DecideProposal(t)
  <2>1. \/ \E outcome \in {"error", "panic"} : Leave(t, outcome) /\ UNCHANGED <<proposals, queueVars>>
        \/ /\ \E txs : block' = CreateProposalBlock(t, txs)
           /\ proposals' = proposals + 1
           /\ Continue(t, "process")
           /\ UNCHANGED <<votes, remaining, res>>
    BY <1>2, Zenon DEF DecideProposal
  <2>2. \A txs : IsBlock(CreateProposalBlock(t, txs))
    BY DEF CreateProposalBlock, IsBlock, GoroutineTypeOK, ClientTypeOK, State, ParentID
  <2>3. /\ GoroutineTypeOK'
        /\ blockMutex' \in Mutex /\ serving' \in BOOLEAN /\ crashed' \in BOOLEAN
    BY <2>1, <2>2, StageType, Zenon DEF Labels, GoroutineTypeOK
  <2>4. proposals' \in Nat
    BY <2>1 DEF ClientTypeOK
  <2>5. ClientTypeOK'
    BY <1>2, <2>3, <2>4, Zenon DEF DecideProposal, ClientTypeOK, timeVars, TimeTypeOK, IsBlock
  <2>6. QED
    BY <1>2, <2>3, <2>5, StorageFrame, EnvironmentFrame, Zenon DEF DecideProposal
<1>3. QED
  BY Zenon, <1>1, <1>2

(* runBlock_helper while the block is voted on.                            *)
LEMMA VotingType ==
  ASSUME StateTypeOK, NEW t \in Threads,
         ProcessProposal(t) \/ ExtendAndSignVote(t) \/ MakeExtendedCommit(t)
  PROVE  StateTypeOK'
<1> USE DEF StateTypeOK
<1>0. CurrentValidators \subseteq Addresses
  BY Zenon DEF CurrentValidators, Members
<1>1. CASE ProcessProposal(t)
  <2>1. \/ \E outcome \in {"error", "panic"} : Leave(t, outcome)
        \/ /\ Continue(t, "sign") /\ remaining' = CurrentValidators
           /\ UNCHANGED <<block, votes, res>>
    BY <1>1, Zenon DEF ProcessProposal
  <2>2. UNCHANGED <<block, votes, res>> =>
          IsBlock(block') /\ res' \in Response /\ votes' \subseteq Addresses
    BY Zenon DEF GoroutineTypeOK, IsBlock
  <2>3. GoroutineTypeOK' /\ (UNCHANGED <<chainVars, timeVars>> => ClientTypeOK')
    BY <1>0, <2>1, <2>2, StageType, Zenon DEF Labels
  <2>4. QED
    BY <1>1, <2>3, StorageFrame, EnvironmentFrame, Zenon DEF ProcessProposal
<1>2. CASE ExtendAndSignVote(t)
  <2>1. \/ \E outcome \in {"error", "panic"} : Leave(t, outcome)
        \/ /\ Continue(t, "sign") /\ UNCHANGED <<block, res>>
           /\ \E v \in remaining : votes' \subseteq votes \cup {v} /\ remaining' \subseteq remaining
    BY <1>2, Zenon DEF ExtendAndSignVote
  <2>2. UNCHANGED <<block, res>> => IsBlock(block') /\ res' \in Response
    BY Zenon DEF GoroutineTypeOK, IsBlock
  <2>3. (\E v \in remaining : votes' \subseteq votes \cup {v} /\ remaining' \subseteq remaining)
          => votes' \subseteq Addresses /\ remaining' \subseteq Addresses
    BY Zenon DEF GoroutineTypeOK
  <2>4. GoroutineTypeOK' /\ (UNCHANGED <<chainVars, timeVars>> => ClientTypeOK')
    BY <2>1, <2>2, <2>3, StageType, Zenon DEF Labels
  <2>5. QED
    BY <1>2, <2>4, StorageFrame, EnvironmentFrame, Zenon DEF ExtendAndSignVote
<1>3. CASE MakeExtendedCommit(t)
  <2>1. \/ Leave(t, "panic")
        \/ Continue(t, "finalize") /\ UNCHANGED helperVars
    BY <1>3, Zenon DEF MakeExtendedCommit
  <2>2. UNCHANGED helperVars => /\ IsBlock(block') /\ res' \in Response
                                /\ votes' \subseteq Addresses /\ remaining' \subseteq Addresses
    BY Zenon DEF helperVars, GoroutineTypeOK, IsBlock
  <2>3. /\ GoroutineTypeOK'
        /\ blockMutex' \in Mutex /\ serving' \in BOOLEAN /\ crashed' \in BOOLEAN
    BY <2>1, <2>2, StageType, Zenon DEF Labels
  <2>4. Extended \in BOOLEAN
    BY Zenon DEF Extended, VoteExtensionsEnabled
  <2>5. LastCommit' \in Commit
    <3>1. \/ UNCHANGED LastCommit
          \/ LastCommit' = [height |-> block.height, hash |-> block.hash,
                            power |-> CurState.Validators.power, signed |-> votes,
                            extended |-> Extended]
      BY <1>3, Zenon DEF MakeExtendedCommit
    <3>2. QED
      BY <2>4, <3>1 DEF Commit, ClientTypeOK, GoroutineTypeOK, IsBlock, State, ValidatorSet
  <2>6. ClientTypeOK'
    BY <1>3, <2>3, <2>5, Zenon DEF MakeExtendedCommit, ClientTypeOK, timeVars, TimeTypeOK, IsBlock
  <2>7. QED
    BY <1>3, <2>3, <2>6, StorageFrame, EnvironmentFrame, Zenon DEF MakeExtendedCommit
<1>4. QED
  BY Zenon, <1>1, <1>2, <1>3

(* UpdateState returns a state if it does not return an error.             *)
LEMMA UpdateStateType ==
  ASSUME StateTypeOK, UpdateAllowed,
         NEW next \in WithProposer(UpdateWithChangeSet(CurState.NextValidators.power, res.updates))
  PROVE  UpdateState(next) \in State
<1>1. CurState \in State /\ res \in Response /\ IsBlock(block)
  BY Zenon DEF StateTypeOK, ClientTypeOK, GoroutineTypeOK
<1>2. next \in ValidatorSet
  <2>1. CurState.NextValidators.power \in Powers
    BY <1>1, Zenon DEF State, ValidatorSet
  <2>2. UpdateWithChangeSet(CurState.NextValidators.power, res.updates) \in Powers
    BY <1>1, <2>1, ChangeSetType, Zenon DEF UpdateAllowed
  <2>3. QED
    BY Zenon, <2>2, WithProposerType
<1>3. res.params = NoUpdate \/ res.params \in Nat
  BY <1>1 DEF Response, UpdateAllowed, ParamsValid
<1>4. QED
  BY <1>1, <1>2, <1>3 DEF UpdateState, State, IsBlock

(* runBlock_helper from FinalizeBlock to the storage.                      *)
LEMMA ExecutionType ==
  ASSUME StateTypeOK, NEW t \in Threads,
         SendFinalizeBlock(t) \/ StoreBlock(t) \/ UpdateStateFromBlock(t)
  PROVE  StateTypeOK'
<1> USE DEF StateTypeOK
<1>0. UNCHANGED helperVars => /\ IsBlock(block') /\ res' \in Response
                              /\ votes' \subseteq Addresses /\ remaining' \subseteq Addresses
  BY Zenon DEF helperVars, GoroutineTypeOK, IsBlock
<1>1. CASE SendFinalizeBlock(t)
  <2>1. \/ Leave(t, "error")
        \/ /\ Continue(t, "store") /\ \E r \in Responses : res' = r
           /\ UNCHANGED <<block, votes, remaining>>
    BY <1>1, Zenon DEF SendFinalizeBlock
  <2>2. UNCHANGED <<block, votes, remaining>> =>
          IsBlock(block') /\ votes' \subseteq Addresses /\ remaining' \subseteq Addresses
    BY Zenon DEF GoroutineTypeOK, IsBlock
  <2>3. GoroutineTypeOK' /\ (UNCHANGED <<chainVars, timeVars>> => ClientTypeOK')
    BY <2>1, <2>2, ConstantsHaveTypes, StageType, Zenon DEF Labels
  <2>4. EnvironmentTypeOK'
    <3>1. BlockId(block) \in Id
      BY Zenon DEF BlockId, Id, GoroutineTypeOK, IsBlock
    <3>2. \A S : Executed(S) \in [Clients -> [finalized : Id, committed : Id]]
      BY <3>1, Zenon DEF Executed, EnvironmentTypeOK
    <3>3. QED
      BY <1>1, <3>2 DEF SendFinalizeBlock, EnvironmentTypeOK, inputVars
  <2>5. QED
    BY <1>1, <2>3, <2>4, StorageFrame, Zenon DEF SendFinalizeBlock
<1>2. CASE StoreBlock(t)
  <2>1. /\ GoroutineTypeOK'
        /\ blockMutex' \in Mutex /\ serving' \in BOOLEAN /\ crashed' \in BOOLEAN
    BY <1>0, <1>2, StageType, Zenon DEF StoreBlock, Labels
  <2>2. ClientTypeOK'
    BY <1>2, <2>1, Zenon DEF StoreBlock, ClientTypeOK, GoroutineTypeOK, timeVars, TimeTypeOK, IsBlock
  <2>3. StorageTypeOK'
    <3> DEFINE height == CurState.LastBlockHeight + 1
    <3>1. /\ stateUpdateMutex' = t
          /\ blocks' = Insert(blocks, height, block)
          /\ commits' = Insert(commits, height, LastCommit)
          /\ states' = Insert(states, height, CurState)
          /\ responses' = Insert(responses, height, res)
      BY <1>2, Zenon DEF StoreBlock, LockBeforeStateUpdate, UpdateStores
    <3>2. \A h \in DOMAIN blocks' : IsBlock(blocks'[h])
      BY <3>1, Zenon DEF Insert, StorageTypeOK, GoroutineTypeOK
    <3>3. \A h \in DOMAIN commits' : commits'[h] \in Commit
      BY <3>1, Zenon DEF Insert, StorageTypeOK, ClientTypeOK
    <3>4. \A h \in DOMAIN states' : states'[h] \in State
      BY <3>1, Zenon DEF Insert, StorageTypeOK, ClientTypeOK
    <3>5. \A h \in DOMAIN responses' : responses'[h] \in Response
      BY <3>1, Zenon DEF Insert, StorageTypeOK, GoroutineTypeOK
    <3>6. QED
      BY <3>1, <3>2, <3>3, <3>4, <3>5, Zenon DEF StorageTypeOK, Mutex, IsBlock
  <2>4. QED
    BY <1>2, <2>1, <2>2, <2>3, EnvironmentFrame, Zenon DEF StoreBlock
<1>3. CASE UpdateStateFromBlock(t)
  <2>1. \/ Leave(t, "error") /\ stateUpdateMutex' = Leaked
        \/ Continue(t, "fireEvents") /\ UNCHANGED <<helperVars, stateUpdateMutex>>
    BY <1>3, Zenon DEF UpdateStateFromBlock
  <2>2. /\ GoroutineTypeOK'
        /\ blockMutex' \in Mutex /\ serving' \in BOOLEAN /\ crashed' \in BOOLEAN
    BY <1>0, <2>1, StageType, Zenon DEF Labels
  <2>3. CurState' \in State
    BY <1>3, UpdateStateType, Zenon DEF UpdateStateFromBlock, ClientTypeOK
  <2>4. ClientTypeOK'
    BY <1>3, <2>2, <2>3, Zenon DEF UpdateStateFromBlock, ClientTypeOK, timeVars, TimeTypeOK, IsBlock
  <2>5. StorageTypeOK'
    BY <1>3, <2>1, Zenon DEF UpdateStateFromBlock, StorageTypeOK, Mutex, IsBlock
  <2>6. QED
    BY <1>3, <2>2, <2>4, <2>5, EnvironmentFrame, Zenon DEF UpdateStateFromBlock
<1>4. QED
  BY Zenon, <1>1, <1>2, <1>3

(* runBlock_helper from fireEvents to its return.                          *)
LEMMA CommitType ==
  ASSUME StateTypeOK, NEW t \in Threads,
         FireEvents(t) \/ SendCommit(t) \/ FinishBlock(t)
  PROVE  StateTypeOK'
<1> USE DEF StateTypeOK
<1>0. UNCHANGED <<block, votes, res>> =>
        IsBlock(block') /\ votes' \subseteq Addresses /\ res' \in Response
  BY Zenon DEF GoroutineTypeOK, IsBlock
<1>1. CASE EventsFired(t)
  <2>1. GoroutineTypeOK' /\ (UNCHANGED <<chainVars, timeVars>> => ClientTypeOK')
    BY <1>0, <1>1, ConstantsHaveTypes, StageType, Zenon DEF EventsFired, Labels
  <2>2. StorageTypeOK'
    BY <1>1, Zenon DEF EventsFired, UnlockAfterStateUpdate, StorageTypeOK, Mutex, IsBlock
  <2>3. QED
    BY <1>1, <2>1, <2>2, EnvironmentFrame, Zenon DEF EventsFired
<1>2. CASE SendCommit(t)
  <2>1. \/ Leave(t, "error") /\ UNCHANGED apps
        \/ /\ Continue(t, "commit") /\ UNCHANGED <<block, votes, res>>
           /\ \E c \in remaining : /\ remaining' = remaining \ {c}
                                   /\ apps' = [apps EXCEPT ![c].committed = apps[c].finalized]
    BY <1>2, Zenon DEF SendCommit
  <2>2. (\E c \in remaining : remaining' = remaining \ {c}) => remaining' \subseteq Addresses
    BY Zenon DEF GoroutineTypeOK
  <2>3. GoroutineTypeOK' /\ (UNCHANGED <<chainVars, timeVars>> => ClientTypeOK')
    BY <1>0, <2>1, <2>2, StageType, Zenon DEF Labels
  <2>4. EnvironmentTypeOK'
    BY <1>2, <2>1 DEF SendCommit, EnvironmentTypeOK, inputVars
  <2>5. QED
    BY <1>2, <2>3, <2>4, StorageFrame, Zenon DEF SendCommit
<1>3. CASE FinishBlock(t)
  <2>1. /\ GoroutineTypeOK'
        /\ blockMutex' \in Mutex /\ serving' \in BOOLEAN /\ crashed' \in BOOLEAN
    BY <1>3, StageType, Zenon DEF FinishBlock
  <2>2. CurState' \in State
    BY <1>3, Zenon DEF FinishBlock, ClientTypeOK, GoroutineTypeOK, IsBlock, State
  <2>3. ClientTypeOK'
    BY <1>3, <2>1, <2>2, Zenon DEF FinishBlock, ClientTypeOK, timeVars, TimeTypeOK, IsBlock
  <2>4. QED
    BY <1>3, <2>1, <2>3, StorageFrame, EnvironmentFrame, Zenon DEF FinishBlock
<1>4. CASE EventsPanic(t)
  <2>1. GoroutineTypeOK' /\ (UNCHANGED <<chainVars, timeVars>> => ClientTypeOK')
    BY <1>4, StageType, Zenon DEF EventsPanic
  <2>2. StorageTypeOK'
    BY <1>4, Zenon DEF EventsPanic, StorageTypeOK, Mutex, IsBlock
  <2>3. QED
    BY <1>4, <2>1, <2>2, EnvironmentFrame, Zenon DEF EventsPanic
<1>5. QED
  BY <1>1, <1>2, <1>3, <1>4, Zenon DEF FireEvents

(* No step of any goroutine breaks a type.                                 *)
LEMMA StepType == StateTypeOK /\ [Next]_vars => StateTypeOK'
<1>1. ASSUME StateTypeOK, Next PROVE StateTypeOK'
  <2>1. CASE \E t \in Threads : RunBlock(t)
    BY <1>1, <2>1, BeforeLockType, ProposalType, VotingType, ExecutionType, CommitType, Zenon
       DEF RunBlock, BlockStep
  <2>2. CASE \E t \in Handlers : Request(t) \/ QueueTx(t)
    BY Zenon, <1>1, <2>2, RequestType
  <2>3. CASE Startup \/ ClockTick \/ RequestAdvanceTime \/ SetSigningStatus
    BY Zenon, <1>1, <2>3, StartupType, ControlType
  <2>4. QED
    BY <1>1, <2>1, <2>2, <2>3, Zenon DEF Next, Step, RunBlock
<1>2. ASSUME StateTypeOK, UNCHANGED vars PROVE StateTypeOK'
  BY <1>2, GoroutineFrame, ClientFrame, StorageFrame, EnvironmentFrame, Zenon DEF StateTypeOK, vars
<1>3. QED
  BY Zenon, <1>1, <1>2

-----------------------------------------------------------------------------
(* The queues.  The library's induction theorems take an operator as a     *)
(* parameter; the loop that filters a queue is therefore reasoned about    *)
(* with the first position at which a claim fails.                         *)

(* A set of natural numbers has a least one.                               *)
LEMMA LeastNumber ==
  ASSUME NEW T, T \subseteq Nat, T # {}
  PROVE  \E m \in T : \A k \in T : ~(k < m)
<1>1. PICK m \in T : \A k \in T : ~(<<k, m>> \in OpToRel(<, Nat))
  BY NatLessThanWellFounded, WFMin, Zenon
<1>2. \A k \in T : ~(k < m)
  BY <1>1 DEF OpToRel
<1>3. QED
  BY <1>2, Zenon

(* The queue that the loop has built after its n-th round, and the rounds  *)
(* up to the m-th one.                                                     *)
Round(g, queue, S, n) ==
  IF n = 0 THEN <<>>
  ELSE IF n \in S THEN Append(g[n - 1], queue[n]) ELSE g[n - 1]
Rounds(g, queue, S, m) == g = [n \in 0..m |-> Round(g, queue, S, n)]

(* The loop can do any number of rounds.                                   *)
LEMMA RoundsExist ==
  ASSUME NEW queue, NEW S, NEW m \in Nat
  PROVE  \E g : Rounds(g, queue, S, m)
<1> DEFINE T == {n \in Nat : ~\E g : Rounds(g, queue, S, n)}
<1>1. SUFFICES ASSUME T # {} PROVE FALSE
  OBVIOUS
<1>2. PICK k \in T : \A j \in T : ~(j < k)
  <2>1. T \subseteq Nat
    OBVIOUS
  <2> HIDE DEF T
  <2>2. QED
    BY <1>1, <2>1, LeastNumber, Zenon
<1>3. k \in Nat /\ ~\E g : Rounds(g, queue, S, k)
  BY <1>2
<1>4. CASE k = 0
  <2>1. Rounds([n \in 0..0 |-> <<>>], queue, S, 0)
    BY DEF Rounds, Round
  <2>2. QED
    BY <1>3, <1>4, <2>1
<1>5. CASE k # 0
  <2>1. k - 1 \in Nat /\ k - 1 < k
    BY <1>3, <1>5
  <2>2. k - 1 \notin T
    BY <1>2, <2>1
  <2>3. PICK g : Rounds(g, queue, S, k - 1)
    BY <2>1, <2>2
  <2> DEFINE h == [n \in 0..k |-> IF n = k THEN Round(g, queue, S, k) ELSE g[n]]
  <2>4. \A n \in 0..(k - 1) : g[n] = Round(g, queue, S, n)
    BY <2>3, Zenon DEF Rounds
  <2>5. ASSUME NEW n \in 0..k PROVE h[n] = Round(h, queue, S, n)
    <3>1. n = 0 \/ n - 1 \in 0..(k - 1)
      BY <1>3
    <3>2. n # 0 => h[n - 1] = g[n - 1]
      BY <3>1, <1>3
    <3>3. Round(h, queue, S, n) = Round(g, queue, S, n)
      <4> HIDE DEF h
      <4>1. QED
        BY <3>2 DEF Round
    <3>4. h[n] = Round(g, queue, S, n)
      BY <2>4, <1>3
    <3>5. QED
      BY <3>3, <3>4, Zenon
  <2>6. Rounds(h, queue, S, k)
    BY <2>5, Zenon DEF Rounds
  <2>7. QED
    BY <1>3, <2>6, Zenon
<1>6. QED
  BY <1>4, <1>5, Zenon

(* What the loop returns is the queue after the last round.                *)
LEMMA KeptIsLastRound ==
  ASSUME NEW queue, NEW S, Len(queue) \in Nat
  PROVE  \E g : Rounds(g, queue, S, Len(queue)) /\ Kept(queue, S) = g[Len(queue)]
<1> DEFINE g == CHOOSE f : f = [n \in 0..Len(queue) |->
                  IF n = 0 THEN <<>>
                  ELSE IF n \in S THEN Append(f[n - 1], queue[n]) ELSE f[n - 1]]
<1>1. Kept(queue, S) = g[Len(queue)]
  BY DEF Kept
<1>2. \E f : Rounds(f, queue, S, Len(queue))
  BY RoundsExist, Zenon
<1>3. \E f : f = [n \in 0..Len(queue) |->
                  IF n = 0 THEN <<>>
                  ELSE IF n \in S THEN Append(f[n - 1], queue[n]) ELSE f[n - 1]]
  BY <1>2, Zenon DEF Rounds, Round
<1>4. Rounds(g, queue, S, Len(queue))
  BY <1>3, Zenon DEF Rounds, Round
<1>5. QED
  BY <1>1, <1>4

(* The loop returns a queue of the entries it keeps, and of no others.     *)
LEMMA KeptType ==
  ASSUME NEW A, NEW B, NEW queue \in Seq(A), NEW S,
         \A i \in DOMAIN queue : i \in S => queue[i] \in B
  PROVE  Kept(queue, S) \in Seq(B)
<1>1. PICK g : Rounds(g, queue, S, Len(queue)) /\ Kept(queue, S) = g[Len(queue)]
  BY KeptIsLastRound
<1> DEFINE T == {n \in 0..Len(queue) : g[n] \notin Seq(B)}
<1>2. \A n \in 0..Len(queue) : g[n] = Round(g, queue, S, n)
  BY <1>1, Zenon DEF Rounds
<1>3. ASSUME T # {} PROVE FALSE
  <2>1. PICK k \in T : \A j \in T : ~(j < k)
    <3>1. T \subseteq Nat
      OBVIOUS
    <3> HIDE DEF T
    <3>2. QED
      BY <1>3, <3>1, LeastNumber, Zenon
  <2>2. k \in 0..Len(queue) /\ g[k] \notin Seq(B) /\ g[k] = Round(g, queue, S, k)
    BY <1>2, <2>1
  <2>3. CASE k = 0
    BY <2>2, <2>3 DEF Round
  <2>4. CASE k # 0
    <3>1. k - 1 \in 0..Len(queue) /\ k - 1 < k
      BY <2>2, <2>4
    <3>2. g[k - 1] \in Seq(B)
      BY <2>1, <3>1
    <3>3. k \in S => queue[k] \in B
      BY <2>2, <2>4
    <3>4. QED
      BY <2>2, <2>4, <3>2, <3>3 DEF Round
  <2>5. QED
    BY <2>3, <2>4
<1>4. QED
  BY <1>1, <1>3

QueueEntry == Txs \cup {NoTx}

(* The queues, what CheckTx has accepted and the blocks that were made of  *)
(* the queues.                                                             *)
QueuesOK ==
  /\ \A t \in Threads : pc[t] = "queueTx" => tx[t] \in Txs
  /\ FreshTxQueue \in Seq(QueueEntry) /\ StaleTxQueue \in Seq(QueueEntry)
  /\ accepted \subseteq Txs /\ block.txs \in Seq(Txs)
  /\ \A h \in DOMAIN blocks : blocks[h].txs \in Seq(Txs)

(* No empty entry is proposed.                                             *)
LEMMA NewTxQueueType ==
  ASSUME QueuesOK
  PROVE  newTxQueue \in Seq(Txs)
<1> DEFINE queue == FreshTxQueue \o StaleTxQueue
<1>1. queue \in Seq(QueueEntry)
  BY DEF QueuesOK
<1>2. \A i \in DOMAIN queue : i \in {j \in DOMAIN queue : queue[j] # NoTx} => queue[i] \in Txs
  BY <1>1 DEF QueueEntry
<1> HIDE DEF queue
<1>3. NonEmpty(queue) \in Seq(Txs)
  BY <1>1, <1>2, KeptType DEF NonEmpty
<1>4. QED
  BY <1>3 DEF newTxQueue, queue

(* Neither PrepareProposal nor what it leaves in the queue adds entries.   *)
LEMMA PreparedType ==
  ASSUME NEW queue \in Seq(Txs), NEW txs \in PreparedTxs(queue)
  PROVE  /\ txs \in Seq(Txs)
         /\ Kept(queue, {i \in DOMAIN queue : queue[i] \notin Range(txs)}) \in Seq(Txs)
<1>1. \A i \in DOMAIN queue : queue[i] \in Txs
  OBVIOUS
<1>2. \A S : Kept(queue, S) \in Seq(Txs)
  BY <1>1, KeptType
<1>3. QED
  BY <1>2, Zenon DEF PreparedTxs

(* CheckTx only empties entries.                                           *)
LEMMA BlankType ==
  ASSUME NEW queue \in Seq(QueueEntry), NEW offset, NEW rejected
  PROVE  Blank(queue, offset, rejected) \in Seq(QueueEntry)
BY DEF Blank, QueueEntry

(* Only BroadcastTx makes a goroutine a caller of QueueTx.                 *)
LEMMA OtherGoto ==
  ASSUME StateTypeOK, NEW t \in Threads, NEW label, label # "queueTx", Goto(t, label)
  PROVE  \A u \in Threads : pc'[u] = "queueTx" => pc[u] = "queueTx"
BY Zenon DEF Goto, StateTypeOK, GoroutineTypeOK

(* The empty block has no transactions.                                    *)
LEMMA EmptyBlockTxs == EmptyBlock.txs \in Seq(Txs)
BY DEF EmptyBlock

(* A step that neither queues nor takes transactions, nor stores a block.  *)
LEMMA QueuesFrame ==
  ASSUME QueuesOK, UNCHANGED <<tx, queueVars, blocks>>, block' \in {block, EmptyBlock},
         \A t \in Threads : pc'[t] = "queueTx" => pc[t] = "queueTx"
  PROVE  QueuesOK'
<1>1. block'.txs \in Seq(Txs)
  BY EmptyBlockTxs, Zenon DEF QueuesOK
<1>2. QED
  BY <1>1, Zenon DEF QueuesOK, queueVars

(* The same for a step of RunBlock.                                        *)
LEMMA RunBlockFrame ==
  ASSUME StateTypeOK, QueuesOK, NEW t \in Threads, UNCHANGED <<queueVars, blocks>>,
         \/ \E outcome : Leave(t, outcome)
         \/ \E label : label # "queueTx" /\ Continue(t, label) /\ UNCHANGED block
  PROVE  QueuesOK'
<1>1. \E label : label # "queueTx" /\ Goto(t, label)
  <2>1. \A outcome : NextLabel(t, outcome) # "queueTx"
    BY DEF NextLabel
  <2>2. QED
    BY <2>1, Zenon DEF Leave, Continue
<1>2. block' \in {block, EmptyBlock} /\ UNCHANGED tx
  BY Zenon DEF Leave, Continue, argVars
<1>3. \A u \in Threads : pc'[u] = "queueTx" => pc[u] = "queueTx"
  BY <1>1, OtherGoto, Zenon
<1>4. QED
  BY <1>2, <1>3, QueuesFrame, Zenon

(* The RPC requests: BroadcastTx passes a transaction to QueueTx.          *)
LEMMA RequestQueues ==
  ASSUME StateTypeOK, QueuesOK, NEW t \in Handlers, Request(t) \/ QueueTx(t)
  PROVE  QueuesOK'
<1> USE DEF Threads
<1>1. CASE \E n, m : StartRuns(t, n, m)
  <2>1. Goto(t, "readTime") /\ UNCHANGED <<tx, queueVars, blocks, block>>
    BY <1>1, Zenon DEF StartRuns, helperVars, storageVars
  <2>2. QED
    BY <2>1, OtherGoto, QueuesFrame
<1>2. CASE BroadcastTx(t)
  <2>1. PICK x \in Txs : tx' = [tx EXCEPT ![t] = x]
    BY <1>2, Zenon DEF BroadcastTx
  <2>2. UNCHANGED <<queueVars, blocks, block>> /\ Goto(t, "queueTx")
    BY <1>2, Zenon DEF BroadcastTx, helperVars, storageVars
  <2>3. \A u \in Threads : pc'[u] = "queueTx" => tx'[u] \in Txs
    BY <2>1, <2>2, Zenon DEF Goto, StateTypeOK, GoroutineTypeOK, QueuesOK
  <2>4. QED
    BY <2>2, <2>3, Zenon DEF QueuesOK, queueVars
<1>3. CASE QueueTx(t)
  <2>1. tx[t] \in Txs
    BY <1>3, Zenon DEF QueueTx, At, QueuesOK
  <2>2. FreshTxQueue' \in Seq(QueueEntry)
    BY <1>3, <2>1 DEF QueueTx, QueuesOK, QueueEntry
  <2>3. accepted' \subseteq Txs
    BY <1>3, <2>1, Zenon DEF QueueTx, QueuesOK
  <2>4. \A u \in Threads : pc'[u] = "queueTx" => pc[u] = "queueTx" /\ u # t
    <3>1. CASE AutoIncludeTx
      <4>1. PICK g \in AutoRunners : pc' = [pc EXCEPT ![t] = "idle", ![g] = "readTime"]
        BY <1>3, <3>1, Zenon DEF QueueTx
      <4>2. QED
        BY <4>1 DEF StateTypeOK, GoroutineTypeOK
    <3>2. CASE ~AutoIncludeTx
      BY <1>3, <3>2 DEF QueueTx, Goto, StateTypeOK, GoroutineTypeOK
    <3>3. QED
      BY <3>1, <3>2, Zenon
  <2>5. \A u \in Threads : pc'[u] = "queueTx" => tx'[u] \in Txs
    BY <1>3, <2>4, Zenon DEF QueueTx, StateTypeOK, GoroutineTypeOK, QueuesOK
  <2>6. UNCHANGED <<StaleTxQueue, block, blocks>>
    BY <1>3, Zenon DEF QueueTx, helperVars, storageVars
  <2>7. QED
    BY <2>2, <2>3, <2>5, <2>6, Zenon DEF QueuesOK
<1>4. QED
  BY <1>1, <1>2, <1>3, Zenon DEF Request, AdvanceBlocks, CauseMisbehaviour

(* main, the clock and the requests that only set a value.                 *)
LEMMA ControlQueues ==
  ASSUME StateTypeOK, QueuesOK, Startup \/ ClockTick \/ RequestAdvanceTime \/ SetSigningStatus
  PROVE  QueuesOK'
<1> USE DEF Threads
<1>1. UNCHANGED <<tx, queueVars, blocks, block>>
  BY Zenon DEF Startup, InitChain, RunFirstBlock, StartServer, ProduceBlock, StartRuns,
     ClockTick, RequestAdvanceTime, SetSigningStatus, argVars, helperVars, storageVars
<1>2. \/ UNCHANGED pc
      \/ \E label \in {"firstBlock", "lock", "idle", "readTime"} : Goto(Main, label)
  BY Zenon DEF Startup, InitChain, RunFirstBlock, StartServer, ProduceBlock, StartRuns,
     ClockTick, RequestAdvanceTime, SetSigningStatus
<1>3. \A t \in Threads : pc'[t] = "queueTx" => pc[t] = "queueTx"
  <2>1. CASE UNCHANGED pc
    BY <2>1, Zenon
  <2>2. CASE \E label \in {"firstBlock", "lock", "idle", "readTime"} : Goto(Main, label)
    <3>1. PICK label \in {"firstBlock", "lock", "idle", "readTime"} : Goto(Main, label)
      BY <2>2, Zenon
    <3>2. QED
      BY <3>1, OtherGoto
  <2>3. QED
    BY <1>2, <2>1, <2>2, Zenon
<1>4. QED
  BY <1>1, <1>3, QueuesFrame, Zenon

(* runBlock_helper until the block is proposed.                            *)
LEMMA ProposalQueues ==
  ASSUME StateTypeOK, QueuesOK, NEW t \in Threads, CheckTxs(t) \/ DecideProposal(t)
  PROVE  QueuesOK'
<1>1. CASE CheckTxs(t)
  <2>1. PICK rejected : /\ FreshTxQueue' = Blank(FreshTxQueue, 0, rejected)
                        /\ StaleTxQueue' = Blank(StaleTxQueue, Len(FreshTxQueue), rejected)
                        /\ accepted' \subseteq accepted
    BY <1>1, Zenon DEF CheckTxs
  <2>2. FreshTxQueue' \in Seq(QueueEntry) /\ StaleTxQueue' \in Seq(QueueEntry)
    BY <2>1, BlankType, Zenon DEF QueuesOK
  <2>3. \E label : label # "queueTx" /\ Goto(t, label)
    <3>1. \A outcome : NextLabel(t, outcome) # "queueTx"
      BY DEF NextLabel
    <3>2. QED
      BY <1>1, <3>1 DEF CheckTxs, Leave, Continue
  <2>4. \A u \in Threads : pc'[u] = "queueTx" => pc[u] = "queueTx"
    BY <2>3, OtherGoto, Zenon
  <2>5. UNCHANGED <<tx, blocks>> /\ block' \in {block, EmptyBlock}
    BY <1>1, Zenon DEF CheckTxs, Leave, Continue, argVars, helperVars, storageVars
  <2>6. block'.txs \in Seq(Txs)
    BY <2>5, EmptyBlockTxs, Zenon DEF QueuesOK
  <2>7. QED
    BY <2>1, <2>2, <2>4, <2>5, <2>6, Zenon DEF QueuesOK
<1>2. CASE DecideProposal(t)
  <2>1. UNCHANGED blocks
    BY <1>2, Zenon DEF DecideProposal, storageVars
  <2>2. CASE \E outcome : Leave(t, outcome) /\ UNCHANGED queueVars
    <3>1. UNCHANGED <<queueVars, blocks>> /\ \E outcome : Leave(t, outcome)
      BY <2>1, <2>2, Zenon
    <3>2. QED
      BY <3>1, RunBlockFrame, Zenon
  <2>3. CASE /\ \E txs \in PreparedTxs(newTxQueue) :
                  block' = CreateProposalBlock(t, txs) /\ RequeueTxs(txs)
             /\ Continue(t, "process")
    <3>1. PICK txs \in PreparedTxs(newTxQueue) :
                 block' = CreateProposalBlock(t, txs) /\ RequeueTxs(txs)
      BY <2>3, Zenon
    <3>2. newTxQueue \in Seq(Txs)
      BY NewTxQueueType
    <3>3. /\ txs \in Seq(Txs)
          /\ Kept(newTxQueue, {i \in DOMAIN newTxQueue : newTxQueue[i] \notin Range(txs)}) \in Seq(Txs)
      BY <3>1, <3>2, PreparedType, Zenon
    <3>4. block'.txs \in Seq(Txs)
      BY <3>1, <3>3 DEF CreateProposalBlock
    <3>5. FreshTxQueue' = <<>> /\ StaleTxQueue' \in Seq(Txs) /\ UNCHANGED accepted
      BY <3>1, <3>3, Zenon DEF RequeueTxs
    <3>6. FreshTxQueue' \in Seq(QueueEntry) /\ StaleTxQueue' \in Seq(QueueEntry)
      BY <3>5 DEF QueueEntry
    <3>7. Goto(t, "process") /\ UNCHANGED tx
      BY <2>3, Zenon DEF Continue, argVars
    <3>8. \A u \in Threads : pc'[u] = "queueTx" => pc[u] = "queueTx"
      BY <3>7, OtherGoto
    <3>9. QED
      BY <2>1, <3>4, <3>5, <3>6, <3>7, <3>8, Zenon DEF QueuesOK
  <2>4. QED
    BY <1>2, <2>2, <2>3, Zenon DEF DecideProposal
<1>3. QED
  BY <1>1, <1>2, Zenon

(* The other steps of RunBlock; StoreBlock stores the block.               *)
LEMMA RunBlockQueues ==
  ASSUME StateTypeOK, QueuesOK, NEW t \in Threads, RunBlock(t)
  PROVE  QueuesOK'
<1>1. CASE ReadLastBlockTime(t) \/ CallGetBlockTime(t) \/ ReadProposer(t) \/ LockBlockMutex(t)
  <2>1. UNCHANGED <<tx, queueVars, blocks, block>>
    BY <1>1, Zenon DEF ReadLastBlockTime, CallGetBlockTime, ReadProposer, LockBlockMutex,
       argVars, helperVars, storageVars
  <2>2. PICK label \in {"getTime", "readProposer", "lock", "checkTxs"} : Goto(t, label)
    BY <1>1, Zenon DEF ReadLastBlockTime, CallGetBlockTime, ReadProposer, LockBlockMutex
  <2>3. \A u \in Threads : pc'[u] = "queueTx" => pc[u] = "queueTx"
    BY <2>2, OtherGoto
  <2>4. QED
    BY <2>1, <2>3, QueuesFrame, Zenon
<1>2. CASE \/ ProcessProposal(t) \/ ExtendAndSignVote(t) \/ MakeExtendedCommit(t)
           \/ SendFinalizeBlock(t) \/ UpdateStateFromBlock(t)
           \/ FireEvents(t) \/ SendCommit(t) \/ FinishBlock(t)
  <2>1. UNCHANGED <<queueVars, blocks>>
    BY <1>2, Zenon DEF ProcessProposal, ExtendAndSignVote, MakeExtendedCommit, SendFinalizeBlock,
       UpdateStateFromBlock, FireEvents, EventsFired, EventsPanic, SendCommit, FinishBlock,
       UnlockAfterStateUpdate, storageVars
  <2>2. \/ \E outcome : Leave(t, outcome)
        \/ \E label \in {"sign", "finalize", "store", "fireEvents", "commit"} :
             Continue(t, label) /\ UNCHANGED block
    BY <1>2, Zenon DEF ProcessProposal, ExtendAndSignVote, MakeExtendedCommit, SendFinalizeBlock,
       UpdateStateFromBlock, FireEvents, EventsFired, EventsPanic, SendCommit, FinishBlock,
       helperVars
  <2>3. \A label \in {"sign", "finalize", "store", "fireEvents", "commit"} : label # "queueTx"
    OBVIOUS
  <2>4. QED
    BY <2>1, <2>2, <2>3, RunBlockFrame, Zenon
<1>3. CASE StoreBlock(t)
  <2>1. /\ UNCHANGED <<queueVars, block>> /\ Continue(t, "updateState")
        /\ blocks' = Insert(blocks, CurState.LastBlockHeight + 1, block)
    BY <1>3, Zenon DEF StoreBlock, UpdateStores, helperVars
  <2>2. \A h \in DOMAIN blocks' : blocks'[h].txs \in Seq(Txs)
    BY <2>1, Zenon DEF Insert, QueuesOK
  <2>3. \A u \in Threads : pc'[u] = "queueTx" => pc[u] = "queueTx"
    BY <2>1, OtherGoto DEF Continue
  <2>4. QED
    BY <2>1, <2>2, <2>3, Zenon DEF QueuesOK, Continue, queueVars, argVars
<1>4. QED
  BY <1>1, <1>2, <1>3, ProposalQueues, Zenon DEF RunBlock, BlockStep

(* No step breaks the type of the queues or of what is made of them.       *)
LEMMA StepQueues == StateTypeOK /\ QueuesOK /\ [Next]_vars => QueuesOK'
<1>1. ASSUME StateTypeOK, QueuesOK, Next PROVE QueuesOK'
  BY <1>1, RequestQueues, ControlQueues, RunBlockQueues, Zenon DEF Next, Step, RunBlock
<1>2. ASSUME QueuesOK, UNCHANGED vars PROVE QueuesOK'
  <2>1. UNCHANGED <<tx, queueVars, blocks, block, pc>>
    BY <1>2, Zenon DEF vars, argVars, helperVars, storageVars
  <2>2. QED
    BY <1>2, <2>1, QueuesFrame, Zenon
<1>3. QED
  BY Zenon, <1>1, <1>2

(* Every variable always has its type: the locals of the goroutines, the   *)
(* fields of AbciClient, the stored blocks, commits, states and responses, *)
(* what the applications have, and the queues.  In particular no validator *)
(* update leaves a negative voting power behind, and no entry that CheckTx *)
(* has emptied reaches a block.                                            *)
THEOREM TypeCorrect == Spec => []TypeOK
<1>1. Init => QueuesOK
  BY DEF Init, QueuesOK, EmptyBlock, StorageInit, Threads
<1>2. StateTypeOK /\ QueuesOK => TypeOK
  BY Zenon DEF TypeOK, QueuesOK, QueueEntry
<1>3. QED
  BY <1>1, <1>2, InitType, StepType, StepQueues, PTL DEF Spec

(* What the proofs about the other components use of it.                   *)
LEMMA StateTypeCorrect == Spec => []StateTypeOK
<1>1. TypeOK => StateTypeOK
  BY Zenon DEF TypeOK
<1>2. QED
  BY <1>1, TypeCorrect, PTL
=============================================================================
