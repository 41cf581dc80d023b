------------------------------ MODULE AbciClient ------------------------------
(***************************************************************************)
(* CometMock's block production: AbciClient (abci_client/client.go), the   *)
(* goroutines of main.go and rpc_server/routes.go that call it, and the    *)
(* applications behind it, which are external and answer as the code lets  *)
(* them.                                                                   *)
(*                                                                         *)
(* Goroutines interleave at the points where one can see what another is   *)
(* doing: RunBlock reads LastBlock, the time handler and CurState before   *)
(* it takes blockMutex, and runBlock_helper, under the mutex, publishes    *)
(* its effects one after the other.  What happens in between touches only  *)
(* data that blockMutex protects and is part of the same step.             *)
(***************************************************************************)
EXTENDS ValidatorSets, TimeHandler, MapStorage

CONSTANTS
  Main,               \* the main goroutine
  Handlers,           \* goroutines that serve RPC requests
  AutoRunners,        \* goroutines started by BroadcastTx to run a block
  Clients,            \* addresses of the validators that have an application
  GenesisValidators,  \* voting powers in the genesis file
  GenesisParams,      \* VoteExtensionsEnableHeight in the genesis file
  InitialHeight,      \* initial_height in the genesis file
  InitResponses,      \* possible answers to InitChain
  Responses,          \* possible answers to FinalizeBlock
  AppMay,             \* what the applications may do besides accepting
  ProduceBlocks,      \* --block-production-interval > 0
  AutoIncludeTx,      \* --auto-tx
  Txs, NoTx,          \* transactions, and the empty transaction
  NoMisbehaviour,     \* a block is to be run without evidence
  Misbehaviours,      \* [address, type] that evidence may be requested for
  StatusRequests,     \* <<address, status>> that set_signing_status may ask for
  MaxAdvance,         \* bound on the sum of the durations of advance_time
  MaxCopies,          \* bound on the broadcasts of one transaction
  MaxBlocks,          \* bound on num_blocks of advance_blocks
  MaxRuns             \* bound on the calls of RunBlock

Threads == {Main} \cup Handlers \cup AutoRunners

AppBehaviours ==
  {"failInitChain", "failCheckTx", "rejectTx", "failPrepareProposal", "omitTx",
   "rejectProposal", "unknownStatus", "failExtendVote", "rejectExtension",
   "failFinalizeBlock", "fewTxResults", "failCommit"}

ASSUME ThreadsAreDistinct ==
  /\ Main \notin Handlers \cup AutoRunners
  /\ Handlers \cap AutoRunners = {}
  /\ Free \notin Threads /\ Leaked \notin Threads /\ Free # Leaked

ASSUME ConstantsHaveTypes ==
  /\ Clients \subseteq Addresses /\ Clients # {}
  /\ GenesisValidators \in Powers
  /\ GenesisParams \in Nat
  /\ InitialHeight \in Nat \ {0}
  /\ InitResponses \subseteq [validators : Powers, params : Nat \cup {NoUpdate}]
  /\ Responses \subseteq Response
  /\ AppMay \subseteq AppBehaviours
  /\ ProduceBlocks \in BOOLEAN /\ AutoIncludeTx \in BOOLEAN
  /\ NoTx \notin Txs
  /\ NoMisbehaviour \notin Misbehaviours
  /\ Misbehaviours \subseteq
       [address : Addresses, type : {"DuplicateVote", "Lunatic", "Amnesia", "Equivocation"}]
  /\ StatusRequests \subseteq Clients \X BOOLEAN
  /\ MaxAdvance \in Nat /\ MaxCopies \in Nat /\ MaxBlocks \in Nat /\ MaxRuns \in Nat

VARIABLES
  pc, blockTime, proposer, misbehaviour, numBlocks, tx,  \* of each goroutine
  block, votes, remaining, res,   \* locals of the one running runBlock_helper
  blockMutex, serving, crashed,
  CurState, LastBlock, LastCommit, FreshTxQueue, StaleTxQueue, signingStatus,
  apps,        \* what each application has finalized and committed
  proposals,   \* number of blocks created; numbers them, as their hash does
  sent,        \* how often each transaction was broadcast
  accepted,    \* transactions queued and not rejected by CheckTx since
  advanced,    \* sum of the durations passed to advance_time
  runs         \* number of RunBlock calls requested

argVars == <<blockTime, proposer, misbehaviour, tx>>
helperVars == <<block, votes, remaining, res>>
processVars == <<blockMutex, serving, crashed>>
chainVars == <<CurState, LastBlock, LastCommit, proposals>>
queueVars == <<FreshTxQueue, StaleTxQueue, accepted>>
inputVars == <<signingStatus, sent, advanced, runs>>
vars == <<pc, numBlocks, argVars, helperVars, processVars, chainVars, queueVars,
          inputVars, apps, timeVars, storageVars>>

NoHash == -1    \* the nil AppHash; 0 is the hash of the genesis

CurrentValidators == Members(CurState.Validators.power)

(* Faulty variant: the proposer of the next set.                           *)
ProposerOfValidators == CurState.Validators.proposer

(* The proposer that RunBlock and RunBlockWithTime pass on.                *)
NextProposer == CurState.LastValidators.proposer

BlockId(b) == [height |-> b.height, hash |-> b.hash]

EmptyBlock == [height |-> 0, hash |-> 0, time |-> 0, proposer |-> NoAddress,
               txs |-> <<>>, evidence |-> NoMisbehaviour, lastBlockID |-> 0,
               appHash |-> 0, lastCommit |-> EmptyCommit]

NoResponse == [updates |-> [a \in Addresses |-> NoUpdate], params |-> NoUpdate]

(* state.MakeGenesisState: LastValidators is the empty set.                *)
GenesisState(vals, next) ==
  [LastBlockHeight |-> 0, LastBlockID |-> 0, LastBlockTime |-> 0,
   LastValidators |-> EmptyValidatorSet, Validators |-> vals, NextValidators |-> next,
   LastHeightValidatorsChanged |-> InitialHeight, Params |-> GenesisParams,
   LastHeightConsensusParamsChanged |-> InitialHeight, AppHash |-> 0]

GenesisSets == IF GenesisValidators = NoPower THEN {EmptyValidatorSet}
                                           ELSE WithProposer(GenesisValidators)

(* main before SendInitChain, and NewAbciClient.                           *)
Init ==
  /\ pc = [t \in Threads |-> IF t = Main THEN "initChain" ELSE "idle"]
  /\ blockTime = [t \in Threads |-> 0]
  /\ proposer = [t \in Threads |-> NoAddress]
  /\ misbehaviour = [t \in Threads |-> NoMisbehaviour]
  /\ numBlocks = [t \in Threads |-> 0]
  /\ tx = [t \in Threads |-> NoTx]
  /\ block = EmptyBlock /\ votes = {} /\ remaining = {} /\ res = NoResponse
  /\ blockMutex = Free /\ serving = FALSE /\ crashed = FALSE
  /\ \E vals, next \in GenesisSets : CurState = GenesisState(vals, next)
  /\ LastBlock = EmptyBlock /\ LastCommit = EmptyCommit
  /\ FreshTxQueue = <<>> /\ StaleTxQueue = <<>> /\ accepted = {}
  /\ signingStatus = [c \in Clients |-> TRUE]
  /\ apps = [c \in Clients |-> [finalized |-> BlockId(EmptyBlock),
                                committed |-> BlockId(EmptyBlock)]]
  /\ proposals = 0
  /\ sent = [x \in Txs |-> 0] /\ advanced = 0 /\ runs = 0
  /\ TimeInit
  /\ StorageInit

-----------------------------------------------------------------------------
At(t, label) == ~crashed /\ pc[t] = label
Goto(t, label) == pc' = [pc EXCEPT ![t] = label]

(* RunBlockWithTimeAndProposer returns to its caller.  After an error main *)
(* panics, a handler answers with the error and the goroutine of           *)
(* BroadcastTx drops it.  A panic skips blockMutex.Unlock(): it ends the   *)
(* process, except in a handler, where the RPC server recovers from it.    *)
NextLabel(t, outcome) ==
  IF t = Main /\ ~serving THEN "startServer"
  ELSE IF outcome = "ok" /\ numBlocks[t] > 1 THEN "readTime" ELSE "idle"

(* Faulty variant: an error returns before the mutex is unlocked.          *)
MutexKeptOnError(outcome) == IF outcome = "ok" THEN Free ELSE Leaked

MutexAfter(outcome) == IF outcome = "panic" THEN Leaked ELSE Free

Leave(t, outcome) ==
  /\ Goto(t, NextLabel(t, outcome))
  /\ numBlocks' = [numBlocks EXCEPT ![t] = IF outcome = "ok" THEN @ - 1 ELSE 0]
  /\ blockMutex' = MutexAfter(outcome)
  /\ crashed' = \/ outcome = "panic" /\ t \notin Handlers
                \/ outcome = "error" /\ t = Main
  /\ blockTime' = [blockTime EXCEPT ![t] = 0]
  /\ proposer' = [proposer EXCEPT ![t] = NoAddress]
  /\ misbehaviour' = [misbehaviour EXCEPT ![t] = NoMisbehaviour]
  /\ block' = EmptyBlock /\ votes' = {} /\ remaining' = {} /\ res' = NoResponse
  /\ UNCHANGED <<tx, serving>>

(* A step of runBlock_helper that goes on under blockMutex.                *)
Continue(t, label) ==
  /\ Goto(t, label)
  /\ UNCHANGED <<numBlocks, argVars, processVars>>

-----------------------------------------------------------------------------
(* Startup: main sends InitChain, runs the first block with a time of its  *)
(* own, then serves RPC requests and produces blocks.                      *)

UpdateStateFromInit(answer) ==
  LET params == IF answer.params = NoUpdate THEN CurState.Params ELSE answer.params
  IN  IF answer.validators = NoPower
        THEN CurState' = [CurState EXCEPT !.Params = params]
        ELSE \E vals, next \in WithProposer(answer.validators) :
               CurState' = [CurState EXCEPT !.Params = params, !.LastValidators = vals,
                                            !.Validators = vals, !.NextValidators = next]

InitChain ==
  /\ At(Main, "initChain")
  /\ \/ /\ \E answer \in InitResponses : UpdateStateFromInit(answer)
        /\ Goto(Main, "firstBlock")
        /\ UNCHANGED crashed
     \/ /\ "failInitChain" \in AppMay
        /\ crashed' = TRUE
        /\ UNCHANGED <<pc, CurState>>
  /\ UNCHANGED <<numBlocks, argVars, helperVars, blockMutex, serving, LastBlock,
                 LastCommit, proposals, queueVars, inputVars, apps,
                 timeVars, storageVars>>

(* RunBlockWithTime, called by main: no time handler is involved.          *)
RunFirstBlock ==
  /\ At(Main, "firstBlock")
  /\ blockTime' = [blockTime EXCEPT ![Main] = FirstBlockTime]
  /\ proposer' = [proposer EXCEPT ![Main] = NextProposer]
  /\ numBlocks' = [numBlocks EXCEPT ![Main] = 1]
  /\ Goto(Main, "lock")
  /\ UNCHANGED <<misbehaviour, tx, helperVars, processVars, chainVars, queueVars,
                 inputVars, apps, timeVars, storageVars>>

StartServer ==
  /\ At(Main, "startServer")
  /\ serving' = TRUE
  /\ Goto(Main, "idle")
  /\ UNCHANGED <<numBlocks, argVars, helperVars, blockMutex, crashed, chainVars,
                 queueVars, inputVars, apps, timeVars, storageVars>>

(* A goroutine is about to call RunBlock n times.                          *)
StartRuns(t, n, m) ==
  /\ serving /\ At(t, "idle")
  /\ runs + n <= MaxRuns
  /\ runs' = runs + n
  /\ numBlocks' = [numBlocks EXCEPT ![t] = n]
  /\ misbehaviour' = [misbehaviour EXCEPT ![t] = m]
  /\ Goto(t, "readTime")
  /\ UNCHANGED <<blockTime, proposer, tx, helperVars, processVars, chainVars, queueVars,
                 signingStatus, sent, advanced, apps, timeVars, storageVars>>

(* The next round of main's production loop.                               *)
ProduceBlock == ProduceBlocks /\ StartRuns(Main, 1, NoMisbehaviour)

-----------------------------------------------------------------------------
(* RPC requests that change state.                                         *)

AdvanceBlocks(t) == \E n \in 1..MaxBlocks : StartRuns(t, n, NoMisbehaviour)

(* CauseDoubleSign and CauseLightClientAttack look the validator up in     *)
(* CurState before any lock is taken.                                      *)
CauseMisbehaviour(t) ==
  \E m \in Misbehaviours : /\ m.address \in CurrentValidators
                           /\ StartRuns(t, 1, m)

(* BroadcastTx queues the transaction whatever the code of CheckTx is.     *)
(* With --auto-tx it will start a goroutine that runs a block.             *)
BroadcastTx(t) ==
  /\ serving /\ At(t, "idle")
  /\ AutoIncludeTx => runs < MaxRuns
  /\ runs' = IF AutoIncludeTx THEN runs + 1 ELSE runs
  /\ \E x \in Txs : /\ sent[x] < MaxCopies
                    /\ sent' = [sent EXCEPT ![x] = @ + 1]
                    /\ tx' = [tx EXCEPT ![t] = x]
  /\ Goto(t, "queueTx")
  /\ UNCHANGED <<numBlocks, blockTime, proposer, misbehaviour, helperVars, processVars,
                 chainVars, queueVars, signingStatus, advanced, apps, timeVars, storageVars>>

(* QueueTx, and the goroutine that BroadcastTx then starts.                *)
QueueTx(t) ==
  /\ At(t, "queueTx") /\ blockMutex = Free
  /\ FreshTxQueue' = Append(FreshTxQueue, tx[t])
  /\ accepted' = accepted \cup {tx[t]}
  /\ tx' = [tx EXCEPT ![t] = NoTx]
  /\ IF AutoIncludeTx
       THEN \E g \in AutoRunners :
              /\ pc[g] = "idle"
              /\ numBlocks' = [numBlocks EXCEPT ![g] = 1]
              /\ pc' = [pc EXCEPT ![t] = "idle", ![g] = "readTime"]
       ELSE Goto(t, "idle") /\ UNCHANGED numBlocks
  /\ UNCHANGED <<blockTime, proposer, misbehaviour, helperVars, processVars, chainVars,
                 StaleTxQueue, inputVars, apps, timeVars, storageVars>>

(* The seconds of the request become a time.Duration.                      *)
RequestAdvanceTime ==
  /\ serving /\ ~crashed
  /\ \E d \in Durations : /\ advanced + d * Second <= MaxAdvance
                          /\ advanced' = advanced + d * Second
                          /\ AdvanceTime(Wrap(d * Second))
  /\ UNCHANGED <<pc, numBlocks, argVars, helperVars, processVars, chainVars, queueVars,
                 signingStatus, sent, runs, apps, storageVars>>

SetSigningStatus ==
  /\ serving /\ ~crashed
  /\ \E r \in StatusRequests : signingStatus' = [signingStatus EXCEPT ![r[1]] = r[2]]
  /\ UNCHANGED <<pc, numBlocks, argVars, helperVars, processVars, chainVars, queueVars,
                 sent, advanced, runs, apps, timeVars, storageVars>>

-----------------------------------------------------------------------------
(* RunBlock: what it reads before RunBlockWithTimeAndProposer locks.       *)

ReadLastBlockTime(t) ==
  /\ At(t, "readTime")
  /\ blockTime' = [blockTime EXCEPT ![t] = LastBlock.time]
  /\ Goto(t, "getTime")
  /\ UNCHANGED <<numBlocks, proposer, misbehaviour, tx, helperVars, processVars, chainVars,
                 queueVars, inputVars, apps, timeVars, storageVars>>

CallGetBlockTime(t) ==
  /\ At(t, "getTime")
  /\ GetBlockTime(blockTime[t])
  /\ blockTime' = [blockTime EXCEPT ![t] = NextBlockTime(@)]
  /\ Goto(t, "readProposer")
  /\ UNCHANGED <<numBlocks, proposer, misbehaviour, tx, helperVars, processVars, chainVars,
                 queueVars, inputVars, apps, storageVars>>

ReadProposer(t) ==
  /\ At(t, "readProposer")
  /\ proposer' = [proposer EXCEPT ![t] = NextProposer]
  /\ Goto(t, "lock")
  /\ UNCHANGED <<numBlocks, blockTime, misbehaviour, tx, helperVars, processVars, chainVars,
                 queueVars, inputVars, apps, timeVars, storageVars>>

LockBlockMutex(t) ==
  /\ At(t, "lock") /\ blockMutex = Free
  /\ blockMutex' = t
  /\ Goto(t, "checkTxs")
  /\ UNCHANGED <<numBlocks, argVars, helperVars, serving, crashed, chainVars, queueVars,
                 inputVars, apps, timeVars, storageVars>>

-----------------------------------------------------------------------------
(* runBlock_helper: choosing the transactions and proposing the block.     *)

(* The entries of a queue at the given offset are emptied.                 *)
Blank(queue, offset, rejected) ==
  [i \in DOMAIN queue |-> IF offset + i \in rejected THEN NoTx ELSE queue[i]]

(* CheckTx for every fresh, then every stale transaction.  An error leaves *)
(* the entries emptied so far empty.                                       *)
CheckTxs(t) ==
  LET queue == FreshTxQueue \o StaleTxQueue
  IN  /\ At(t, "checkTxs")
      /\ \E rejected \in SUBSET DOMAIN queue :
           /\ rejected # {} => "rejectTx" \in AppMay
           /\ FreshTxQueue' = Blank(FreshTxQueue, 0, rejected)
           /\ StaleTxQueue' = Blank(StaleTxQueue, Len(FreshTxQueue), rejected)
           /\ accepted' = accepted \ {queue[i] : i \in rejected}
           /\ \/ Continue(t, "propose") /\ UNCHANGED helperVars
              \/ /\ "failCheckTx" \in AppMay
                 /\ Len(queue) \in DOMAIN queue \ rejected
                 /\ Leave(t, "error")
      /\ UNCHANGED <<chainVars, inputVars, apps, timeVars, storageVars>>

(* A loop that appends the entries at the positions S to a new queue.      *)
Kept(queue, S) ==
  LET kept[n \in 0..Len(queue)] ==
        IF n = 0 THEN <<>>
        ELSE IF n \in S THEN Append(kept[n - 1], queue[n]) ELSE kept[n - 1]
  IN  kept[Len(queue)]

(* The entries that are no empty ones.                                     *)
NonEmpty(queue) == Kept(queue, {i \in DOMAIN queue : queue[i] # NoTx})

(* Faulty variant: only stale ones are taken.                              *)
StaleTxsOnly == NonEmpty(StaleTxQueue)

newTxQueue == NonEmpty(FreshTxQueue \o StaleTxQueue)

(* The transactions PrepareProposal may answer with: RunBlock takes any    *)
(* list, and the application is assumed to answer with a part of the one   *)
(* that it was given, in its order.                                        *)
PreparedTxs(queue) ==
  IF "omitTx" \in AppMay THEN {Kept(queue, S) : S \in SUBSET DOMAIN queue} ELSE {queue}

(* ConstructDuplicateVoteEvidence and ConstructLightClientAttackEvidence   *)
(* read the state stored for the last block.  Without a client there is no *)
(* key to sign the duplicate votes with; a validator that is not in the    *)
(* stored state has index -1, which the votes' ValidateBasic refuses.      *)
StoredValidators == Members(states[LastBlock.height].Validators.power)

EvidencePanics(m) == /\ m # NoMisbehaviour
                     /\ LastBlock.height \in DOMAIN states
                     /\ m.type = "DuplicateVote" /\ m.address \notin Clients

(* Faulty variant: the votes are not validated.                            *)
EvidenceFailsOnlyWithoutState(m) == /\ m # NoMisbehaviour
                                    /\ LastBlock.height \notin DOMAIN states

EvidenceFails(m) == /\ m # NoMisbehaviour
                    /\ ~EvidencePanics(m)
                    /\ \/ LastBlock.height \notin DOMAIN states
                       \/ m.type = "DuplicateVote" /\ m.address \notin StoredValidators

(* Faulty variant: the block that the last commit signs is the parent.     *)
CommittedID == LastCommit.hash

(* The parent that MakeBlock takes from the state.                         *)
ParentID == CurState.LastBlockID

(* CreateProposalBlock: MakeBlock with the transactions of the proposer's  *)
(* application; runBlock_helper then sets the time it was given.           *)
CreateProposalBlock(t, txs) ==
  [height |-> CurState.LastBlockHeight + 1, hash |-> proposals + 1,
   time |-> blockTime[t], proposer |-> proposer[t], txs |-> txs,
   evidence |-> misbehaviour[t], lastBlockID |-> ParentID,
   appHash |-> CurState.AppHash, lastCommit |-> LastCommit]

(* Faulty variants: what the block leaves out is dropped, or everything    *)
(* stays queued.                                                           *)
DropTxs(txs) ==
  FreshTxQueue' = <<>> /\ StaleTxQueue' = <<>> /\ UNCHANGED accepted
KeepTxs(txs) ==
  FreshTxQueue' = <<>> /\ StaleTxQueue' = newTxQueue /\ UNCHANGED accepted

(* The queues after ClearTxs: what the block leaves out becomes stale.     *)
RequeueTxs(txs) ==
  /\ FreshTxQueue' = <<>>
  /\ StaleTxQueue' = Kept(newTxQueue, {i \in DOMAIN newTxQueue : newTxQueue[i] \notin Range(txs)})
  /\ UNCHANGED accepted

(* An application that fails PrepareProposal, or answers with more data    *)
(* than fits, makes the caller panic before the queues are cleared.        *)
DecideProposal(t) ==
  LET m == misbehaviour[t]
      evidenceBuilt == ~EvidencePanics(m) /\ ~EvidenceFails(m)
      commitPanics == ExtendedCommitInfoPanics(LastCommit, CurState.LastValidators.power,
                                               InitialHeight, CurState.Params)
      Abort(outcome) == Leave(t, outcome) /\ UNCHANGED <<proposals, queueVars>>
  IN  /\ At(t, "propose")
      /\ m # NoMisbehaviour => StoresReadable
      /\ \/ EvidencePanics(m) /\ Abort("panic")
         \/ EvidenceFails(m) /\ Abort("error")
         \/ evidenceBuilt /\ proposer[t] \notin Clients /\ Abort("error")
         \/ /\ evidenceBuilt /\ proposer[t] \in Clients
            /\ commitPanics \/ "failPrepareProposal" \in AppMay
            /\ Abort("panic")
         \/ /\ evidenceBuilt /\ proposer[t] \in Clients /\ ~commitPanics
            /\ \E txs \in PreparedTxs(newTxQueue) :
                 /\ block' = CreateProposalBlock(t, txs)
                 /\ RequeueTxs(txs)
            /\ proposals' = proposals + 1
            /\ Continue(t, "process")
            /\ UNCHANGED <<votes, remaining, res>>
      /\ UNCHANGED <<CurState, LastBlock, LastCommit, inputVars, apps,
                     timeVars, storageVars>>

-----------------------------------------------------------------------------
(* runBlock_helper: the validators accept, sign and verify the proposal.   *)

NonProposers == CurrentValidators \ {block.proposer}
Extended == VoteExtensionsEnabled(CurState.Params, block.height)

(* The code hands BuildLastCommitInfo the current validators.              *)
CommitInfoPanics == LastCommitInfoPanics(block.height, block.lastCommit,
                                         CurState.Validators.power, InitialHeight)

ProcessProposal(t) ==
  /\ At(t, "process")
  /\ \/ /\ ~(CurrentValidators \subseteq Clients)
        /\ Leave(t, "error")
     \/ /\ CurrentValidators \subseteq Clients /\ NonProposers # {}
        /\ \/ CommitInfoPanics /\ Leave(t, "panic")
           \/ ~CommitInfoPanics /\ "unknownStatus" \in AppMay /\ Leave(t, "panic")
           \/ ~CommitInfoPanics /\ "rejectProposal" \in AppMay /\ Leave(t, "error")
     \/ /\ CurrentValidators \subseteq Clients
        /\ NonProposers # {} => ~CommitInfoPanics
        /\ remaining' = CurrentValidators
        /\ Continue(t, "sign")
        /\ UNCHANGED <<block, votes, res>>
  /\ UNCHANGED <<chainVars, queueVars, inputVars, apps, timeVars, storageVars>>

(* One round of the signing loop: a validator that is down casts no vote.  *)
ExtendAndSignVote(t) ==
  /\ At(t, "sign")
  /\ \E v \in remaining :
       \/ /\ ~signingStatus[v] \/ ~Extended \/ ~CommitInfoPanics
          /\ votes' = IF signingStatus[v] THEN votes \cup {v} ELSE votes
          /\ remaining' = remaining \ {v}
          /\ Continue(t, "sign")
          /\ UNCHANGED <<block, res>>
       \/ /\ signingStatus[v] /\ Extended
          /\ \/ CommitInfoPanics /\ Leave(t, "panic")
             \/ ~CommitInfoPanics /\ "failExtendVote" \in AppMay /\ Leave(t, "error")
  /\ UNCHANGED <<chainVars, queueVars, inputVars, apps, timeVars, storageVars>>

(* Faulty variant: one vote is enough.                                     *)
AnyVotes(signed) == signed # {}

(* VoteSet.MakeExtendedCommit panics unless the votes have a majority.     *)
HasMajority(signed) == TwoThirds(CurState.Validators.power, signed)

(* VerifyVoteExtension, the vote set and its extended commit.  LastCommit  *)
(* is replaced here, before FinalizeBlock; the checks of the commit that   *)
(* follow are implied by the majority.                                     *)
MakeExtendedCommit(t) ==
  /\ At(t, "sign") /\ remaining = {}
  /\ \/ /\ Extended /\ \E v \in votes : CurrentValidators # {v}
        /\ "rejectExtension" \in AppMay
        /\ Leave(t, "panic") /\ UNCHANGED LastCommit
     \/ /\ ~HasMajority(votes)
        /\ Leave(t, "panic") /\ UNCHANGED LastCommit
     \/ /\ HasMajority(votes)
        /\ LastCommit' = [height |-> block.height, hash |-> block.hash,
                          power |-> CurState.Validators.power, signed |-> votes,
                          extended |-> Extended]
        /\ \/ CommitInfoPanics /\ Leave(t, "panic")
           \/ ~CommitInfoPanics /\ Continue(t, "finalize") /\ UNCHANGED helperVars
  /\ UNCHANGED <<CurState, LastBlock, proposals, queueVars, inputVars, apps,
                 timeVars, storageVars>>

-----------------------------------------------------------------------------
(* runBlock_helper: executing, storing and committing the block.           *)

(* Faulty variant: Commit is sent along with FinalizeBlock.                *)
ExecutedAndCommitted(S) ==
  [c \in Clients |-> IF c \in S THEN [finalized |-> BlockId(block), committed |-> BlockId(block)]
                                ELSE apps[c]]

(* Faulty variant: only the proposer's application gets the block.         *)
ExecutedByProposer(S) ==
  [c \in Clients |-> IF c \in S /\ c = block.proposer THEN [apps[c] EXCEPT !.finalized = BlockId(block)]
                                                      ELSE apps[c]]

Executed(S) == [c \in Clients |-> IF c \in S THEN [apps[c] EXCEPT !.finalized = BlockId(block)]
                                            ELSE apps[c]]

(* An error, a timeout or unequal answers: some applications have executed *)
(* the block, and nothing is undone.                                       *)
SendFinalizeBlock(t) ==
  /\ At(t, "finalize")
  /\ \/ /\ \E r \in Responses : res' = r
        /\ apps' = Executed(Clients)
        /\ Continue(t, "store")
        /\ UNCHANGED <<block, votes, remaining>>
     \/ /\ "failFinalizeBlock" \in AppMay
        /\ \E S \in SUBSET Clients : apps' = Executed(S)
        /\ Leave(t, "error")
  /\ UNCHANGED <<chainVars, queueVars, inputVars, timeVars, storageVars>>

(* LockBeforeStateUpdate, LastBlock and UpdateStores are one step: in      *)
(* between, every getter of the storage waits for the lock, and the code   *)
(* that reads LastBlock without it finds the old block or the new one, as  *)
(* it does before and after the step.  That the lock is taken before       *)
(* LastBlock is assigned, so that no reader looks for a block that is not  *)
(* stored, is in the order of the code and not in this step.  The state    *)
(* stored with the block is the one before it.                             *)
StoreBlock(t) ==
  /\ At(t, "store")
  /\ LockBeforeStateUpdate(t)
  /\ LastBlock' = block
  /\ UpdateStores(CurState.LastBlockHeight + 1, block, LastCommit, CurState, res)
  /\ Continue(t, "updateState")
  /\ UNCHANGED <<helperVars, CurState, LastCommit, proposals, queueVars,
                 inputVars, apps, timeVars>>

UpdateAllowed ==
  /\ validateValidatorUpdates(res.updates)
  /\ Updated(res.updates) # {} => ChangeSetAllowed(CurState.NextValidators.power, res.updates)
  /\ ParamsValid(res.params)

(* Faulty variant: a validator update applies one block later.             *)
UpdateStateAtOnce(next) ==
  [CurState EXCEPT !.LastBlockHeight = block.height, !.LastBlockID = block.hash,
                   !.LastBlockTime = block.time, !.LastValidators = CurState.Validators,
                   !.Validators = next, !.NextValidators = next, !.AppHash = NoHash]

(* Faulty variant: the application hash of the last block is kept.         *)
UpdateStateKeepingAppHash(next) ==
  [CurState EXCEPT !.LastBlockHeight = block.height, !.LastBlockID = block.hash,
                   !.LastBlockTime = block.time, !.LastValidators = CurState.Validators,
                   !.Validators = CurState.NextValidators, !.NextValidators = next]

(* A validator update applies two blocks later, a parameter one later.     *)
UpdateState(next) ==
  [LastBlockHeight |-> block.height, LastBlockID |-> block.hash, LastBlockTime |-> block.time,
   LastValidators |-> CurState.Validators, Validators |-> CurState.NextValidators,
   NextValidators |-> next,
   LastHeightValidatorsChanged |->
     IF Updated(res.updates) = {} THEN CurState.LastHeightValidatorsChanged ELSE block.height + 2,
   Params |-> IF res.params = NoUpdate THEN CurState.Params ELSE res.params,
   LastHeightConsensusParamsChanged |->
     IF res.params = NoUpdate THEN CurState.LastHeightConsensusParamsChanged
                              ELSE block.height + 1,
   AppHash |-> NoHash]

(* UpdateStateFromBlock up to fireEvents.  On an error runBlock_helper      *)
(* returns without UnlockAfterStateUpdate.                                 *)
UpdateStateFromBlock(t) ==
  /\ At(t, "updateState")
  /\ \/ /\ UpdateAllowed
        /\ \E next \in WithProposer(UpdateWithChangeSet(CurState.NextValidators.power, res.updates)) :
             CurState' = UpdateState(next)
        /\ Continue(t, "fireEvents")
        /\ UNCHANGED <<helperVars, stateUpdateMutex>>
     \/ /\ ~UpdateAllowed
        /\ stateUpdateMutex' = Leaked
        /\ Leave(t, "error")
        /\ UNCHANGED CurState
  /\ UNCHANGED <<LastBlock, LastCommit, proposals, queueVars, inputVars, apps, timeVars,
                 blocks, commits, states, responses>>

(* fireEvents returns once the event bus has taken every event of the      *)
(* block; only then is the storage unlocked.                               *)
EventsFired(t) ==
  /\ At(t, "fireEvents")
  /\ UnlockAfterStateUpdate
  /\ remaining' = Clients
  /\ Continue(t, "commit")
  /\ UNCHANGED <<block, votes, res, chainVars, queueVars, inputVars, apps, timeVars>>

(* fireEvents panics if a transaction has no result.                       *)
EventsPanic(t) ==
  /\ At(t, "fireEvents")
  /\ "fewTxResults" \in AppMay /\ block.txs # <<>>
  /\ stateUpdateMutex' = Leaked
  /\ Leave(t, "panic")
  /\ UNCHANGED <<chainVars, queueVars, inputVars, apps, timeVars,
                 blocks, commits, states, responses>>

(* SendCommit reaches the applications one after the other; an error or    *)
(* unequal answers end the loop wherever it is.                            *)
SendCommit(t) ==
  /\ At(t, "commit")
  /\ \/ \E c \in remaining :
          /\ apps' = [apps EXCEPT ![c].committed = apps[c].finalized]
          /\ remaining' = remaining \ {c}
          /\ Continue(t, "commit")
          /\ UNCHANGED <<block, votes, res>>
     \/ "failCommit" \in AppMay /\ Leave(t, "error") /\ UNCHANGED apps
  /\ UNCHANGED <<chainVars, queueVars, inputVars, timeVars, storageVars>>

(* Faulty variant: the application hash is not set after Commit.           *)
FinishWithoutAppHash(t) ==
  /\ At(t, "commit") /\ remaining = {}
  /\ Leave(t, "ok")
  /\ UNCHANGED <<chainVars, queueVars, inputVars, apps, timeVars, storageVars>>

(* The application hash is that of the executed block.                     *)
FinishBlock(t) ==
  /\ At(t, "commit") /\ remaining = {}
  /\ CurState' = [CurState EXCEPT !.AppHash = block.hash]
  /\ Leave(t, "ok")
  /\ UNCHANGED <<LastBlock, LastCommit, proposals, queueVars, inputVars, apps,
                 timeVars, storageVars>>

-----------------------------------------------------------------------------
ClockTick == /\ ~crashed
             /\ Tick
             /\ UNCHANGED <<pc, numBlocks, argVars, helperVars, processVars, chainVars,
                            queueVars, inputVars, apps, storageVars>>

Startup == InitChain \/ RunFirstBlock \/ StartServer \/ ProduceBlock

Request(t) == AdvanceBlocks(t) \/ CauseMisbehaviour(t) \/ BroadcastTx(t)

(* The steps of RunBlock and runBlock_helper other than fireEvents.         *)
BlockStep(t) ==
  \/ ReadLastBlockTime(t) \/ CallGetBlockTime(t) \/ ReadProposer(t) \/ LockBlockMutex(t)
  \/ CheckTxs(t) \/ DecideProposal(t) \/ ProcessProposal(t) \/ ExtendAndSignVote(t)
  \/ MakeExtendedCommit(t) \/ SendFinalizeBlock(t) \/ StoreBlock(t)
  \/ UpdateStateFromBlock(t) \/ SendCommit(t) \/ FinishBlock(t)

FireEvents(t) == EventsFired(t) \/ EventsPanic(t)

RunBlock(t) == BlockStep(t) \/ FireEvents(t)

(* Everything but fireEvents, which involves the event bus.                *)
Step == \/ Startup \/ ClockTick \/ RequestAdvanceTime \/ SetSigningStatus
        \/ \E t \in Handlers : Request(t) \/ QueueTx(t)
        \/ \E t \in Threads : BlockStep(t)

Next == Step \/ \E t \in Threads : FireEvents(t)

Spec == Init /\ [][Next]_vars
=============================================================================
