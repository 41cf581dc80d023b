--------------------------- MODULE AbciClientProps ---------------------------
(***************************************************************************)
(* Correctness properties of block production, stated over AbciClient.     *)
(***************************************************************************)
EXTENDS AbciClient

Labels == {"initChain", "firstBlock", "startServer", "idle", "queueTx", "readTime",
           "getTime", "readProposer", "lock", "checkTxs", "propose", "process", "sign",
           "finalize", "store", "updateState", "fireEvents", "commit"}

(* The labels between blockMutex.Lock() and Unlock() of a RunBlock.        *)
Critical == {"checkTxs", "propose", "process", "sign", "finalize", "store",
             "updateState", "fireEvents", "commit"}

State == [LastBlockHeight : Nat, LastBlockID : Nat, LastBlockTime : Int,
          LastValidators : ValidatorSet, Validators : ValidatorSet,
          NextValidators : ValidatorSet, LastHeightValidatorsChanged : Nat, Params : Nat,
          LastHeightConsensusParamsChanged : Nat, AppHash : Nat \cup {NoHash}]

Id == [height : Nat, hash : Nat]
Mutex == Threads \cup {Free, Leaked}

(* A block, but for the transactions in it.                                *)
IsBlock(b) ==
  /\ b.height \in Nat /\ b.hash \in Nat /\ b.time \in Int
  /\ b.proposer \in Addresses \cup {NoAddress}
  /\ b.evidence \in Misbehaviours \cup {NoMisbehaviour}
  /\ b.lastBlockID \in Nat /\ b.appHash \in Nat \cup {NoHash} /\ b.lastCommit \in Commit

(* The types of the goroutines' locals, of the fields of the AbciClient    *)
(* struct, of the storage, and of what the environment has done.           *)
GoroutineTypeOK ==
  /\ pc \in [Threads -> Labels]
  /\ blockTime \in [Threads -> Int]
  /\ proposer \in [Threads -> Addresses \cup {NoAddress}]
  /\ misbehaviour \in [Threads -> Misbehaviours \cup {NoMisbehaviour}]
  /\ numBlocks \in [Threads -> Int]
  /\ tx \in [Threads -> Txs \cup {NoTx}]
  /\ IsBlock(block) /\ res \in Response
  /\ votes \subseteq Addresses /\ remaining \subseteq Addresses

ClientTypeOK ==
  /\ blockMutex \in Mutex
  /\ serving \in BOOLEAN /\ crashed \in BOOLEAN
  /\ CurState \in State /\ IsBlock(LastBlock) /\ LastCommit \in Commit
  /\ proposals \in Nat
  /\ TimeTypeOK

StorageTypeOK ==
  /\ stateUpdateMutex \in Mutex
  /\ \A h \in DOMAIN blocks : IsBlock(blocks[h])
  /\ \A h \in DOMAIN commits : commits[h] \in Commit
  /\ \A h \in DOMAIN states : states[h] \in State
  /\ \A h \in DOMAIN responses : responses[h] \in Response

EnvironmentTypeOK ==
  /\ signingStatus \in [Clients -> BOOLEAN]
  /\ apps \in [Clients -> [finalized : Id, committed : Id]]
  /\ sent \in [Txs -> Nat] /\ advanced \in Nat /\ runs \in Nat

StateTypeOK == GoroutineTypeOK /\ ClientTypeOK /\ StorageTypeOK /\ EnvironmentTypeOK

(* Every variable has its type.  Emptied entries occur in the queues only, *)
(* never in a block, only transactions are accepted, and QueueTx is called *)
(* with one.                                                               *)
TypeOK ==
  /\ StateTypeOK
  /\ \A t \in Threads : pc[t] = "queueTx" => tx[t] \in Txs
  /\ FreshTxQueue \in Seq(Txs \cup {NoTx}) /\ StaleTxQueue \in Seq(Txs \cup {NoTx})
  /\ accepted \subseteq Txs /\ block.txs \in Seq(Txs)
  /\ \A h \in DOMAIN blocks : blocks[h].txs \in Seq(Txs)

-----------------------------------------------------------------------------
(* The four maps of the storage hold the heights 1 to LastBlock.Height and *)
(* their entries for a height belong together, even after a block whose    *)
(* state update was refused: the block, the commit that signs it, and      *)
(* LastBlock itself as the newest block.  An RPC read of the latest height *)
(* that gets the lock therefore finds it.                                  *)
StoresAgree ==
  /\ DOMAIN blocks = 1..LastBlock.height
  /\ DOMAIN commits = DOMAIN blocks
  /\ DOMAIN states = DOMAIN blocks
  /\ DOMAIN responses = DOMAIN blocks
  /\ \A h \in DOMAIN blocks : /\ blocks[h].height = h
                              /\ commits[h].height = h
                              /\ commits[h].hash = blocks[h].hash
  /\ LastBlock.height > 0 => LastBlock = blocks[LastBlock.height]

(* The stored blocks form a chain: MakeBlock links each one to the block   *)
(* stored below it, whichever goroutines ran them and whatever failed in   *)
(* between.                                                                *)
BlocksLinked ==
  \A h \in DOMAIN blocks :
    h > 1 => /\ h - 1 \in DOMAIN blocks
             /\ blocks[h].lastBlockID = blocks[h - 1].hash

(* A stored commit carries more than two thirds of the power of the        *)
(* validator set that the same height's stored state names as current,     *)
(* although set_signing_status may switch validators off at any time while *)
(* the votes are being collected.                                          *)
CommitsHaveQuorum ==
  \A h \in DOMAIN commits :
    /\ commits[h].power = states[h].Validators.power
    /\ commits[h].signed \subseteq Members(commits[h].power)
    /\ TwoThirds(commits[h].power, commits[h].signed)

(* The validator updates of the FinalizeBlock at height h decide who signs *)
(* height h + 2, and nothing else does.                                    *)
UpdatesApplyTwoBlocksLater ==
  \A h \in DOMAIN states :
    h + 2 \in DOMAIN states =>
      /\ \A a \in Addresses :
           states[h + 2].Validators.power[a] =
             IF responses[h].updates[a] = NoUpdate THEN states[h].NextValidators.power[a]
                                                   ELSE responses[h].updates[a]
      /\ states[h + 2].LastValidators = states[h + 1].Validators

(* UpdateStores never overwrites: a height that has been stored keeps its  *)
(* block, commit, state and responses, also when the block's state update  *)
(* failed and the same height is run again.                                *)
StoresAppendOnly ==
  [][\A h \in DOMAIN blocks :
       /\ h \in DOMAIN blocks' /\ blocks'[h] = blocks[h]
       /\ h \in DOMAIN commits' /\ commits'[h] = commits[h]
       /\ h \in DOMAIN states' /\ states'[h] = states[h]
       /\ h \in DOMAIN responses' /\ responses'[h] = responses[h]]_vars

(* What an application has committed is a stored block: no application is  *)
(* ahead of the storage, or has committed another attempt at a height than *)
(* the stored one, even if FinalizeBlock failed for some of them before.   *)
AppsFollowStores ==
  \A c \in Clients :
    apps[c].committed.height > 0 =>
      /\ apps[c].committed.height \in DOMAIN blocks
      /\ apps[c].committed = BlockId(blocks[apps[c].committed.height])

-----------------------------------------------------------------------------
(* The abstract specification that block production implements.            *)

LedgerChain == [h \in DOMAIN blocks |-> [hash |-> blocks[h].hash, parent |-> blocks[h].lastBlockID,
                                        commit |-> commits[h]]]
CommittedIds == [c \in Clients |-> apps[c].committed]
CertifiedBlock(b) == /\ b.commit.hash = b.hash
                     /\ b.commit.signed \subseteq Members(b.commit.power)
                     /\ TwoThirds(b.commit.power, b.commit.signed)

L == INSTANCE Ledger WITH height <- LastBlock.height, chain <- LedgerChain,
                          committed <- CommittedIds, Certified <- CertifiedBlock

(* Seen from outside, every step of RunBlock, failed or not, adds one      *)
(* certified block to the chain, moves one application to its newest       *)
(* block, or does nothing.                                                 *)
RefinesLedger == L!Spec

-----------------------------------------------------------------------------
(* The inductive invariant behind the properties of the storage.           *)

(* blockMutex belongs to the goroutine inside runBlock_helper, the lock of *)
(* the storage to the one that updates it.                                 *)
Locks ==
  \A t \in Threads :
    /\ pc[t] \in Critical <=> blockMutex = t
    /\ pc[t] \in {"updateState", "fireEvents"} <=> stateUpdateMutex = t

(* Nothing else runs while main waits for the answer to InitChain.         *)
Starting ==
  pc[Main] = "initChain" => ~serving /\ \A t \in Threads \ {Main} : pc[t] = "idle"

StateOfLastBlock == /\ CurState.LastBlockHeight = LastBlock.height
                    /\ CurState.LastBlockID = LastBlock.hash

(* What runBlock_helper has established when it reaches a label.           *)
Stage(label) ==
  /\ label \in {"checkTxs", "propose", "process"} => votes = {}
  /\ label \in {"process", "sign", "finalize", "store"} =>
       /\ block.height = CurState.LastBlockHeight + 1
       /\ block.lastBlockID = CurState.LastBlockID
  /\ label = "sign" => votes \cup remaining \subseteq CurrentValidators
  /\ label \in {"finalize", "store"} =>
       /\ LastCommit.height = block.height /\ LastCommit.hash = block.hash
       /\ LastCommit.power = CurState.Validators.power
       /\ LastCommit.signed \subseteq CurrentValidators
       /\ TwoThirds(CurState.Validators.power, LastCommit.signed)
  /\ label = "updateState" => /\ block = LastBlock
                              /\ block.height = CurState.LastBlockHeight + 1
  /\ label = "fireEvents" => StateOfLastBlock

Stages == /\ \A t \in Threads : Stage(pc[t])
          /\ blockMutex = Free => votes = {}
          /\ stateUpdateMutex = Free => StateOfLastBlock

Stores == StoresAgree /\ BlocksLinked /\ CommitsHaveQuorum

(* The goroutine inside runBlock_helper holds blockMutex, its block goes   *)
(* on top of CurState, its commit is one of CurState's validators, and     *)
(* CurState describes LastBlock whenever the storage is not locked.        *)
StorageInv == Locks /\ Starting /\ Stages /\ Stores

(* What the applications have when runBlock_helper reaches a label: from   *)
(* StoreBlock on all have executed the block, and until Commit reaches one *)
(* it is still at a lower height.                                          *)
AppStage(label) ==
  /\ label \in {"store", "updateState", "fireEvents", "commit"} =>
       \A c \in Clients : apps[c].finalized = BlockId(block)
  /\ label \in {"updateState", "fireEvents", "commit"} => block = LastBlock
  /\ label \in {"updateState", "fireEvents"} =>
       \A c \in Clients : apps[c].committed.height < LastBlock.height
  /\ label = "commit" =>
       /\ remaining \subseteq Clients
       /\ \A c \in remaining : apps[c].committed.height < LastBlock.height

AppInv == AppsFollowStores /\ \A t \in Threads : AppStage(pc[t])

-----------------------------------------------------------------------------
(* What a block takes over from the one below it.                          *)

(* The commit of an attempt at this height whose FinalizeBlock failed.     *)
FailedAttempt(commit, height) == "failFinalizeBlock" \in AppMay /\ commit.height = height

(* The LastCommit of a block is the commit stored for the block below it.  *)
(* CreateProposalBlock takes it from AbciClient.LastCommit, which has      *)
(* moved on only if FinalizeBlock failed before: then it is the commit of  *)
(* an earlier attempt at the same height, and never of anything else.      *)
LastCommitIsStored ==
  \A h \in DOMAIN blocks :
    h > 1 => \/ blocks[h].lastCommit = commits[h - 1]
             \/ FailedAttempt(blocks[h].lastCommit, h)

(* What AppHash is after a failed Commit.                                  *)
Uncommitted(appHash) == "failCommit" \in AppMay /\ appHash = NoHash

(* The AppHash in a header is the one of the block below: SendCommit and   *)
(* the assignment of AppHash are done before the next block is proposed.   *)
(* After a failed Commit it is nil, and never that of an older block.      *)
AppHashOfParent ==
  \A h \in DOMAIN blocks :
    h > 1 => blocks[h].appHash = blocks[h - 1].hash \/ Uncommitted(blocks[h].appHash)

StoredTxs == UNION {Range(blocks[h].txs) : h \in DOMAIN blocks}

(* A transaction that was queued, and that CheckTx did not reject since,   *)
(* is in a queue, in the block being run, or in a stored block.            *)
NoTxLost ==
  accepted \subseteq Range(FreshTxQueue) \cup Range(StaleTxQueue)
                       \cup Range(block.txs) \cup StoredTxs

(* A block has been proposed and not been stored yet.                      *)
Proposed == \E t \in Threads : pc[t] \in {"process", "sign", "finalize", "store"}

(* No block has failed after its proposal: there are as many proposals as  *)
(* stored blocks, but for the one being run.                               *)
EveryProposalStored == proposals = LastBlock.height + (IF Proposed THEN 1 ELSE 0)

(* A transaction is lost only with a block that fails after ClearTxs.      *)
TxsLostOnlyWithBlocks == EveryProposalStored => NoTxLost

Places(x, seq) == {i \in DOMAIN seq : seq[i] = x}
StoredPlaces(x) == UNION {{h} \X Places(x, blocks[h].txs) : h \in DOMAIN blocks}

(* The stored blocks never contain a transaction more often than it was    *)
(* broadcast: leaving the queues for a block and entering them again as    *)
(* stale never duplicates it, even if the block then fails.                *)
NoTxDuplicated == \A x \in Txs : Cardinality(StoredPlaces(x)) <= sent[x]

(* The inductive invariants behind these two: a broadcast is on its way    *)
(* into the queue, in a queue, in the proposed block or in a stored one,   *)
(* or it is gone; and no proposal but the current one is left to store.    *)
Copies(x, seq) == Cardinality(Places(x, seq))
Broadcasting(x) == {t \in Threads : pc[t] = "queueTx" /\ tx[t] = x}
ProposedTxs == IF Proposed THEN block.txs ELSE <<>>

CopiesOK(x) ==
  /\ IsFiniteSet(StoredPlaces(x)) /\ IsFiniteSet(Broadcasting(x))
  /\ Cardinality(StoredPlaces(x)) + Copies(x, ProposedTxs) + Copies(x, FreshTxQueue)
       + Copies(x, StaleTxQueue) + Cardinality(Broadcasting(x)) <= sent[x]

TxsSomewhere == accepted \subseteq Range(FreshTxQueue) \cup Range(StaleTxQueue)
                                     \cup Range(ProposedTxs) \cup StoredTxs

TxInv == /\ \A x \in Txs : CopiesOK(x)
         /\ proposals >= LastBlock.height + (IF Proposed THEN 1 ELSE 0)
         /\ EveryProposalStored => TxsSomewhere

(* Duplicate-vote evidence in a block accuses a validator that was asked   *)
(* to sign the block below, although the RPC handler looked the validator  *)
(* up before it waited for blockMutex.                                     *)
EvidenceNamesASigner ==
  \A h \in DOMAIN blocks :
    (/\ h > 1 /\ blocks[h].evidence # NoMisbehaviour
     /\ blocks[h].evidence.type = "DuplicateVote") =>
       blocks[h].evidence.address \in Members(states[h - 1].Validators.power)

-----------------------------------------------------------------------------
(* The inductive invariant behind the properties that relate a block to    *)
(* the one below it.                                                       *)

(* s is the state that UpdateState made from the one stored at height h.   *)
Follows(s, h) ==
  /\ s.LastValidators = states[h].Validators
  /\ s.Validators = states[h].NextValidators
  /\ s.NextValidators.power =
       UpdateWithChangeSet(states[h].NextValidators.power, responses[h].updates)

(* A block on top of LastBlock may have this LastCommit, this AppHash and  *)
(* this evidence.                                                          *)
ParentCommit(commit) ==
  LastBlock.height > 0 => \/ commit = commits[LastBlock.height]
                          \/ FailedAttempt(commit, CurState.LastBlockHeight + 1)
ParentHash(appHash) ==
  LastBlock.height > 0 /\ StoresReadable => appHash = LastBlock.hash \/ Uncommitted(appHash)
Accuses(m) ==
  LastBlock.height > 0 /\ m # NoMisbehaviour /\ m.type = "DuplicateVote" =>
    m.address \in StoredValidators

(* What runBlock_helper knows of LastBlock when it reaches a label.        *)
ParentStage(label) ==
  /\ label \in {"checkTxs", "propose", "process", "sign"} => ParentCommit(LastCommit)
  /\ label \in {"checkTxs", "propose", "process", "sign", "finalize", "store"} =>
       ParentHash(CurState.AppHash)
  /\ label \in {"process", "sign", "finalize", "store"} =>
       /\ ParentCommit(block.lastCommit) /\ block.appHash = CurState.AppHash
       /\ Accuses(block.evidence)
  /\ label \in {"updateState", "fireEvents", "commit"} => LastCommit = commits[LastBlock.height]
  /\ label \in {"fireEvents", "commit"} => CurState.AppHash = NoHash
  /\ label = "updateState" => /\ CurState = states[LastBlock.height]
                              /\ res = responses[LastBlock.height]
  /\ label = "fireEvents" => Follows(CurState, LastBlock.height)

(* CurState is what UpdateState makes of the newest stored state whenever  *)
(* the next block can be stored on top of it.                              *)
CurStateFollows == StoresReadable /\ LastBlock.height > 0 => Follows(CurState, LastBlock.height)

(* When no block is being run, LastCommit and AppHash are the ones that    *)
(* the next block needs.                                                   *)
ParentAtRest == blockMutex = Free => ParentCommit(LastCommit) /\ ParentHash(CurState.AppHash)

Parents == /\ \A t \in Threads : ParentStage(pc[t])
           /\ ParentAtRest /\ CurStateFollows

NothingBeforeInitChain == pc[Main] = "initChain" => LastBlock.height = 0

StatesFollow == \A h \in DOMAIN states : h + 1 \in DOMAIN states => Follows(states[h + 1], h)

(* What each stored block and state takes over from the ones below.        *)
Heredity == StatesFollow /\ EvidenceNamesASigner /\ LastCommitIsStored /\ AppHashOfParent

(* Whatever has failed before, the commit, the application hash and the    *)
(* state that runBlock_helper is about to put into the next block and next *)
(* to it are the ones left by the newest stored block, and every block and *)
(* state in the storage has got them so.                                   *)
HistoryInv == Parents /\ NothingBeforeInitChain /\ Heredity

-----------------------------------------------------------------------------
(* What holds from the first block on.                                     *)

(* The server is not up, and nothing has run but main's first block.       *)
Unstarted ==
  /\ ~serving /\ (crashed \/ pc[Main] # "startServer")
  /\ \A t \in Threads : pc[t] \notin {"queueTx", "readTime", "getTime", "readProposer",
                                      "fireEvents", "commit"}

(* CurState is the state after the newest block or, while that one is not  *)
(* applied or was refused, after the block below.  Requests are served     *)
(* only once it is the state after a block.                                *)
TipInv ==
  /\ LastBlock.height \in {CurState.LastBlockHeight, CurState.LastBlockHeight + 1}
  /\ CurState.LastBlockHeight > 0 =>
       CurState.LastBlockTime = blocks[CurState.LastBlockHeight].time
  /\ CurState.LastBlockHeight > 0 \/ Unstarted

-----------------------------------------------------------------------------
(* Block times.                                                            *)

(* What the calls of advance_time have added to block times so far.        *)
Spent == IF curOffset > 0 THEN advanced - curOffset ELSE advanced

LatestTime(height) == FirstBlockTime + (height - 1) * BlockTime + Spent

(* With a fixed block time no block is later than the block time and the   *)
(* spent advance_time durations allow: concurrent callers of RunBlock      *)
(* never spend the same offset twice, and a duration that overflows may    *)
(* take time away but never adds more than was asked for.                  *)
NoTimeGained ==
  ~UsesSystemClock => \A h \in DOMAIN blocks : blocks[h].time <= LatestTime(h)

(* The inductive invariant behind it: LastBlock's time, as RunBlock reads  *)
(* it, the time of the next block, and that of the block being run.        *)
TimeStage(t) ==
  /\ pc[t] = "getTime" => blockTime[t] <= LatestTime(LastBlock.height)
  /\ pc[t] \in {"readProposer", "lock", "checkTxs", "propose"} =>
       blockTime[t] <= LatestTime(LastBlock.height + 1)
  /\ pc[t] \in {"process", "sign", "finalize", "store"} =>
       block.time <= LatestTime(LastBlock.height + 1)

(* With a fixed block time, every time that a RunBlock holds, whether read *)
(* from LastBlock before the lock or computed from an offset that it spent *)
(* itself, is one that the heights and the spent durations allow.          *)
TimeInv ==
  ~UsesSystemClock =>
    /\ -Half <= curOffset /\ curOffset <= MaxInt64 /\ Spent >= 0
    /\ \A h \in DOMAIN blocks : blocks[h].time <= LatestTime(h)
    /\ \A t \in Threads : TimeStage(t)

(* Block times do not go back from one block to the next.                  *)
TimesNeverDecrease ==
  \A h \in DOMAIN blocks : h > 1 => blocks[h].time >= blocks[h - 1].time

(* The offset to the system clock has not overflowed.                      *)
OffsetFits == /\ -Half <= InitialOffset /\ advanced <= MaxInt64
              /\ InitialOffset + advanced <= MaxInt64

(* With the system clock, the time between two blocks, forward or back, is *)
(* no longer than the system time that has passed and the durations of     *)
(* advance_time.  The first block has the starting time itself: if that is *)
(* in the past, the offset, time.Since of it, takes the second block as    *)
(* far into the future, and if it is in the future, back.                  *)
TimeFollowsClock ==
  UsesSystemClock /\ OffsetFits =>
    \A h \in DOMAIN blocks :
      LET step == blocks[h].time - blocks[h - 1].time
          passed == (now - ClockStart) + advanced
      IN  /\ h > 2 \/ (h = 2 /\ ClockStart <= StartingTime) => step <= passed
          /\ h > 2 \/ (h = 2 /\ ClockStart >= StartingTime) => -step <= passed

(* What the handler of the system clock has returned at some time.         *)
ClockTime(x) == /\ ClockStart + InitialOffset <= x
                /\ x <= now + InitialOffset + advanced

(* A time that the next block can have: the starting time for the first,   *)
(* one of the clock for the others.                                        *)
NextClockTime(x) == IF LastBlock.height = 0 THEN x = StartingTime ELSE ClockTime(x)

ClockStage(t) ==
  /\ pc[t] \in {"readProposer", "lock", "checkTxs", "propose"} => NextClockTime(blockTime[t])
  /\ pc[t] \in {"process", "sign", "finalize", "store"} => NextClockTime(block.time)

(* The inductive invariant behind it: every duration is in the offset, and *)
(* every time that a RunBlock holds or that is stored above the first      *)
(* block was read from the clock.                                          *)
ClockInv ==
  UsesSystemClock /\ OffsetFits =>
    /\ ClockStart <= now /\ curOffset = InitialOffset + advanced
    /\ \A h \in DOMAIN blocks : IF h = 1 THEN blocks[h].time = StartingTime
                                        ELSE ClockTime(blocks[h].time)
    /\ \A t \in Threads : ClockStage(t)

-----------------------------------------------------------------------------
(* What RunBlock reads before it locks.                                    *)

(* The block time and the durations fit into an int64 of nanoseconds.      *)
DurationsFit == BlockTime + advanced <= MaxInt64

(* With a fixed block time, this time is that of block j, one block time   *)
(* and some of the durations of advance_time.                              *)
TimeFrom(time, j) ==
  ~UsesSystemClock /\ DurationsFit =>
    /\ blocks[j].time + BlockTime <= time
    /\ time <= blocks[j].time + BlockTime + advanced

(* RunBlock reads the last block's time and then the proposer, without a   *)
(* lock, and any number of blocks may be stored before it gets blockMutex. *)
(* Its block is then out of date, but in one way only: it comes one block  *)
(* time after some earlier block, and its proposer is the one of a state   *)
(* that is not older than that block.                                      *)
ReadsInOrder ==
  \A h \in DOMAIN blocks :
    h > 1 => \E j \in 1..(h - 1) : \E k \in j..h :
               /\ TimeFrom(blocks[h].time, j)
               /\ blocks[h].proposer = states[k].LastValidators.proposer

(* The proposer that the state before the block at height k names.         *)
ProposerOf(k) == IF k = CurState.LastBlockHeight + 1 THEN NextProposer
                                                     ELSE states[k].LastValidators.proposer

(* A block with this time and this proposer may be stored next.            *)
ReadTime(time) == LastBlock.height > 0 => \E j \in 1..LastBlock.height : TimeFrom(time, j)
ReadBoth(time, address) ==
  LastBlock.height > 0 =>
    \E j \in 1..LastBlock.height : \E k \in j..(CurState.LastBlockHeight + 1) :
      TimeFrom(time, j) /\ address = ProposerOf(k)

ReadStage(t) ==
  /\ pc[t] = "getTime" => \E j \in 1..LastBlock.height : blockTime[t] = blocks[j].time
  /\ pc[t] = "readProposer" => ReadTime(blockTime[t])
  /\ pc[t] \in {"lock", "checkTxs", "propose"} => ReadBoth(blockTime[t], proposer[t])
  /\ pc[t] \in {"process", "sign", "finalize", "store"} => ReadBoth(block.time, block.proposer)

(* UpdateState starts from the state that was stored with the block.       *)
StartsFromStored == \A t \in Threads : pc[t] = "updateState" => CurState = states[LastBlock.height]

(* The inductive invariant behind it: from the first read until the block  *)
(* is stored, what each goroutine has read comes from a stored block and   *)
(* from a state that is stored or current, in this order.                  *)
ReadInv ==
  /\ ~UsesSystemClock /\ DurationsFit => curOffset \in 0..advanced
  /\ ReadsInOrder /\ StartsFromStored
  /\ \A t \in Threads : ReadStage(t)

-----------------------------------------------------------------------------
(* Liveness.  The Go scheduler runs every goroutine that can run, and      *)
(* sync.Mutex hands the lock to a waiter that has been starved for 1 ms,   *)
(* so a goroutine that can lock again and again eventually does.           *)
Fairness == /\ WF_vars(InitChain) /\ WF_vars(RunFirstBlock) /\ WF_vars(StartServer)
            /\ \A t \in Threads : WF_vars(RunBlock(t)) /\ SF_vars(LockBlockMutex(t))
            /\ \A t \in Handlers : SF_vars(QueueTx(t))

FairSpec == Spec /\ Fairness

(* Every RunBlock that waits for blockMutex returns to its caller, with or *)
(* without an error, unless the process ends.                              *)
RunsReturn == \A t \in Threads : pc[t] = "lock" ~> (crashed \/ pc[t] \notin Critical \cup {"lock"})

(* A block has failed under a lock that nobody unlocks: a panic that the   *)
(* RPC server recovered from, or a refused state update.                   *)
LockLeaked == blockMutex = Leaked \/ stateUpdateMutex = Leaked

(* With --auto-tx, a queued transaction is included in a block without any *)
(* further request, unless the process ends or a lock is leaked.           *)
TxsAreIncluded ==
  \A x \in Txs : x \in Range(FreshTxQueue) ~> (crashed \/ LockLeaked \/ x \in StoredTxs)

(* The storage becomes readable again after every update, whatever the bus *)
(* and its subscribers do, unless the update itself is refused or panics   *)
(* for want of a transaction result: then it stays locked for ever.        *)
StoresUnlock == ~StoresReadable ~> (crashed \/ StoresReadable \/ stateUpdateMutex = Leaked)

-----------------------------------------------------------------------------
(* What the comments of the source say and the code does not do.           *)

(* The state stored for a height is the one after applying its block.      *)
StatesAreAfterBlocks == \A h \in DOMAIN states : states[h].LastBlockHeight = h

(* The last commit has one signature per validator of the set it is read   *)
(* against, and each is reported for the validator that signed.            *)
LastCommitMatchesValidators ==
  \A t \in Threads :
    pc[t] = "process" /\ block.height # InitialHeight =>
      /\ CommitSize(block.lastCommit) = Cardinality(CurrentValidators)
      /\ BuildLastCommitInfo(block.lastCommit, CurState.Validators.power)
           = block.lastCommit.signed
=============================================================================
