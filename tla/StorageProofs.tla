---------------------------- MODULE StorageProofs ----------------------------
(***************************************************************************)
(* What the storage holds is a chain of blocks with their commits and      *)
(* states, for every set of goroutines, validators, applications and       *)
(* requests, and whatever fails: StorageInv is inductive relative to the   *)
(* type invariant.  First the stages of RunBlock up to the commit of a     *)
(* block, then those that execute, store and commit it, then all steps.    *)
(* With it, block production implements the abstract specification Ledger, *)
(* and the applications only ever commit stored blocks.                    *)
(***************************************************************************)
EXTENDS TypeProofs

-----------------------------------------------------------------------------
(* Steps outside runBlock_helper.                                          *)

(* Goroutines move between labels where they do not hold blockMutex.       *)
MovesOutside ==
  /\ pc' \in [Threads -> Labels]
  /\ \A t \in Threads : pc'[t] = pc[t] \/ {pc[t], pc'[t]} \cap Critical = {}

(* The fields that StorageInv speaks of.                                   *)
guardedVars == <<blockMutex, helperVars, CurState, LastBlock, LastCommit, storageVars>>

(* The invariant holds initially: nothing is stored, nothing is running.   *)
LEMMA InitInv == Init => StorageInv
<1> SUFFICES ASSUME Init PROVE StorageInv
  OBVIOUS
<1>1. Locks
  BY ThreadsAreDistinct, Zenon DEF Init, StorageInit, Locks, Critical
<1>2. Starting
  BY Zenon DEF Init, Starting, Threads
<1>3. StateOfLastBlock
  BY DEF Init, GenesisState, EmptyBlock, StateOfLastBlock
<1>4. Stages
  BY <1>3, Zenon DEF Init, Stages, Stage
<1>5. Stores
  BY DEF Init, StorageInit, EmptyBlock, Stores, StoresAgree, BlocksLinked, CommitsHaveQuorum
<1>6. QED
  BY <1>1, <1>2, <1>4, <1>5, Zenon DEF StorageInv

(* Outside runBlock_helper nothing of it can be disturbed.                 *)
LEMMA OutsideInv ==
  ASSUME StateTypeOK, StorageInv, MovesOutside, UNCHANGED guardedVars
  PROVE  Locks' /\ Stages' /\ Stores'
<1>1. Locks'
  BY Zenon DEF StorageInv, MovesOutside, guardedVars, storageVars, Locks, Critical
<1>2. Stages'
  <2>1. \A l : Stage(l)' <=> Stage(l)
    BY Zenon DEF guardedVars, helperVars, Stage, StateOfLastBlock, CurrentValidators
  <2>2. ASSUME NEW t \in Threads PROVE Stage(pc[t])'
    <3>1. CASE pc'[t] = pc[t]
      BY <2>1, <3>1, Zenon DEF StorageInv, Stages
    <3>2. CASE pc'[t] \notin Critical
      BY <3>2, Zenon DEF Stage, Critical
    <3>3. QED
      BY <3>1, <3>2, Zenon DEF MovesOutside
  <2>3. QED
    BY <2>2, Zenon DEF StorageInv, Stages, StateOfLastBlock, guardedVars, helperVars, storageVars
<1>3. Stores'
  BY Zenon DEF StorageInv, Stores, StoresAgree, BlocksLinked, CommitsHaveQuorum, guardedVars, storageVars
<1>4. QED
  BY Zenon, <1>1, <1>2, <1>3

-----------------------------------------------------------------------------
(* Steps of runBlock_helper.                                               *)

(* Only one goroutine is inside runBlock_helper.                           *)
LEMMA Exclusion ==
  ASSUME Locks, NEW t \in Threads, pc[t] \in Critical, NEW u \in Threads \ {t}
  PROVE  pc[u] \notin Critical /\ blockMutex = t /\ stateUpdateMutex # u
BY DEF Locks, Critical

(* A return of runBlock_helper, with blockMutex free or leaked.  The lock  *)
(* of the storage is not involved, or it is leaked.                        *)
LEMMA LeaveInv ==
  ASSUME StateTypeOK, StorageInv, NEW t \in Threads, NEW outcome, Leave(t, outcome),
         pc[t] \in Critical,
         UNCHANGED <<LastBlock, blocks, commits, states, responses>>,
         \/ /\ pc[t] \notin {"updateState", "fireEvents"}
            /\ UNCHANGED stateUpdateMutex
            /\ CurState'.LastBlockHeight = CurState.LastBlockHeight
            /\ CurState'.LastBlockID = CurState.LastBlockID
         \/ stateUpdateMutex' = Leaked
  PROVE  Locks' /\ Stages' /\ Stores'
<1>0. Locks /\ Stages /\ Stores
  BY Zenon DEF StorageInv
<1>1. /\ pc' = [pc EXCEPT ![t] = NextLabel(t, outcome)]
      /\ NextLabel(t, outcome) \notin Critical
      /\ blockMutex' \in {Free, Leaked} /\ votes' = {}
  BY Zenon DEF Leave, Goto, NextLabel, MutexAfter, Critical
<1>2. \A u \in Threads : pc'[u] \notin Critical
  BY <1>0, <1>1, Exclusion, Zenon DEF StateTypeOK, GoroutineTypeOK
<1>3. Locks'
  <2>1. ASSUME NEW u \in Threads PROVE stateUpdateMutex' # u
    BY <1>0, Exclusion, ThreadsAreDistinct, Zenon DEF Locks
  <2>2. QED
    BY <1>1, <1>2, <2>1, ThreadsAreDistinct, Zenon DEF Locks, Critical
<1>4. Stages'
  <2>1. \A u \in Threads : Stage(pc[u])'
    BY <1>2, Zenon DEF Stage, Critical
  <2>2. stateUpdateMutex' = Free => StateOfLastBlock'
    BY <1>0, ThreadsAreDistinct, Zenon DEF Stages, StateOfLastBlock
  <2>3. QED
    BY <1>1, <2>1, <2>2, Zenon DEF Stages
<1>5. Stores'
  BY <1>0, Zenon DEF Stores, StoresAgree, BlocksLinked, CommitsHaveQuorum
<1>6. QED
  BY Zenon, <1>3, <1>4, <1>5

(* A step that goes on establishes what its next label stands for.         *)
LEMMA ContinueInv ==
  ASSUME StateTypeOK, StorageInv, NEW t \in Threads, NEW label \in Critical,
         Continue(t, label), pc[t] \in Critical,
         stateUpdateMutex' \in {stateUpdateMutex, t, Free},
         label \in {"updateState", "fireEvents"} <=> stateUpdateMutex' = t,
         Stage(label)',
         stateUpdateMutex' = Free => StateOfLastBlock'
  PROVE  Locks' /\ Stages'
<1>0. Locks /\ Stages
  BY Zenon DEF StorageInv
<1>1. /\ pc' = [pc EXCEPT ![t] = label]
      /\ blockMutex' = blockMutex /\ blockMutex = t
      /\ \A u \in Threads \ {t} : pc[u] \notin Critical /\ stateUpdateMutex # u
  BY <1>0, Exclusion, Zenon DEF Continue, Goto, processVars, Locks
<1>2. /\ pc'[t] = label
      /\ \A u \in Threads \ {t} : pc'[u] \notin Critical /\ stateUpdateMutex' # u
  BY <1>1, ThreadsAreDistinct, Zenon DEF StateTypeOK, GoroutineTypeOK
<1>3. Locks'
  BY <1>1, <1>2, Zenon DEF Locks, Critical
<1>4. Stages'
  <2>1. ASSUME NEW u \in Threads PROVE Stage(pc[u])'
    <3>1. CASE u = t
      BY Zenon, <1>2, <3>1
    <3>2. CASE u # t
      BY <1>2, <3>2, Zenon DEF Stage, Critical
    <3>3. QED
      BY Zenon, <3>1, <3>2
  <2>2. QED
    BY <1>1, <2>1, ThreadsAreDistinct, Zenon DEF Stages
<1>5. QED
  BY Zenon, <1>3, <1>4

(* A step that does not write to the storage keeps what it holds.          *)
LEMMA StoresFrame ==
  ASSUME Stores, UNCHANGED <<LastBlock, blocks, commits, states, responses>>
  PROVE  Stores'
BY Zenon DEF Stores, StoresAgree, BlocksLinked, CommitsHaveQuorum

(* blockMutex.Lock().                                                      *)
LEMMA LockInv ==
  ASSUME StateTypeOK, StorageInv, NEW t \in Threads, LockBlockMutex(t)
  PROVE  Locks' /\ Stages' /\ Stores'
<1>0. Locks /\ Stages /\ Stores
  BY Zenon DEF StorageInv
<1>1. /\ pc[t] = "lock" /\ blockMutex = Free /\ blockMutex' = t
      /\ pc' = [pc EXCEPT ![t] = "checkTxs"]
      /\ UNCHANGED <<helperVars, CurState, LastBlock, LastCommit, storageVars>>
  BY Zenon DEF LockBlockMutex, At, Goto, chainVars
<1>2. /\ pc'[t] = "checkTxs"
      /\ \A u \in Threads \ {t} : pc'[u] = pc[u] /\ pc[u] \notin Critical
  BY <1>0, <1>1, ThreadsAreDistinct, Zenon DEF Locks, StateTypeOK, GoroutineTypeOK
<1>3. Locks'
  BY <1>0, <1>1, <1>2, Zenon DEF Locks, Critical, storageVars
<1>4. Stages'
  <2>1. votes' = {}
    BY <1>0, <1>1, Zenon DEF Stages, helperVars
  <2>2. ASSUME NEW u \in Threads PROVE Stage(pc[u])'
    <3>1. CASE u = t
      BY <1>2, <2>1, <3>1, Zenon DEF Stage
    <3>2. CASE u # t
      BY <1>2, <3>2, Zenon DEF Stage, Critical
    <3>3. QED
      BY Zenon, <3>1, <3>2
  <2>3. QED
    BY <1>0, <1>1, <2>1, <2>2, Zenon DEF Stages, StateOfLastBlock, storageVars
<1>5. Stores'
  BY <1>0, <1>1, StoresFrame, Zenon DEF storageVars
<1>6. QED
  BY Zenon, <1>3, <1>4, <1>5

(* CheckTxs and DecideProposal: the block goes on top of CurState.         *)
LEMMA ProposalInv ==
  ASSUME StateTypeOK, StorageInv, NEW t \in Threads, CheckTxs(t) \/ DecideProposal(t)
  PROVE  Locks' /\ Stages' /\ Stores'
<1>0. Locks /\ Stages /\ Stores
  BY Zenon DEF StorageInv
<1>1. CASE CheckTxs(t)
  <2>1. /\ pc[t] = "checkTxs"
        /\ UNCHANGED <<CurState, LastBlock, storageVars>>
        /\ Leave(t, "error") \/ (Continue(t, "propose") /\ UNCHANGED votes)
    BY <1>1, Zenon DEF CheckTxs, At, chainVars, helperVars
  <2>2. CASE Leave(t, "error")
    BY <2>1, <2>2, LeaveInv, Zenon DEF Critical, storageVars
  <2>3. CASE Continue(t, "propose") /\ UNCHANGED votes
    <3>1. votes' = {} /\ stateUpdateMutex # t
      BY <1>0, <2>1, <2>3, Zenon DEF Stages, Stage, Locks
    <3>2. Stage("propose")'
      BY <3>1, Zenon DEF Stage
    <3>3. Locks' /\ Stages'
      BY <1>0, <2>1, <2>3, <3>1, <3>2, ContinueInv, Zenon DEF Critical, storageVars, Stages, StateOfLastBlock
    <3>4. QED
      BY <1>0, <2>1, <3>3, StoresFrame, Zenon DEF storageVars
  <2>4. QED
    BY Zenon, <2>1, <2>2, <2>3
<1>2. CASE DecideProposal(t)
  <2>1. /\ pc[t] = "propose"
        /\ UNCHANGED <<CurState, LastBlock, storageVars>>
        /\ \/ \E outcome : Leave(t, outcome)
           \/ /\ \E txs : block' = CreateProposalBlock(t, txs)
              /\ Continue(t, "process")
              /\ UNCHANGED votes
    BY <1>2, Zenon DEF DecideProposal, At
  <2>2. CASE \E outcome : Leave(t, outcome)
    BY <2>1, <2>2, LeaveInv, Zenon DEF Critical, storageVars
  <2>3. CASE /\ \E txs : block' = CreateProposalBlock(t, txs)
             /\ Continue(t, "process")
             /\ UNCHANGED votes
    <3>1. votes' = {} /\ stateUpdateMutex # t
      BY <1>0, <2>1, <2>3, Zenon DEF Stages, Stage, Locks
    <3>2. /\ block'.height = CurState'.LastBlockHeight + 1
          /\ block'.lastBlockID = CurState'.LastBlockID
      BY <2>1, <2>3 DEF CreateProposalBlock, ParentID
    <3>3. Stage("process")'
      BY <3>1, <3>2, Zenon DEF Stage
    <3>4. Locks' /\ Stages'
      BY <1>0, <2>1, <2>3, <3>1, <3>3, ContinueInv, Zenon DEF Critical, storageVars, Stages, StateOfLastBlock
    <3>5. QED
      BY <1>0, <2>1, <3>4, StoresFrame, Zenon DEF storageVars
  <2>4. QED
    BY Zenon, <2>1, <2>2, <2>3
<1>3. QED
  BY Zenon, <1>1, <1>2

(* ProcessProposal, the votes and the commit: only current validators      *)
(* sign, and a commit is made only with the majority.                      *)
LEMMA VotingInv ==
  ASSUME StateTypeOK, StorageInv, NEW t \in Threads,
         ProcessProposal(t) \/ ExtendAndSignVote(t) \/ MakeExtendedCommit(t)
  PROVE  Locks' /\ Stages' /\ Stores'
<1>0. Locks /\ Stages /\ Stores
  BY Zenon DEF StorageInv
<1>1. /\ pc[t] \in {"process", "sign"}
      /\ UNCHANGED <<CurState, LastBlock, storageVars>>
  BY Zenon DEF ProcessProposal, ExtendAndSignVote, MakeExtendedCommit, At, chainVars
<1>2. CASE \E outcome : Leave(t, outcome)
  BY <1>1, <1>2, LeaveInv, Zenon DEF Critical, storageVars
<1>3. ASSUME NEW label \in {"sign", "finalize"}, Continue(t, label), Stage(label)'
      PROVE  Locks' /\ Stages' /\ Stores'
  <2>1. stateUpdateMutex # t
    BY <1>0, <1>1, Zenon DEF Locks
  <2>2. Locks' /\ Stages'
    BY <1>0, <1>1, <1>3, <2>1, ContinueInv, Zenon DEF Critical, storageVars, Stages, StateOfLastBlock
  <2>3. QED
    BY <1>0, <1>1, <2>2, StoresFrame, Zenon DEF storageVars
<1>4. Stage("process") \/ Stage("sign")
  BY <1>0, <1>1, Zenon DEF Stages
<1>5. /\ block.height = CurState.LastBlockHeight + 1
      /\ block.lastBlockID = CurState.LastBlockID
      /\ CurrentValidators' = CurrentValidators
  BY <1>1, <1>4, Zenon DEF Stage, CurrentValidators
<1>6. CASE ProcessProposal(t) /\ ~\E outcome : Leave(t, outcome)
  <2>1. /\ Continue(t, "sign") /\ remaining' = CurrentValidators /\ UNCHANGED <<block, votes>>
        /\ pc[t] = "process"
    BY <1>6, Zenon DEF ProcessProposal, At
  <2>2. votes = {}
    BY <1>0, <2>1, Zenon DEF Stages, Stage
  <2>3. Stage("sign")'
    BY <1>1, <1>5, <2>1, <2>2, Zenon DEF Stage
  <2>4. QED
    BY Zenon, <1>3, <2>1, <2>3
<1>7. CASE ExtendAndSignVote(t) /\ ~\E outcome : Leave(t, outcome)
  <2>1. /\ Continue(t, "sign") /\ UNCHANGED block /\ pc[t] = "sign"
        /\ \E v \in remaining : votes' \subseteq votes \cup {v} /\ remaining' \subseteq remaining
    BY <1>7, Zenon DEF ExtendAndSignVote, At
  <2>2. votes \cup remaining \subseteq CurrentValidators
    BY <1>0, <2>1, Zenon DEF Stages, Stage
  <2>3. Stage("sign")'
    BY <1>1, <1>5, <2>1, <2>2, Zenon DEF Stage
  <2>4. QED
    BY Zenon, <1>3, <2>1, <2>3
<1>8. CASE MakeExtendedCommit(t) /\ ~\E outcome : Leave(t, outcome)
  <2>1. /\ Continue(t, "finalize") /\ UNCHANGED block /\ pc[t] = "sign"
        /\ HasMajority(votes)
        /\ LastCommit' = [height |-> block.height, hash |-> block.hash,
                          power |-> CurState.Validators.power, signed |-> votes,
                          extended |-> Extended]
    BY <1>8, Zenon DEF MakeExtendedCommit, At, helperVars
  <2>2. votes \subseteq CurrentValidators
    BY <1>0, <2>1, Zenon DEF Stages, Stage
  <2>3. Stage("finalize")'
    BY <1>1, <1>5, <2>1, <2>2, Zenon DEF Stage, HasMajority
  <2>4. QED
    BY Zenon, <1>3, <2>1, <2>3
<1>9. QED
  BY Zenon, <1>2, <1>6, <1>7, <1>8

-----------------------------------------------------------------------------
(* Executing, storing and committing the block.                            *)

(* UpdateStores adds the next height, and nothing else.                    *)
LEMMA StoreBlockInv ==
  ASSUME StateTypeOK, StorageInv, NEW t \in Threads, StoreBlock(t)
  PROVE  Locks' /\ Stages' /\ Stores'
<1> DEFINE height == LastBlock.height + 1
<1>0. Locks /\ Stages /\ Stores
  BY Zenon DEF StorageInv
<1>1. /\ pc[t] = "store" /\ Continue(t, "updateState")
      /\ stateUpdateMutex = Free /\ stateUpdateMutex' = t
      /\ LastBlock' = block /\ UNCHANGED <<block, CurState>>
  BY Zenon DEF StoreBlock, At, LockBeforeStateUpdate, helperVars
<1>2. CurState.LastBlockHeight = LastBlock.height /\ CurState.LastBlockID = LastBlock.hash
  BY <1>0, <1>1, Zenon DEF Stages, StateOfLastBlock
<1>3. /\ block.height = height /\ block.lastBlockID = LastBlock.hash
      /\ LastCommit.height = height /\ LastCommit.hash = block.hash
      /\ LastCommit.power = CurState.Validators.power
      /\ LastCommit.signed \subseteq Members(CurState.Validators.power)
      /\ TwoThirds(CurState.Validators.power, LastCommit.signed)
  BY <1>0, <1>1, <1>2, Zenon DEF Stages, Stage, CurrentValidators
<1>4. /\ blocks' = Insert(blocks, height, block)
      /\ commits' = Insert(commits, height, LastCommit)
      /\ states' = Insert(states, height, CurState)
      /\ responses' = Insert(responses, height, res)
  BY <1>2, Zenon DEF StoreBlock, UpdateStores
<1>5. LastBlock.height \in Nat
  BY Zenon DEF StateTypeOK, ClientTypeOK, IsBlock
<1>6. /\ DOMAIN blocks = 1..LastBlock.height /\ DOMAIN commits = 1..LastBlock.height
      /\ DOMAIN states = 1..LastBlock.height /\ DOMAIN responses = 1..LastBlock.height
  BY <1>0, Zenon DEF Stores, StoresAgree
<1>7. 1..LastBlock'.height = (1..LastBlock.height) \cup {height} /\ height \notin 1..LastBlock.height
  BY <1>1, <1>3, <1>5
<1>8. /\ DOMAIN blocks' = 1..LastBlock'.height /\ DOMAIN commits' = 1..LastBlock'.height
      /\ DOMAIN states' = 1..LastBlock'.height /\ DOMAIN responses' = 1..LastBlock'.height
      /\ blocks'[height] = block /\ commits'[height] = LastCommit /\ states'[height] = CurState
      /\ \A h \in 1..LastBlock.height :
           blocks'[h] = blocks[h] /\ commits'[h] = commits[h] /\ states'[h] = states[h]
  BY <1>4, <1>6, <1>7, Zenon DEF Insert
<1>9. Locks' /\ Stages'
  <2>1. Stage("updateState")'
    BY <1>1, <1>2, <1>3, Zenon DEF Stage
  <2>2. QED
    BY <1>1, <2>1, ContinueInv, ThreadsAreDistinct, Zenon DEF Critical
<1>10. StoresAgree'
  <2>1. ASSUME NEW h \in 1..LastBlock'.height
        PROVE  /\ blocks'[h].height = h /\ commits'[h].height = h
               /\ commits'[h].hash = blocks'[h].hash
    <3>1. CASE h = height
      BY <1>2, <1>3, <1>5, <1>8, <3>1
    <3>2. CASE h \in 1..LastBlock.height
      BY <1>0, <1>6, <1>8, <3>2, Zenon DEF Stores, StoresAgree
    <3>3. QED
      BY Zenon, <1>7, <3>1, <3>2
  <2>2. QED
    BY <1>1, <1>3, <1>8, <2>1, Zenon DEF StoresAgree
<1>11. BlocksLinked'
  <2>1. ASSUME NEW h \in 1..LastBlock'.height, h > 1
        PROVE  h - 1 \in 1..LastBlock.height /\ blocks'[h].lastBlockID = blocks'[h - 1].hash
    <3>1. CASE h = height
      <4>1. LastBlock.height > 0 /\ h - 1 = LastBlock.height /\ h - 1 \in 1..LastBlock.height
        BY <1>5, <2>1, <3>1
      <4>2. blocks'[h - 1] = LastBlock
        BY <1>0, <1>8, <4>1, Zenon DEF Stores, StoresAgree
      <4>3. QED
        BY <1>3, <1>8, <3>1, <4>1, <4>2, Zenon
    <3>2. CASE h \in 1..LastBlock.height
      BY <1>0, <1>5, <1>6, <1>8, <2>1, <3>2, Zenon DEF Stores, BlocksLinked
    <3>3. QED
      BY Zenon, <1>7, <3>1, <3>2
  <2>2. QED
    BY <1>7, <1>8, <2>1, Zenon DEF BlocksLinked
<1>12. CommitsHaveQuorum'
  <2>1. ASSUME NEW h \in 1..LastBlock'.height
        PROVE  /\ commits'[h].power = states'[h].Validators.power
               /\ commits'[h].signed \subseteq Members(commits'[h].power)
               /\ TwoThirds(commits'[h].power, commits'[h].signed)
    <3>1. CASE h = height
      BY Zenon, <1>3, <1>8, <3>1
    <3>2. CASE h \in 1..LastBlock.height
      BY <1>0, <1>6, <1>8, <3>2, Zenon DEF Stores, CommitsHaveQuorum
    <3>3. QED
      BY Zenon, <1>7, <3>1, <3>2
  <2>2. QED
    BY <1>8, <2>1, Zenon DEF CommitsHaveQuorum
<1>13. QED
  BY <1>9, <1>10, <1>11, <1>12, Zenon DEF Stores

(* FinalizeBlock, the update of CurState, and Commit.                      *)
LEMMA ExecutionInv ==
  ASSUME StateTypeOK, StorageInv, NEW t \in Threads,
         \/ SendFinalizeBlock(t) \/ UpdateStateFromBlock(t) \/ FireEvents(t)
         \/ SendCommit(t) \/ FinishBlock(t)
  PROVE  Locks' /\ Stages' /\ Stores'
<1>0. Locks /\ Stages /\ Stores
  BY Zenon DEF StorageInv
<1>1. UNCHANGED <<LastBlock, blocks, commits, states, responses>>
  BY Zenon DEF SendFinalizeBlock, UpdateStateFromBlock, FireEvents, EventsFired, EventsPanic,
         UnlockAfterStateUpdate, SendCommit, FinishBlock, chainVars, storageVars
<1>2. Stores'
  BY Zenon, <1>0, <1>1, StoresFrame
<1>3. CASE SendFinalizeBlock(t)
  <2>1. /\ pc[t] = "finalize" /\ UNCHANGED <<CurState, LastBlock, LastCommit, storageVars>>
        /\ \/ Leave(t, "error")
           \/ Continue(t, "store") /\ UNCHANGED block
    BY <1>3, Zenon DEF SendFinalizeBlock, At, chainVars
  <2>2. CASE Leave(t, "error")
    BY <1>1, <2>1, <2>2, LeaveInv, Zenon DEF Critical, storageVars
  <2>3. CASE Continue(t, "store") /\ UNCHANGED block
    <3>1. Stage("finalize") /\ stateUpdateMutex # t
      BY <1>0, <2>1, Zenon DEF Stages, Locks
    <3>2. Stage("store")'
      BY <2>1, <2>3, <3>1, Zenon DEF Stage, CurrentValidators
    <3>3. QED
      BY Zenon, <1>0, <1>2, <2>1, <2>3, <3>1, <3>2, ContinueInv
         DEF Critical, storageVars, Stages, StateOfLastBlock
  <2>4. QED
    BY Zenon, <2>1, <2>2, <2>3
<1>4. CASE UpdateStateFromBlock(t)
  <2>1. /\ pc[t] = "updateState"
        /\ \/ Leave(t, "error") /\ stateUpdateMutex' = Leaked
           \/ /\ Continue(t, "fireEvents") /\ UNCHANGED stateUpdateMutex
              /\ \E next : CurState' = UpdateState(next)
    BY <1>4, Zenon DEF UpdateStateFromBlock, At
  <2>2. CASE Leave(t, "error") /\ stateUpdateMutex' = Leaked
    BY <1>1, <2>1, <2>2, LeaveInv, Zenon DEF Critical
  <2>3. CASE /\ Continue(t, "fireEvents") /\ UNCHANGED stateUpdateMutex
             /\ \E next : CurState' = UpdateState(next)
    <3>1. block = LastBlock /\ stateUpdateMutex = t
      BY <1>0, <2>1, Zenon DEF Stages, Stage, Locks
    <3>2. CurState'.LastBlockHeight = block.height /\ CurState'.LastBlockID = block.hash
      BY <2>3 DEF UpdateState
    <3>3. StateOfLastBlock'
      BY <1>1, <3>1, <3>2, Zenon DEF StateOfLastBlock
    <3>4. Stage("fireEvents")'
      BY <3>3, Zenon DEF Stage
    <3>5. QED
      BY <1>2, <2>1, <2>3, <3>1, <3>3, <3>4, ContinueInv, Zenon DEF Critical
  <2>4. QED
    BY Zenon, <2>1, <2>2, <2>3
<1>5. CASE EventsFired(t)
  <2>1. /\ pc[t] = "fireEvents" /\ Continue(t, "commit") /\ stateUpdateMutex' = Free
        /\ UNCHANGED CurState
    BY <1>5, Zenon DEF EventsFired, UnlockAfterStateUpdate, At, chainVars
  <2>2. StateOfLastBlock'
    BY <1>0, <1>1, <2>1, Zenon DEF Stages, Stage, StateOfLastBlock
  <2>3. Stage("commit")'
    BY Zenon DEF Stage
  <2>4. QED
    BY <1>2, <2>1, <2>2, <2>3, ContinueInv, ThreadsAreDistinct, Zenon DEF Critical
<1>6. CASE SendCommit(t)
  <2>1. /\ pc[t] = "commit" /\ UNCHANGED <<CurState, storageVars>>
        /\ Leave(t, "error") \/ Continue(t, "commit")
    BY <1>6, Zenon DEF SendCommit, At, chainVars
  <2>2. CASE Leave(t, "error")
    BY <1>1, <2>1, <2>2, LeaveInv, Zenon DEF Critical, storageVars
  <2>3. CASE Continue(t, "commit")
    <3>1. Stage("commit")' /\ stateUpdateMutex # t
      BY <1>0, <2>1, Zenon DEF Stage, Locks
    <3>2. QED
      BY Zenon, <1>0, <1>1, <1>2, <2>1, <2>3, <3>1, ContinueInv
         DEF Critical, storageVars, Stages, StateOfLastBlock
  <2>4. QED
    BY Zenon, <2>1, <2>2, <2>3
<1>7. CASE FinishBlock(t)
  <2>1. /\ pc[t] = "commit" /\ Leave(t, "ok") /\ UNCHANGED stateUpdateMutex
        /\ CurState' = [CurState EXCEPT !.AppHash = block.hash]
    BY <1>7, Zenon DEF FinishBlock, At, storageVars
  <2>2. /\ CurState'.LastBlockHeight = CurState.LastBlockHeight
        /\ CurState'.LastBlockID = CurState.LastBlockID
    BY <2>1, Zenon DEF StateTypeOK, ClientTypeOK, State
  <2>3. QED
    BY <1>1, <2>1, <2>2, LeaveInv, Zenon DEF Critical
<1>8. CASE EventsPanic(t)
  BY <1>1, <1>8, LeaveInv, Zenon DEF EventsPanic, At, Critical
<1>9. QED
  BY <1>3, <1>4, <1>5, <1>6, <1>7, <1>8, Zenon DEF FireEvents

-----------------------------------------------------------------------------
(* All steps.                                                              *)

(* A step of RunBlock moves the goroutine to another stage of it, or back  *)
(* to its caller.                                                          *)
LEMMA RunBlockMoves ==
  ASSUME NEW t \in Threads, RunBlock(t)
  PROVE  /\ pc[t] \notin {"initChain", "idle"} /\ serving' = serving
         /\ \E label \in Labels \ {"initChain"} : pc' = [pc EXCEPT ![t] = label]
<1>1. \A outcome : Leave(t, outcome) =>
        /\ serving' = serving
        /\ \E label \in Labels \ {"initChain"} : pc' = [pc EXCEPT ![t] = label]
  BY Zenon DEF Leave, Goto, NextLabel, Labels
<1>2. \A label \in Labels \ {"initChain"} : Continue(t, label) =>
        /\ serving' = serving /\ pc' = [pc EXCEPT ![t] = label]
  BY Zenon DEF Continue, Goto, processVars
<1>3. CASE ReadLastBlockTime(t) \/ CallGetBlockTime(t) \/ ReadProposer(t) \/ LockBlockMutex(t)
  BY <1>3, Zenon DEF ReadLastBlockTime, CallGetBlockTime, ReadProposer, LockBlockMutex, At, Goto,
     processVars, Labels
<1>4. CASE CheckTxs(t) \/ DecideProposal(t)
  BY <1>1, <1>2, <1>4, Zenon DEF CheckTxs, DecideProposal, At, Labels
<1>5. CASE ProcessProposal(t) \/ ExtendAndSignVote(t) \/ MakeExtendedCommit(t)
  BY <1>1, <1>2, <1>5, Zenon DEF ProcessProposal, ExtendAndSignVote, MakeExtendedCommit, At, Labels
<1>6. CASE SendFinalizeBlock(t) \/ StoreBlock(t) \/ UpdateStateFromBlock(t)
  BY <1>1, <1>2, <1>6, Zenon DEF SendFinalizeBlock, StoreBlock, UpdateStateFromBlock, At, Labels
<1>7. CASE FireEvents(t) \/ SendCommit(t) \/ FinishBlock(t)
  BY <1>1, <1>2, <1>7, Zenon DEF FireEvents, EventsFired, EventsPanic, SendCommit, FinishBlock, At, Labels
<1>8. QED
  BY <1>3, <1>4, <1>5, <1>6, <1>7, Zenon DEF RunBlock, BlockStep

-----------------------------------------------------------------------------
(* Steps of main and of the requests.                                      *)

(* InitChain replaces the validators of CurState: nothing is running yet.  *)
LEMMA InitChainInv ==
  ASSUME StateTypeOK, StorageInv, InitChain
  PROVE  StorageInv'
<1>0. Locks /\ Starting /\ Stages /\ Stores
  BY Zenon DEF StorageInv
<1>1. /\ pc[Main] = "initChain"
      /\ pc' = pc \/ pc' = [pc EXCEPT ![Main] = "firstBlock"]
      /\ UNCHANGED <<blockMutex, serving, votes, LastBlock, storageVars>>
  BY Zenon DEF InitChain, At, Goto, helperVars
<1>2. \A t \in Threads : {pc[t], pc'[t]} \cap Critical = {}
  BY <1>0, <1>1 DEF Starting, Critical, StateTypeOK, GoroutineTypeOK
<1>3. Starting'
  BY <1>0, <1>1, Zenon DEF Starting, StateTypeOK, GoroutineTypeOK, Threads
<1>4. Locks'
  BY <1>0, <1>1, <1>2, Zenon DEF Locks, Critical, storageVars
<1>5. /\ CurState'.LastBlockHeight = CurState.LastBlockHeight
      /\ CurState'.LastBlockID = CurState.LastBlockID
  <2>1. CASE UNCHANGED CurState
    BY Zenon, <2>1
  <2>2. CASE \E answer \in InitResponses : UpdateStateFromInit(answer)
    BY <2>2, Zenon DEF UpdateStateFromInit, StateTypeOK, ClientTypeOK, State
  <2>3. QED
    BY <2>1, <2>2, Zenon DEF InitChain
<1>6. Stages'
  <2>1. \A t \in Threads : Stage(pc[t])'
    BY <1>2, Zenon DEF Stage, Critical
  <2>2. QED
    BY <1>0, <1>1, <1>5, <2>1, Zenon DEF Stages, StateOfLastBlock, storageVars
<1>7. Stores'
  BY <1>0, <1>1, StoresFrame, Zenon DEF storageVars
<1>8. QED
  BY <1>3, <1>4, <1>6, <1>7, Zenon DEF StorageInv

(* The other steps outside runBlock_helper.                                *)
LEMMA OutsideSteps ==
  ASSUME StateTypeOK,
         \/ RunFirstBlock \/ StartServer \/ ProduceBlock
         \/ ClockTick \/ RequestAdvanceTime \/ SetSigningStatus
         \/ \E t \in Handlers : Request(t) \/ QueueTx(t)
         \/ \E t \in Threads : ReadLastBlockTime(t) \/ CallGetBlockTime(t) \/ ReadProposer(t)
  PROVE  MovesOutside /\ UNCHANGED guardedVars
<1> USE DEF StateTypeOK, GoroutineTypeOK, guardedVars, processVars, chainVars, MovesOutside, Critical
<1>1. ASSUME NEW t \in Threads, NEW n, NEW m, StartRuns(t, n, m)
      PROVE  MovesOutside /\ UNCHANGED guardedVars
  BY <1>1, Zenon DEF StartRuns, At, Goto, Labels
<1>2. CASE RunFirstBlock \/ StartServer
  BY <1>2, Zenon DEF RunFirstBlock, StartServer, At, Goto, Labels, Threads
<1>3. CASE ProduceBlock
  BY <1>1, <1>3, Zenon DEF ProduceBlock, Threads
<1>4. CASE ClockTick \/ RequestAdvanceTime \/ SetSigningStatus
  BY <1>4, Zenon DEF ClockTick, RequestAdvanceTime, SetSigningStatus
<1>5. ASSUME NEW t \in Handlers, Request(t) PROVE MovesOutside /\ UNCHANGED guardedVars
  <2>1. CASE BroadcastTx(t)
    BY <2>1, Zenon DEF BroadcastTx, At, Goto, Labels, Threads
  <2>2. QED
    BY <1>1, <1>5, <2>1, Zenon DEF Request, AdvanceBlocks, CauseMisbehaviour, Threads
<1>6. ASSUME NEW t \in Handlers, QueueTx(t) PROVE MovesOutside /\ UNCHANGED guardedVars
  <2>1. UNCHANGED guardedVars
    BY <1>6, Zenon DEF QueueTx
  <2>2. CASE Goto(t, "idle")
    BY <1>6, <2>1, <2>2, Zenon DEF QueueTx, At, Goto, Labels, Threads
  <2>3. CASE \E g \in AutoRunners :
               pc[g] = "idle" /\ pc' = [pc EXCEPT ![t] = "idle", ![g] = "readTime"]
    <3>1. PICK g \in AutoRunners :
            pc[g] = "idle" /\ pc' = [pc EXCEPT ![t] = "idle", ![g] = "readTime"]
      BY Zenon, <2>3
    <3>2. pc' \in [Threads -> Labels]
      BY <3>1, Zenon DEF Labels, Threads
    <3>3. \A u \in Threads : pc'[u] = pc[u] \/ {pc[u], pc'[u]} \cap Critical = {}
      BY <1>6, <3>1, Zenon DEF QueueTx, At
    <3>4. QED
      BY Zenon, <2>1, <3>2, <3>3
  <2>4. QED
    BY <1>6, <2>2, <2>3, Zenon DEF QueueTx
<1>7. ASSUME NEW t \in Threads, ReadLastBlockTime(t) \/ CallGetBlockTime(t) \/ ReadProposer(t)
      PROVE  MovesOutside /\ UNCHANGED guardedVars
  BY <1>7 DEF ReadLastBlockTime, CallGetBlockTime, ReadProposer, At, Goto, Labels
<1>8. QED
  BY Zenon, <1>2, <1>3, <1>4, <1>5, <1>6, <1>7

(* Nothing starts running before InitChain has been answered.              *)
LEMMA StartingInv ==
  ASSUME StateTypeOK, Starting, Next, ~InitChain
  PROVE  Starting'
<1> USE DEF StateTypeOK, GoroutineTypeOK, Starting
<1>1. CASE \E t \in Threads : RunBlock(t)
  BY <1>1, RunBlockMoves, Zenon DEF Threads
<1>2. CASE RunFirstBlock \/ StartServer
  BY <1>2, Zenon DEF RunFirstBlock, StartServer, At, Goto, Threads, processVars
<1>3. CASE ClockTick \/ RequestAdvanceTime \/ SetSigningStatus
  BY <1>3, Zenon DEF ClockTick, RequestAdvanceTime, SetSigningStatus, processVars
<1>4. ASSUME NEW t \in Threads, NEW n, NEW m, StartRuns(t, n, m) PROVE Starting'
  BY <1>4, Zenon DEF StartRuns, At, Goto, Threads
<1>5. ASSUME NEW t \in Handlers, Request(t) PROVE Starting'
  <2>1. CASE BroadcastTx(t)
    BY <2>1, ThreadsAreDistinct, Zenon DEF BroadcastTx, At, Goto, Threads
  <2>2. QED
    BY <1>4, <1>5, <2>1, Zenon DEF Request, AdvanceBlocks, CauseMisbehaviour, Threads
<1>6. ASSUME NEW t \in Handlers, QueueTx(t) PROVE Starting'
  <2>1. pc[Main] # "initChain" /\ pc[t] = "queueTx"
    BY <1>6, ThreadsAreDistinct, Zenon DEF QueueTx, At, Threads
  <2>2. pc'[Main] # "initChain"
    BY <1>6, <2>1, ThreadsAreDistinct, Zenon DEF QueueTx, Goto, Threads
  <2>3. QED
    BY Zenon, <2>2
<1>7. QED
  BY <1>1, <1>2, <1>3, <1>4, <1>5, <1>6, Zenon DEF Next, Step, RunBlock, Startup, ProduceBlock, Threads

-----------------------------------------------------------------------------
(* The theorems.                                                           *)

(* Every step of the system keeps the invariant.                           *)
LEMMA StepInv == StateTypeOK /\ StorageInv /\ [Next]_vars => StorageInv'
<1>1. ASSUME StateTypeOK, StorageInv, Next PROVE StorageInv'
  <2>1. CASE InitChain
    BY Zenon, <1>1, <2>1, InitChainInv
  <2>2. CASE ~InitChain
    <3>1. Starting'
      BY <1>1, <2>2, StartingInv, Zenon DEF StorageInv
    <3>2. Locks' /\ Stages' /\ Stores'
      <4>1. CASE \E t \in Threads : /\ RunBlock(t)
                                    /\ ~ReadLastBlockTime(t) /\ ~CallGetBlockTime(t) /\ ~ReadProposer(t)
        BY <1>1, <4>1, LockInv, ProposalInv, VotingInv, StoreBlockInv, ExecutionInv, Zenon
           DEF RunBlock, BlockStep
      <4>2. CASE MovesOutside /\ UNCHANGED guardedVars
        BY Zenon, <1>1, <4>2, OutsideInv
      <4>3. QED
        BY <1>1, <2>2, <4>1, <4>2, OutsideSteps, Zenon DEF Next, Step, RunBlock, Startup
    <3>3. QED
      BY <3>1, <3>2, Zenon DEF StorageInv
  <2>3. QED
    BY Zenon, <2>1, <2>2
<1>2. ASSUME StateTypeOK, StorageInv, UNCHANGED vars PROVE StorageInv'
  <2>1. MovesOutside /\ UNCHANGED guardedVars
    BY <1>2, Zenon DEF vars, processVars, chainVars, guardedVars, MovesOutside, StateTypeOK, GoroutineTypeOK
  <2>2. Starting'
    BY <1>2, Zenon DEF vars, processVars, StorageInv, Starting
  <2>3. QED
    BY <1>2, <2>1, <2>2, OutsideInv, Zenon DEF StorageInv
<1>3. QED
  BY Zenon, <1>1, <1>2

(* The invariant holds in every reachable state: in particular a goroutine *)
(* that runs a block is alone in doing so, and CurState describes          *)
(* LastBlock whenever the storage is unlocked.                             *)
THEOREM InvHolds == Spec => []StorageInv
BY InitInv, StepInv, StateTypeCorrect, PTL DEF Spec

(* The four maps agree at every height, and end at LastBlock.              *)
THEOREM StorageIsConsistent == Spec => []StoresAgree
<1>1. StorageInv => StoresAgree
  BY Zenon DEF StorageInv, Stores
<1>2. QED
  BY <1>1, InvHolds, PTL

(* Each stored block names the one below it as its parent.                 *)
THEOREM StorageIsAChain == Spec => []BlocksLinked
<1>1. StorageInv => BlocksLinked
  BY Zenon DEF StorageInv, Stores
<1>2. QED
  BY <1>1, InvHolds, PTL

(* Each stored commit has a quorum of the validators of its height.        *)
THEOREM StoredCommitsHaveQuorum == Spec => []CommitsHaveQuorum
<1>1. StorageInv => CommitsHaveQuorum
  BY Zenon DEF StorageInv, Stores
<1>2. QED
  BY <1>1, InvHolds, PTL

(* Every step but StoreBlock leaves the maps of the storage alone.         *)
LEMMA OnlyStoreBlockWrites ==
  ASSUME StateTypeOK, Next, ~\E t \in Threads : StoreBlock(t)
  PROVE  UNCHANGED <<blocks, commits, states, responses>>
<1>1. CASE \E t \in Threads : RunBlock(t)
  <2>1. PICK t \in Threads : RunBlock(t)
    BY Zenon, <1>1
  <2>2. CASE ReadLastBlockTime(t) \/ CallGetBlockTime(t) \/ ReadProposer(t) \/ LockBlockMutex(t)
    BY <2>2, Zenon DEF ReadLastBlockTime, CallGetBlockTime, ReadProposer, LockBlockMutex, storageVars
  <2>3. CASE CheckTxs(t) \/ DecideProposal(t)
    BY <2>3, Zenon DEF CheckTxs, DecideProposal, storageVars
  <2>4. CASE ProcessProposal(t) \/ ExtendAndSignVote(t) \/ MakeExtendedCommit(t)
    BY <2>4, Zenon DEF ProcessProposal, ExtendAndSignVote, MakeExtendedCommit, storageVars
  <2>5. CASE SendFinalizeBlock(t) \/ UpdateStateFromBlock(t)
    BY <2>5, Zenon DEF SendFinalizeBlock, UpdateStateFromBlock, storageVars
  <2>6. CASE FireEvents(t) \/ SendCommit(t) \/ FinishBlock(t)
    BY <2>6, Zenon DEF FireEvents, EventsFired, EventsPanic, UnlockAfterStateUpdate, SendCommit,
       FinishBlock, storageVars
  <2>7. QED
    BY <2>1, <2>2, <2>3, <2>4, <2>5, <2>6, Zenon DEF RunBlock, BlockStep
<1>2. CASE InitChain
  BY <1>2, Zenon DEF InitChain, storageVars
<1>3. CASE UNCHANGED guardedVars
  BY <1>3, Zenon DEF guardedVars, storageVars
<1>4. QED
  BY <1>1, <1>2, <1>3, OutsideSteps, Zenon DEF Next, Step, RunBlock, Startup

(* Every step but StoreBlock leaves LastBlock alone.                       *)
LEMMA OnlyStoreBlockMovesTip ==
  ASSUME Next, ~\E t \in Threads : StoreBlock(t)
  PROVE  UNCHANGED LastBlock
<1>1. CASE \E t \in Threads : RunBlock(t)
  <2>1. PICK t \in Threads : RunBlock(t)
    BY Zenon, <1>1
  <2>2. CASE ReadLastBlockTime(t) \/ CallGetBlockTime(t) \/ ReadProposer(t) \/ LockBlockMutex(t)
    BY <2>2, Zenon DEF ReadLastBlockTime, CallGetBlockTime, ReadProposer, LockBlockMutex, chainVars
  <2>3. CASE CheckTxs(t) \/ DecideProposal(t)
    BY <2>3, Zenon DEF CheckTxs, DecideProposal, chainVars
  <2>4. CASE ProcessProposal(t) \/ ExtendAndSignVote(t) \/ MakeExtendedCommit(t)
    BY <2>4, Zenon DEF ProcessProposal, ExtendAndSignVote, MakeExtendedCommit, chainVars
  <2>5. CASE SendFinalizeBlock(t) \/ UpdateStateFromBlock(t) \/ FireEvents(t)
    BY <2>5, Zenon DEF SendFinalizeBlock, UpdateStateFromBlock, FireEvents, EventsFired, EventsPanic,
       chainVars
  <2>6. CASE SendCommit(t) \/ FinishBlock(t)
    BY <2>6, Zenon DEF SendCommit, FinishBlock, chainVars
  <2>7. QED
    BY <2>1, <2>2, <2>3, <2>4, <2>5, <2>6, Zenon DEF RunBlock, BlockStep
<1>2. CASE Startup
  BY <1>2, Zenon DEF Startup, InitChain, RunFirstBlock, StartServer, ProduceBlock, StartRuns, chainVars
<1>3. CASE ClockTick \/ RequestAdvanceTime \/ SetSigningStatus
  BY <1>3, Zenon DEF ClockTick, RequestAdvanceTime, SetSigningStatus, chainVars
<1>4. CASE \E t \in Handlers : Request(t) \/ QueueTx(t)
  BY <1>4, Zenon DEF Request, AdvanceBlocks, CauseMisbehaviour, StartRuns, BroadcastTx, QueueTx, chainVars
<1>5. QED
  BY <1>1, <1>2, <1>3, <1>4, Zenon DEF Next, Step, RunBlock

(* What a step leaves of the storage.                                      *)
StoresKept ==
  \A h \in DOMAIN blocks :
    /\ h \in DOMAIN blocks' /\ blocks'[h] = blocks[h]
    /\ h \in DOMAIN commits' /\ commits'[h] = commits[h]
    /\ h \in DOMAIN states' /\ states'[h] = states[h]
    /\ h \in DOMAIN responses' /\ responses'[h] = responses[h]

(* No step takes anything from the storage or changes it.                  *)
LEMMA StoresAreKept == Spec => [][StoresKept]_vars
<1>1. ASSUME StateTypeOK, StorageInv, Next PROVE StoresKept
  <2>0. /\ DOMAIN blocks = 1..LastBlock.height /\ DOMAIN commits = DOMAIN blocks
        /\ DOMAIN states = DOMAIN blocks /\ DOMAIN responses = DOMAIN blocks
    BY <1>1, Zenon DEF StorageInv, Stores, StoresAgree
  <2>1. CASE \E t \in Threads : StoreBlock(t)
    <3> DEFINE height == CurState.LastBlockHeight + 1
    <3>1. PICK t \in Threads : StoreBlock(t)
      BY Zenon, <2>1
    <3>2. CurState.LastBlockHeight = LastBlock.height /\ LastBlock.height \in Nat
      BY <1>1, <3>1, Zenon DEF StoreBlock, LockBeforeStateUpdate, StorageInv, Stages, StateOfLastBlock,
         StateTypeOK, ClientTypeOK, IsBlock
    <3>3. height \notin DOMAIN blocks
      BY <2>0, <3>2
    <3>4. /\ blocks' = Insert(blocks, height, block)
          /\ commits' = Insert(commits, height, LastCommit)
          /\ states' = Insert(states, height, CurState)
          /\ responses' = Insert(responses, height, res)
      BY <3>1, Zenon DEF StoreBlock, UpdateStores
    <3>5. QED
      BY <2>0, <3>3, <3>4, Zenon DEF Insert, StoresKept
  <2>2. CASE ~\E t \in Threads : StoreBlock(t)
    BY <1>1, <2>0, <2>2, OnlyStoreBlockWrites, Zenon DEF StoresKept
  <2>3. QED
    BY Zenon, <2>1, <2>2
<1>2. StateTypeOK /\ StorageInv /\ [Next]_vars => [StoresKept]_vars
  BY Zenon, <1>1
<1>3. QED
  BY <1>2, StateTypeCorrect, InvHolds, PTL DEF Spec

(* A stored height is never overwritten, whatever fails and is run again.  *)
THEOREM StorageIsAppendOnly == Spec => StoresAppendOnly
BY StoresAreKept DEF StoresAppendOnly, StoresKept

-----------------------------------------------------------------------------
(* Block production implements the abstract specification Ledger, and the  *)
(* applications only ever commit stored blocks, whatever fails.            *)

(* The initial state of block production is one of the ledger.             *)
LEMMA InitRefines == Init => L!Init
<1> SUFFICES ASSUME Init PROVE L!Init
  OBVIOUS
<1>1. LastBlock.height = 0 /\ blocks = <<>>
  BY Zenon DEF Init, EmptyBlock, StorageInit
<1>2. LedgerChain = <<>>
  BY <1>1 DEF LedgerChain
<1>3. CommittedIds = [c \in Clients |-> L!Tip]
  BY <1>1 DEF Init, CommittedIds, BlockId, EmptyBlock, L!Tip
<1>4. QED
  BY <1>1, <1>2, <1>3, Zenon DEF L!Init

-----------------------------------------------------------------------------
(* What the applications have executed and committed.                      *)

(* Nothing is committed before the first block.                            *)
LEMMA InitApps == Init => AppInv
<1> SUFFICES ASSUME Init PROVE AppInv
  OBVIOUS
<1>1. AppsFollowStores
  BY DEF Init, BlockId, EmptyBlock, AppsFollowStores
<1>2. \A t \in Threads : AppStage(pc[t])
  BY Zenon DEF Init, AppStage
<1>3. QED
  BY <1>1, <1>2, Zenon DEF AppInv

(* Only FinalizeBlock and Commit reach the applications.                   *)
LEMMA OnlyRequestsReachApps ==
  ASSUME Next, \A t \in Threads : ~SendFinalizeBlock(t) /\ ~SendCommit(t)
  PROVE  UNCHANGED apps
<1>1. CASE \E t \in Threads : RunBlock(t)
  <2>1. PICK t \in Threads : RunBlock(t)
    BY Zenon, <1>1
  <2>2. CASE ReadLastBlockTime(t) \/ CallGetBlockTime(t) \/ ReadProposer(t) \/ LockBlockMutex(t)
    BY <2>2, Zenon DEF ReadLastBlockTime, CallGetBlockTime, ReadProposer, LockBlockMutex
  <2>3. CASE CheckTxs(t) \/ DecideProposal(t)
    BY <2>3, Zenon DEF CheckTxs, DecideProposal
  <2>4. CASE ProcessProposal(t) \/ ExtendAndSignVote(t) \/ MakeExtendedCommit(t)
    BY <2>4, Zenon DEF ProcessProposal, ExtendAndSignVote, MakeExtendedCommit
  <2>5. CASE StoreBlock(t) \/ UpdateStateFromBlock(t) \/ FireEvents(t) \/ FinishBlock(t)
    BY <2>5, Zenon DEF StoreBlock, UpdateStateFromBlock, FireEvents, EventsFired, EventsPanic, FinishBlock
  <2>6. QED
    BY <2>1, <2>2, <2>3, <2>4, <2>5, Zenon DEF RunBlock, BlockStep
<1>2. CASE Startup
  BY <1>2, Zenon DEF Startup, InitChain, RunFirstBlock, StartServer, ProduceBlock, StartRuns
<1>3. CASE ClockTick \/ RequestAdvanceTime \/ SetSigningStatus
  BY <1>3, Zenon DEF ClockTick, RequestAdvanceTime, SetSigningStatus
<1>4. CASE \E t \in Handlers : Request(t) \/ QueueTx(t)
  BY <1>4, Zenon DEF Request, AdvanceBlocks, CauseMisbehaviour, StartRuns, BroadcastTx, QueueTx
<1>5. QED
  BY <1>1, <1>2, <1>3, <1>4, Zenon DEF Next, Step, RunBlock

(* A step that neither stores a block nor commits one.                     *)
LEMMA AppsFrame ==
  ASSUME AppsFollowStores, UNCHANGED blocks,
         \A c \in Clients : apps'[c].committed = apps[c].committed
  PROVE  AppsFollowStores'
BY Zenon DEF AppsFollowStores, BlockId

(* Outside runBlock_helper nothing of it can be disturbed.                 *)
LEMMA AppsOutside ==
  ASSUME AppInv, MovesOutside, UNCHANGED <<guardedVars, apps>>
  PROVE  AppInv'
<1>1. \A l : AppStage(l)' <=> AppStage(l)
  BY Zenon DEF guardedVars, helperVars, AppStage, BlockId
<1>2. ASSUME NEW t \in Threads PROVE AppStage(pc[t])'
  <2>1. CASE pc'[t] = pc[t]
    BY <1>1, <2>1, Zenon DEF AppInv
  <2>2. CASE pc'[t] \notin Critical
    BY <2>2, Zenon DEF AppStage, Critical
  <2>3. QED
    BY <2>1, <2>2, Zenon DEF MovesOutside
<1>3. QED
  BY <1>2, AppsFrame, Zenon DEF AppInv, guardedVars, storageVars

(* runBlock_helper returns.                                                *)
LEMMA AppsLeave ==
  ASSUME StateTypeOK, StorageInv, NEW t \in Threads, NEW outcome, Leave(t, outcome),
         pc[t] \in Critical, AppsFollowStores'
  PROVE  AppInv'
<1>1. /\ pc' = [pc EXCEPT ![t] = NextLabel(t, outcome)]
      /\ NextLabel(t, outcome) \notin Critical
  BY Zenon DEF Leave, Goto, NextLabel, Critical
<1>2. \A u \in Threads : pc'[u] \notin Critical
  BY <1>1, Exclusion, Zenon DEF StateTypeOK, GoroutineTypeOK, StorageInv
<1>3. \A u \in Threads : AppStage(pc[u])'
  BY <1>2, Zenon DEF AppStage, Critical
<1>4. QED
  BY <1>3, Zenon DEF AppInv

(* runBlock_helper goes on to another label.                               *)
LEMMA AppsContinue ==
  ASSUME StateTypeOK, StorageInv, NEW t \in Threads, NEW label \in Critical,
         pc' = [pc EXCEPT ![t] = label], \A u \in Threads \ {t} : pc[u] \notin Critical,
         AppStage(label)', AppsFollowStores'
  PROVE  AppInv'
<1>1. pc'[t] = label /\ \A u \in Threads \ {t} : pc'[u] \notin Critical
  BY Zenon DEF StateTypeOK, GoroutineTypeOK
<1>2. ASSUME NEW u \in Threads PROVE AppStage(pc[u])'
  <2>1. CASE u = t
    BY Zenon, <1>1, <2>1
  <2>2. CASE u # t
    BY <1>1, <2>2, Zenon DEF AppStage, Critical
  <2>3. QED
    BY Zenon, <2>1, <2>2
<1>3. QED
  BY <1>2, Zenon DEF AppInv

(* runBlock_helper until the block has a commit.                           *)
LEMMA AppsBeforeFinalize ==
  ASSUME StateTypeOK, StorageInv, AppInv, NEW t \in Threads, UNCHANGED apps,
         \/ LockBlockMutex(t) \/ CheckTxs(t) \/ DecideProposal(t) \/ ProcessProposal(t)
         \/ ExtendAndSignVote(t) \/ MakeExtendedCommit(t)
  PROVE  AppInv'
<1> DEFINE Early == {"checkTxs", "propose", "process", "sign", "finalize"}
<1>1. UNCHANGED storageVars
  BY Zenon DEF LockBlockMutex, CheckTxs, DecideProposal, ProcessProposal, ExtendAndSignVote,
     MakeExtendedCommit
<1>2. AppsFollowStores'
  BY <1>1, AppsFrame, Zenon DEF AppInv, storageVars
<1>3. \A label \in Early : AppStage(label)' /\ label \in Critical
  BY Zenon DEF AppStage, Critical
<1>4. CASE LockBlockMutex(t)
  <2>1. pc' = [pc EXCEPT ![t] = "checkTxs"] /\ \A u \in Threads \ {t} : pc[u] \notin Critical
    BY <1>4, ThreadsAreDistinct, Zenon DEF LockBlockMutex, Goto, StorageInv, Locks
  <2>2. QED
    BY Zenon, <1>2, <1>3, <2>1, AppsContinue
<1>5. CASE ~LockBlockMutex(t)
  <2>1. /\ pc[t] \in Critical
        /\ \/ \E outcome : Leave(t, outcome)
           \/ \E label \in Early : Continue(t, label)
    BY <1>5, Zenon DEF CheckTxs, DecideProposal, ProcessProposal, ExtendAndSignVote,
       MakeExtendedCommit, At, Critical
  <2>2. CASE \E outcome : Leave(t, outcome)
    BY Zenon, <1>2, <2>1, <2>2, AppsLeave
  <2>3. CASE \E label \in Early : Continue(t, label)
    <3>1. PICK label \in Early : Continue(t, label)
      BY Zenon, <2>3
    <3>2. pc' = [pc EXCEPT ![t] = label] /\ \A u \in Threads \ {t} : pc[u] \notin Critical
      BY <2>1, <3>1, Exclusion, Zenon DEF Continue, Goto, StorageInv
    <3>3. QED
      BY Zenon, <1>2, <1>3, <3>2, AppsContinue
  <2>4. QED
    BY Zenon, <2>1, <2>2, <2>3
<1>6. QED
  BY Zenon, <1>4, <1>5

(* FinalizeBlock moves what applications have executed, not what they      *)
(* have committed.                                                         *)
LEMMA AppsFinalize ==
  ASSUME StateTypeOK, StorageInv, AppInv, NEW t \in Threads, SendFinalizeBlock(t)
  PROVE  AppInv'
<1>1. /\ pc[t] = "finalize" /\ UNCHANGED storageVars
      /\ \/ Leave(t, "error") /\ \E S : apps' = Executed(S)
         \/ Continue(t, "store") /\ UNCHANGED block /\ apps' = Executed(Clients)
  BY Zenon DEF SendFinalizeBlock, At
<1>2. \A c \in Clients : apps[c] \in [finalized : Id, committed : Id]
  BY Zenon DEF StateTypeOK, EnvironmentTypeOK
<1>3. \A S, c : c \in Clients => Executed(S)[c].committed = apps[c].committed
  BY <1>2, Zenon DEF Executed
<1>4. AppsFollowStores'
  BY <1>1, <1>3, AppsFrame, Zenon DEF AppInv, storageVars
<1>5. CASE Leave(t, "error")
  BY <1>1, <1>4, <1>5, AppsLeave, Zenon DEF Critical
<1>6. CASE Continue(t, "store") /\ UNCHANGED block /\ apps' = Executed(Clients)
  <2>1. \A c \in Clients : Executed(Clients)[c].finalized = BlockId(block)
    BY <1>2, Zenon DEF Executed
  <2>2. AppStage("store")'
    BY <1>6, <2>1, Zenon DEF AppStage, BlockId
  <2>3. pc' = [pc EXCEPT ![t] = "store"] /\ \A u \in Threads \ {t} : pc[u] \notin Critical
    BY <1>1, <1>6, Exclusion, Zenon DEF Continue, Goto, StorageInv, Critical
  <2>4. QED
    BY <1>4, <2>2, <2>3, AppsContinue, Zenon DEF Critical
<1>7. QED
  BY Zenon, <1>1, <1>5, <1>6

(* StoreBlock adds a height that no application has committed.             *)
LEMMA AppsStore ==
  ASSUME StateTypeOK, StorageInv, AppInv, NEW t \in Threads, StoreBlock(t)
  PROVE  AppInv'
<1>1. /\ pc[t] = "store" /\ Continue(t, "updateState") /\ stateUpdateMutex = Free
      /\ LastBlock' = block /\ UNCHANGED <<block, apps>>
      /\ blocks' = Insert(blocks, CurState.LastBlockHeight + 1, block)
  BY Zenon DEF StoreBlock, At, LockBeforeStateUpdate, UpdateStores, helperVars
<1>2. /\ block.height = LastBlock.height + 1 /\ LastBlock.height \in Nat
      /\ CurState.LastBlockHeight = LastBlock.height
  BY <1>1, Zenon DEF StorageInv, Stages, Stage, StateOfLastBlock, StateTypeOK, ClientTypeOK, IsBlock
<1>3. DOMAIN blocks = 1..LastBlock.height
  BY Zenon DEF StorageInv, Stores, StoresAgree
<1>4. /\ DOMAIN blocks' = DOMAIN blocks \cup {LastBlock.height + 1}
      /\ \A h \in DOMAIN blocks : blocks'[h] = blocks[h]
  <2>1. LastBlock.height + 1 \notin DOMAIN blocks
    BY <1>2, <1>3
  <2>2. QED
    BY <1>1, <1>2, <2>1, Zenon DEF Insert
<1>5. AppsFollowStores'
  BY <1>1, <1>4, Zenon DEF AppInv, AppsFollowStores, BlockId
<1>6. \A c \in Clients : apps[c].committed.height < block.height
  <2>1. \A c \in Clients : apps[c].committed.height \in Nat
    BY Zenon DEF StateTypeOK, EnvironmentTypeOK, Id
  <2>2. \A c \in Clients : apps[c].committed.height > 0 => apps[c].committed.height \in 1..LastBlock.height
    BY <1>3, Zenon DEF AppInv, AppsFollowStores
  <2>3. QED
    BY <1>2, <2>1, <2>2
<1>7. AppStage("updateState")'
  <2>1. \A c \in Clients : apps[c].finalized = BlockId(block)
    BY <1>1, Zenon DEF AppInv, AppStage
  <2>2. QED
    BY <1>1, <1>6, <2>1, Zenon DEF AppStage, BlockId
<1>8. pc' = [pc EXCEPT ![t] = "updateState"] /\ \A u \in Threads \ {t} : pc[u] \notin Critical
  BY <1>1, Exclusion, Zenon DEF Continue, Goto, StorageInv, Critical
<1>9. QED
  BY <1>5, <1>7, <1>8, AppsContinue, Zenon DEF Critical

(* The update of CurState and fireEvents leave the applications alone.     *)
LEMMA AppsUpdate ==
  ASSUME StateTypeOK, StorageInv, AppInv, NEW t \in Threads, UpdateStateFromBlock(t) \/ FireEvents(t)
  PROVE  AppInv'
<1>1. /\ UNCHANGED <<LastBlock, blocks, apps>>
      /\ \/ pc[t] \in Critical /\ \E outcome : Leave(t, outcome)
         \/ pc[t] = "updateState" /\ Continue(t, "fireEvents") /\ UNCHANGED block
         \/ /\ pc[t] = "fireEvents" /\ Continue(t, "commit") /\ UNCHANGED block
            /\ remaining' = Clients
  BY Zenon DEF UpdateStateFromBlock, FireEvents, EventsFired, EventsPanic, UnlockAfterStateUpdate, At,
     chainVars, helperVars, Critical
<1>2. AppsFollowStores'
  BY <1>1, AppsFrame, Zenon DEF AppInv
<1>3. CASE pc[t] \in Critical /\ \E outcome : Leave(t, outcome)
  BY Zenon, <1>2, <1>3, AppsLeave
<1>4. ASSUME NEW label \in {"fireEvents", "commit"}, pc[t] \in {"updateState", "fireEvents"},
             Continue(t, label), UNCHANGED block, label = "commit" => remaining' = Clients
      PROVE  AppInv'
  <2>1. AppStage(label)'
    <3>1. /\ \A c \in Clients : /\ apps[c].finalized = BlockId(block)
                                /\ apps[c].committed.height < LastBlock.height
          /\ block = LastBlock
      BY <1>4, Zenon DEF AppInv, AppStage
    <3>2. QED
      BY <1>1, <1>4, <3>1, Zenon DEF AppStage, BlockId
  <2>2. pc' = [pc EXCEPT ![t] = label] /\ \A u \in Threads \ {t} : pc[u] \notin Critical
    BY <1>4, Exclusion, Zenon DEF Continue, Goto, StorageInv, Critical
  <2>3. QED
    BY <1>2, <2>1, <2>2, AppsContinue, Zenon DEF Critical
<1>5. QED
  BY Zenon, <1>1, <1>3, <1>4

(* Commit moves one application to the newest block.                       *)
LEMMA CommitMovesToTip ==
  ASSUME StateTypeOK, StorageInv, AppInv, NEW t \in Threads, SendCommit(t), ~UNCHANGED apps
  PROVE  \E c \in remaining :
           /\ c \in Clients /\ Continue(t, "commit")
           /\ apps[c].committed.height < LastBlock.height
           /\ apps' = [apps EXCEPT ![c].committed = BlockId(LastBlock)]
           /\ remaining' = remaining \ {c} /\ UNCHANGED block
<1>1. PICK c \in remaining : /\ apps' = [apps EXCEPT ![c].committed = apps[c].finalized]
                             /\ remaining' = remaining \ {c} /\ UNCHANGED block
                             /\ Continue(t, "commit") /\ pc[t] = "commit"
  BY Zenon DEF SendCommit, At
<1>2. /\ c \in Clients /\ apps[c].finalized = BlockId(LastBlock)
      /\ apps[c].committed.height < LastBlock.height
  BY <1>1, Zenon DEF AppInv, AppStage
<1>3. QED
  BY Zenon, <1>1, <1>2

(* Commit keeps the applications on the chain.                             *)
LEMMA AppsCommit ==
  ASSUME StateTypeOK, StorageInv, AppInv, NEW t \in Threads, SendCommit(t)
  PROVE  AppInv'
<1>1. pc[t] = "commit" /\ UNCHANGED <<LastBlock, storageVars>>
  BY Zenon DEF SendCommit, At, chainVars
<1>2. CASE UNCHANGED apps
  <2>1. AppsFollowStores'
    BY <1>1, <1>2, AppsFrame, Zenon DEF AppInv, storageVars
  <2>2. CASE Leave(t, "error")
    BY <1>1, <2>1, <2>2, AppsLeave, Zenon DEF Critical
  <2>3. CASE Continue(t, "commit") /\ remaining' \subseteq remaining /\ UNCHANGED block
    <3>1. AppStage("commit")'
      BY <1>1, <1>2, <2>3, Zenon DEF AppInv, AppStage, BlockId
    <3>2. pc' = [pc EXCEPT ![t] = "commit"] /\ \A u \in Threads \ {t} : pc[u] \notin Critical
      BY <1>1, <2>3, Exclusion, Zenon DEF Continue, Goto, StorageInv, Critical
    <3>3. QED
      BY <2>1, <3>1, <3>2, AppsContinue, Zenon DEF Critical
  <2>4. QED
    BY <2>2, <2>3, Zenon DEF SendCommit
<1>3. CASE ~UNCHANGED apps
  <2>1. PICK c \in remaining :
          /\ c \in Clients /\ Continue(t, "commit")
          /\ apps' = [apps EXCEPT ![c].committed = BlockId(LastBlock)]
          /\ remaining' = remaining \ {c} /\ UNCHANGED block
    BY Zenon, <1>3, CommitMovesToTip
  <2>2. /\ apps'[c].committed = BlockId(LastBlock) /\ apps'[c].finalized = apps[c].finalized
        /\ \A d \in Clients \ {c} : apps'[d] = apps[d]
    <3>1. apps \in [Clients -> [finalized : Id, committed : Id]]
      BY Zenon DEF StateTypeOK, EnvironmentTypeOK
    <3>2. QED
      BY <2>1, <3>1
  <2>3. LastBlock.height > 0 =>
          LastBlock.height \in DOMAIN blocks /\ blocks[LastBlock.height] = LastBlock
    <3>1. /\ LastBlock.height \in Nat /\ DOMAIN blocks = 1..LastBlock.height
          /\ LastBlock.height > 0 => LastBlock = blocks[LastBlock.height]
      BY Zenon DEF StorageInv, Stores, StoresAgree, StateTypeOK, ClientTypeOK, IsBlock
    <3>2. QED
      BY <3>1
  <2>4. AppsFollowStores'
    <3>1. BlockId(LastBlock).height = LastBlock.height
      BY Zenon DEF BlockId
    <3>2. UNCHANGED blocks /\ \A d : BlockId(blocks[d])' = BlockId(blocks[d])
      BY <1>1, Zenon DEF storageVars, BlockId
    <3>3. \A d \in Clients \ {c} :
            apps'[d].committed.height > 0 =>
              /\ apps'[d].committed.height \in DOMAIN blocks
              /\ apps'[d].committed = BlockId(blocks[apps'[d].committed.height])
      BY <2>2, Zenon DEF AppInv, AppsFollowStores
    <3>4. apps'[c].committed.height > 0 =>
              /\ apps'[c].committed.height \in DOMAIN blocks
              /\ apps'[c].committed = BlockId(blocks[apps'[c].committed.height])
      BY Zenon, <2>2, <2>3, <3>1
    <3>5. ASSUME NEW d \in Clients
          PROVE  apps'[d].committed.height > 0 =>
              /\ apps'[d].committed.height \in DOMAIN blocks
              /\ apps'[d].committed = BlockId(blocks[apps'[d].committed.height])
      BY Zenon, <3>3, <3>4
    <3>6. QED
      BY <3>2, <3>5, Zenon DEF AppsFollowStores, BlockId
  <2>5. AppStage("commit")'
    BY <1>1, <2>1, <2>2, Zenon DEF AppInv, AppStage, BlockId
  <2>6. pc' = [pc EXCEPT ![t] = "commit"] /\ \A u \in Threads \ {t} : pc[u] \notin Critical
    BY <1>1, <2>1, Exclusion, Zenon DEF Continue, Goto, StorageInv, Critical
  <2>7. QED
    BY <2>4, <2>5, <2>6, AppsContinue, Zenon DEF Critical
<1>4. QED
  BY Zenon, <1>2, <1>3

(* FinishBlock returns.                                                    *)
LEMMA AppsFinish ==
  ASSUME StateTypeOK, StorageInv, AppInv, NEW t \in Threads, FinishBlock(t)
  PROVE  AppInv'
<1>1. pc[t] \in Critical /\ Leave(t, "ok") /\ UNCHANGED <<apps, blocks>>
  BY Zenon DEF FinishBlock, At, Critical, storageVars
<1>2. AppsFollowStores'
  BY <1>1, AppsFrame, Zenon DEF AppInv
<1>3. QED
  BY Zenon, <1>1, <1>2, AppsLeave

(* Every step keeps the applications on the chain.                         *)
LEMMA StepApps == StateTypeOK /\ StorageInv /\ AppInv /\ [Next]_vars => AppInv'
<1>1. ASSUME StateTypeOK, StorageInv, AppInv, Next PROVE AppInv'
  <2>1. CASE \E t \in Threads : SendFinalizeBlock(t) \/ SendCommit(t)
    BY Zenon, <1>1, <2>1, AppsFinalize, AppsCommit
  <2>2. CASE ~\E t \in Threads : SendFinalizeBlock(t) \/ SendCommit(t)
    <3>0. UNCHANGED apps
      BY Zenon, <1>1, <2>2, OnlyRequestsReachApps
    <3>1. CASE InitChain
      <4>1. /\ pc' = pc \/ pc' = [pc EXCEPT ![Main] = "firstBlock"]
            /\ UNCHANGED blocks /\ pc[Main] = "initChain"
        BY <3>1, Zenon DEF InitChain, At, Goto, storageVars
      <4>2. \A t \in Threads : pc'[t] \notin Critical
        BY <1>1, <4>1 DEF StorageInv, Starting, Critical, StateTypeOK, GoroutineTypeOK
      <4>3. \A t \in Threads : AppStage(pc[t])'
        BY <4>2, Zenon DEF AppStage, Critical
      <4>4. QED
        BY <1>1, <3>0, <4>1, <4>3, AppsFrame, Zenon DEF AppInv
    <3>2. CASE \E t \in Threads : /\ RunBlock(t)
                                  /\ ~ReadLastBlockTime(t) /\ ~CallGetBlockTime(t) /\ ~ReadProposer(t)
      BY <1>1, <2>2, <3>0, <3>2, AppsBeforeFinalize, AppsStore, AppsUpdate, AppsFinish, Zenon
         DEF RunBlock, BlockStep
    <3>3. CASE MovesOutside /\ UNCHANGED guardedVars
      BY Zenon, <1>1, <3>0, <3>3, AppsOutside
    <3>4. QED
      BY <1>1, <3>1, <3>2, <3>3, OutsideSteps, Zenon DEF Next, Step, RunBlock, Startup
  <2>3. QED
    BY Zenon, <2>1, <2>2
<1>2. ASSUME StateTypeOK, AppInv, UNCHANGED vars PROVE AppInv'
  <2>1. MovesOutside /\ UNCHANGED <<guardedVars, apps>>
    BY <1>2, Zenon DEF vars, processVars, chainVars, guardedVars, MovesOutside, StateTypeOK, GoroutineTypeOK
  <2>2. QED
    BY Zenon, <1>2, <2>1, AppsOutside
<1>3. QED
  BY Zenon, <1>1, <1>2

-----------------------------------------------------------------------------
(* The theorems.                                                           *)

(* AppInv is inductive relative to StorageInv and the types.               *)
LEMMA AppInvHolds == Spec => []AppInv
BY InitApps, StepApps, InvHolds, StateTypeCorrect, PTL DEF Spec

(* No application ever commits anything but a stored block, although       *)
(* FinalizeBlock and Commit may fail for some applications only.           *)
THEOREM AppsStayOnChain == Spec => []AppsFollowStores
<1>1. AppInv => AppsFollowStores
  BY Zenon DEF AppInv
<1>2. QED
  BY <1>1, AppInvHolds, PTL

(* Before the first block LastBlock is the empty block.                    *)
GenesisTip == LastBlock.height = 0 => LastBlock.hash = 0

(* StoreBlock only ever puts a block of a positive height there.           *)
LEMMA GenesisTipHolds == Spec => []GenesisTip
<1>1. Init => GenesisTip
  <2>1. Init => LastBlock = EmptyBlock
    BY Zenon DEF Init
  <2>2. QED
    BY <2>1 DEF EmptyBlock, GenesisTip
<1>2. ASSUME StateTypeOK, StorageInv, GenesisTip, [Next]_vars PROVE GenesisTip'
  <2>1. CASE \E t \in Threads : StoreBlock(t)
    <3>1. PICK t \in Threads : StoreBlock(t)
      BY Zenon, <2>1
    <3>2. LastBlock' = block /\ pc[t] = "store"
      BY <3>1, Zenon DEF StoreBlock, At
    <3>3. block.height = CurState.LastBlockHeight + 1 /\ CurState.LastBlockHeight \in Nat
      BY <1>2, <3>2, Zenon DEF StorageInv, Stages, Stage, StateTypeOK, ClientTypeOK, State
    <3>4. block.height # 0
      BY <3>3
    <3>5. QED
      BY <3>2, <3>4, Zenon DEF GenesisTip
  <2>2. CASE UNCHANGED LastBlock
    BY <1>2, <2>2, Zenon DEF GenesisTip
  <2>3. QED
    BY <1>2, <2>1, <2>2, OnlyStoreBlockMovesTip, Zenon DEF vars, chainVars
<1>3. QED
  BY <1>1, <1>2, InvHolds, StateTypeCorrect, PTL DEF Spec

(* StoreBlock extends the ledger.                                          *)
LEMMA StoreRefines ==
  ASSUME StateTypeOK, StorageInv, StorageInv', GenesisTip, NEW t \in Threads, StoreBlock(t)
  PROVE  L!Extend
<1>1. /\ LastBlock' = block /\ stateUpdateMutex = Free /\ UNCHANGED apps /\ pc[t] = "store"
      /\ blocks' = Insert(blocks, CurState.LastBlockHeight + 1, block)
      /\ commits' = Insert(commits, CurState.LastBlockHeight + 1, LastCommit)
  BY Zenon DEF StoreBlock, At, LockBeforeStateUpdate, UpdateStores
<1>2. /\ block.height = LastBlock.height + 1 /\ LastBlock.height \in Nat
      /\ CurState.LastBlockHeight = LastBlock.height
  BY <1>1, Zenon DEF StorageInv, Stages, Stage, StateOfLastBlock, StateTypeOK, ClientTypeOK, IsBlock
<1>3. /\ DOMAIN blocks = 1..LastBlock.height /\ DOMAIN commits = DOMAIN blocks
      /\ DOMAIN blocks' = 1..LastBlock'.height
  BY Zenon DEF StorageInv, Stores, StoresAgree
<1>4. \A h \in DOMAIN blocks : blocks'[h] = blocks[h] /\ commits'[h] = commits[h]
  <2>1. LastBlock.height + 1 \notin DOMAIN blocks
    BY <1>2, <1>3
  <2>2. QED
    BY <1>1, <1>2, <1>3, <2>1, Zenon DEF Insert
<1>5. LastBlock.height + 1 \in DOMAIN blocks'
  BY <1>1, <1>2, <1>3
<1>6. DOMAIN LedgerChain' = 1..LastBlock'.height
  BY <1>3, Zenon DEF LedgerChain
<1>7. \A h \in 1..LastBlock.height : LedgerChain'[h] = LedgerChain[h]
  <2>1. \A h \in 1..LastBlock.height : h \in DOMAIN blocks'
    BY <1>1, <1>2, <1>3
  <2>2. QED
    BY <1>3, <1>4, <2>1, Zenon DEF LedgerChain
<1>8. /\ LedgerChain'[LastBlock'.height].parent = block.lastBlockID
      /\ LedgerChain'[LastBlock'.height].hash = block.hash
      /\ LedgerChain'[LastBlock'.height].commit = LastCommit
  BY <1>1, <1>2, <1>5, Zenon DEF LedgerChain, Insert
<1>9. block.lastBlockID = L!Tip.hash
  <2>1. block.lastBlockID = LastBlock.hash
    BY <1>1, Zenon DEF StorageInv, Stages, Stage, StateOfLastBlock
  <2>2. CASE LastBlock.height = 0
    BY <2>1, <2>2, Zenon DEF L!Tip, GenesisTip
  <2>3. CASE LastBlock.height # 0
    <3>1. LastBlock.height \in DOMAIN blocks /\ blocks[LastBlock.height] = LastBlock
      BY <1>2, <1>3, <2>3 DEF StorageInv, Stores, StoresAgree
    <3>2. QED
      BY <2>1, <2>3, <3>1, Zenon DEF L!Tip, LedgerChain
  <2>4. QED
    BY Zenon, <2>2, <2>3
<1>10. CertifiedBlock(LedgerChain'[LastBlock'.height])
  BY <1>1, <1>8, Zenon DEF CertifiedBlock, StorageInv, Stages, Stage, CurrentValidators
<1>11. QED
  BY <1>1, <1>2, <1>6, <1>7, <1>8, <1>9, <1>10, Zenon DEF L!Extend, CommittedIds

(* Commit moves one application to the tip of the ledger.                  *)
LEMMA CommitRefines ==
  ASSUME StateTypeOK, StorageInv, AppInv, GenesisTip, NEW t \in Threads, SendCommit(t)
  PROVE  [L!Next]_(L!ledgerVars)
<1>1. UNCHANGED <<LastBlock, blocks, commits>>
  BY Zenon DEF SendCommit, chainVars, storageVars
<1>2. UNCHANGED <<LastBlock.height, LedgerChain>>
  BY <1>1, Zenon DEF LedgerChain
<1>3. CASE UNCHANGED apps
  BY <1>2, <1>3, Zenon DEF L!ledgerVars, CommittedIds
<1>4. CASE ~UNCHANGED apps
  <2>1. PICK c \in Clients : /\ apps[c].committed.height < LastBlock.height
                             /\ apps' = [apps EXCEPT ![c].committed = BlockId(LastBlock)]
    BY Zenon, <1>4, CommitMovesToTip
  <2>2. apps \in [Clients -> [finalized : Id, committed : Id]]
    BY Zenon DEF StateTypeOK, EnvironmentTypeOK
  <2>3. CommittedIds' = [CommittedIds EXCEPT ![c] = BlockId(LastBlock)]
    <3>1. \A d \in Clients : apps'[d].committed = IF d = c THEN BlockId(LastBlock) ELSE apps[d].committed
      BY <2>1, <2>2
    <3>2. QED
      BY <3>1, Zenon DEF CommittedIds
  <2>4. LastBlock.height \in DOMAIN blocks /\ blocks[LastBlock.height] = LastBlock
    <3>1. /\ LastBlock.height \in Nat /\ DOMAIN blocks = 1..LastBlock.height
          /\ LastBlock.height > 0 => LastBlock = blocks[LastBlock.height]
      BY Zenon DEF StorageInv, Stores, StoresAgree, StateTypeOK, ClientTypeOK, IsBlock
    <3>2. apps[c].committed.height \in Nat
      BY <2>2, Zenon DEF Id
    <3>3. QED
      BY <2>1, <3>1, <3>2
  <2>5. LastBlock.height # 0 /\ LedgerChain[LastBlock.height].hash = LastBlock.hash
    <3>1. LastBlock.height # 0
      BY <2>4 DEF StorageInv, Stores, StoresAgree
    <3>2. QED
      BY <2>4, <3>1, Zenon DEF LedgerChain
  <2>6. BlockId(LastBlock) = L!Tip
    BY <2>5, Zenon DEF BlockId, L!Tip
  <2>7. CommittedIds[c].height < LastBlock.height
    BY <2>1, Zenon DEF CommittedIds
  <2>8. L!Commit(c)
    BY <1>2, <2>3, <2>6, <2>7, Zenon DEF L!Commit
  <2>9. QED
    BY <2>8, Zenon DEF L!Next
<1>5. QED
  BY Zenon, <1>3, <1>4

(* A step of block production is a step of the ledger, or invisible to it. *)
LEMMA StepRefines ==
  ASSUME StateTypeOK, StorageInv, StorageInv', AppInv, GenesisTip, [Next]_vars
  PROVE  [L!Next]_(L!ledgerVars)
<1>1. CASE \E t \in Threads : StoreBlock(t)
  BY <1>1, StoreRefines, Zenon DEF L!Next
<1>2. CASE \E t \in Threads : SendCommit(t)
  BY Zenon, <1>2, CommitRefines
<1>3. CASE Next /\ ~\E t \in Threads : StoreBlock(t) \/ SendCommit(t)
  <2>1. UNCHANGED <<LastBlock, blocks, commits>>
    BY Zenon, <1>3, OnlyStoreBlockMovesTip, OnlyStoreBlockWrites
  <2>2. \A c \in Clients : apps'[c].committed = apps[c].committed
    <3>1. CASE \E t \in Threads : SendFinalizeBlock(t)
      <4>1. \E S : apps' = Executed(S)
        BY <3>1, Zenon DEF SendFinalizeBlock
      <4>2. \A c \in Clients : apps[c] \in [finalized : Id, committed : Id]
        BY Zenon DEF StateTypeOK, EnvironmentTypeOK
      <4>3. QED
        BY <4>1, <4>2, Zenon DEF Executed
    <3>2. CASE ~\E t \in Threads : SendFinalizeBlock(t)
      BY Zenon, <1>3, <3>2, OnlyRequestsReachApps
    <3>3. QED
      BY Zenon, <3>1, <3>2
  <2>3. QED
    BY <2>1, <2>2, Zenon DEF L!ledgerVars, LedgerChain, CommittedIds
<1>4. CASE UNCHANGED vars
  BY <1>4, Zenon DEF vars, chainVars, storageVars, L!ledgerVars, LedgerChain, CommittedIds
<1>5. QED
  BY Zenon, <1>1, <1>2, <1>3, <1>4

(* Block production implements the ledger: the steps of the goroutines,    *)
(* whatever order they come in and wherever RunBlock fails, are steps of   *)
(* the abstract specification or invisible to it.                          *)
THEOREM ImplementsLedger == Spec => RefinesLedger
BY StepRefines, InitRefines, StateTypeCorrect, InvHolds, AppInvHolds, GenesisTipHolds, PTL
   DEF Spec, RefinesLedger, L!Spec

-----------------------------------------------------------------------------
(* The tip of the chain, as goroutines see it that take no lock: requests  *)
(* are served only after the first block.                                  *)

(* Until CurState is the state after a block, a goroutine that has run one *)
(* has failed to: main then crashes instead of starting the server.        *)
LEMMA RunBlockUnstarted ==
  ASSUME StateTypeOK, Unstarted, NEW t \in Threads, RunBlock(t),
         ~(UpdateStateFromBlock(t) /\ UpdateAllowed)
  PROVE  Unstarted'
<1> DEFINE Later == {"queueTx", "readTime", "getTime", "readProposer", "fireEvents", "commit"}
<1>0. pc \in [Threads -> Labels] /\ Main \in Threads
  BY Zenon DEF StateTypeOK, GoroutineTypeOK, Threads
<1>1. ASSUME ~crashed, NEW label, label \notin Later, label # "startServer",
             pc' = [pc EXCEPT ![t] = label], UNCHANGED <<serving, crashed>>
      PROVE  Unstarted'
  BY <1>0, <1>1, Zenon DEF Unstarted
<1>2. ASSUME ~crashed, NEW outcome \in {"error", "panic"}, Leave(t, outcome)
      PROVE  Unstarted'
  <2>1. /\ pc' = [pc EXCEPT ![t] = NextLabel(t, outcome)] /\ UNCHANGED serving
        /\ NextLabel(t, outcome) \notin Later
    BY <1>2, Zenon DEF Leave, Goto, NextLabel
  <2>2. t = Main => crashed'
    BY <1>2, ThreadsAreDistinct, Zenon DEF Leave
  <2>3. QED
    BY <1>0, <1>2, <2>1, <2>2, Zenon DEF Unstarted
<1>3. ASSUME ~crashed, NEW label, label \notin Later, label # "startServer", Continue(t, label)
      PROVE  Unstarted'
  BY <1>1, <1>3, Zenon DEF Continue, Goto, processVars
<1>4. CASE ReadLastBlockTime(t) \/ CallGetBlockTime(t) \/ ReadProposer(t) \/ FireEvents(t)
             \/ SendCommit(t) \/ FinishBlock(t)
  BY <1>4, Zenon DEF ReadLastBlockTime, CallGetBlockTime, ReadProposer, FireEvents, EventsFired,
     EventsPanic, SendCommit, FinishBlock, At, Unstarted
<1>5. CASE LockBlockMutex(t)
  BY <1>1, <1>5, Zenon DEF LockBlockMutex, At, Goto
<1>6. CASE CheckTxs(t) \/ DecideProposal(t)
  BY <1>2, <1>3, <1>6, Zenon DEF CheckTxs, DecideProposal, At
<1>7. CASE ProcessProposal(t) \/ ExtendAndSignVote(t) \/ MakeExtendedCommit(t)
  BY <1>2, <1>3, <1>7, Zenon DEF ProcessProposal, ExtendAndSignVote, MakeExtendedCommit, At
<1>8. CASE SendFinalizeBlock(t) \/ StoreBlock(t) \/ UpdateStateFromBlock(t)
  BY <1>2, <1>3, <1>8, Zenon DEF SendFinalizeBlock, StoreBlock, UpdateStateFromBlock, At
<1>9. QED
  BY <1>4, <1>5, <1>6, <1>7, <1>8, Zenon DEF RunBlock, BlockStep

(* Nothing else changes that: requests need the server.                    *)
LEMMA OthersUnstarted ==
  ASSUME StateTypeOK, Unstarted, Next, ~\E t \in Threads : RunBlock(t)
  PROVE  Unstarted'
<1>0. pc \in [Threads -> Labels] /\ Main \in Threads /\ Handlers \subseteq Threads
  BY Zenon DEF StateTypeOK, GoroutineTypeOK, Threads
<1>1. CASE InitChain \/ RunFirstBlock
  <2>1. /\ ~crashed /\ UNCHANGED serving
        /\ \/ UNCHANGED pc /\ crashed'
           \/ pc' = [pc EXCEPT ![Main] = "firstBlock"] /\ UNCHANGED crashed
           \/ pc' = [pc EXCEPT ![Main] = "lock"] /\ UNCHANGED crashed
    BY <1>1, Zenon DEF InitChain, RunFirstBlock, At, Goto, processVars
  <2>2. QED
    BY <1>0, <2>1 DEF Unstarted
<1>2. CASE StartServer \/ ProduceBlock \/ RequestAdvanceTime \/ SetSigningStatus
  BY <1>2, Zenon DEF StartServer, ProduceBlock, StartRuns, RequestAdvanceTime, SetSigningStatus, At,
     Unstarted
<1>3. CASE ClockTick
  BY <1>3, Zenon DEF ClockTick, processVars, Unstarted
<1>4. ASSUME NEW t \in Handlers, Request(t) \/ QueueTx(t) PROVE Unstarted'
  BY <1>0, <1>4, Zenon DEF Request, AdvanceBlocks, CauseMisbehaviour, StartRuns, BroadcastTx, QueueTx,
     At, Unstarted
<1>5. QED
  BY <1>1, <1>2, <1>3, <1>4, Zenon DEF Next, Step, Startup, RunBlock

(* Only UpdateStateFromBlock changes the height and the time of CurState.  *)
LEMMA OnlyUpdateMovesState ==
  ASSUME StateTypeOK, Next, ~\E t \in Threads : UpdateStateFromBlock(t) /\ UpdateAllowed
  PROVE  /\ CurState'.LastBlockHeight = CurState.LastBlockHeight
         /\ CurState'.LastBlockTime = CurState.LastBlockTime
<1>1. CASE \E t \in Threads : RunBlock(t)
  <2>1. PICK t \in Threads : RunBlock(t)
    BY Zenon, <1>1
  <2>2. CASE FinishBlock(t)
    BY <2>2, Zenon DEF FinishBlock, StateTypeOK, ClientTypeOK, State
  <2>3. CASE ReadLastBlockTime(t) \/ CallGetBlockTime(t) \/ ReadProposer(t) \/ LockBlockMutex(t)
    BY <2>3, Zenon DEF ReadLastBlockTime, CallGetBlockTime, ReadProposer, LockBlockMutex, chainVars
  <2>4. CASE CheckTxs(t) \/ DecideProposal(t)
    BY <2>4, Zenon DEF CheckTxs, DecideProposal, chainVars
  <2>5. CASE ProcessProposal(t) \/ ExtendAndSignVote(t) \/ MakeExtendedCommit(t)
    BY <2>5, Zenon DEF ProcessProposal, ExtendAndSignVote, MakeExtendedCommit, chainVars
  <2>6. CASE SendFinalizeBlock(t) \/ StoreBlock(t) \/ UpdateStateFromBlock(t)
    BY <2>1, <2>6, Zenon DEF SendFinalizeBlock, StoreBlock, UpdateStateFromBlock, chainVars
  <2>7. CASE FireEvents(t) \/ SendCommit(t)
    BY <2>7, Zenon DEF FireEvents, EventsFired, EventsPanic, SendCommit, chainVars
  <2>8. QED
    BY <2>1, <2>2, <2>3, <2>4, <2>5, <2>6, <2>7, Zenon DEF RunBlock, BlockStep
<1>2. CASE InitChain
  BY <1>2, Zenon DEF InitChain, UpdateStateFromInit, StateTypeOK, ClientTypeOK, State
<1>3. CASE UNCHANGED guardedVars
  BY <1>3, Zenon DEF guardedVars
<1>4. QED
  BY <1>1, <1>2, <1>3, OutsideSteps, Zenon DEF Next, Step, RunBlock, Startup

(* StoreBlock puts the block that is being run on top of the others.       *)
LEMMA StoreAppends ==
  ASSUME StateTypeOK, StorageInv, NEW t \in Threads, StoreBlock(t)
  PROVE  /\ LastBlock' = block /\ block.height = LastBlock.height + 1
         /\ CurState.LastBlockHeight = LastBlock.height /\ UNCHANGED CurState
         /\ DOMAIN blocks' = DOMAIN blocks \cup {LastBlock.height + 1}
         /\ blocks'[LastBlock.height + 1] = block
         /\ \A h \in DOMAIN blocks : blocks'[h] = blocks[h]
<1>1. /\ pc[t] = "store" /\ stateUpdateMutex = Free /\ LastBlock' = block /\ UNCHANGED CurState
      /\ blocks' = Insert(blocks, CurState.LastBlockHeight + 1, block)
  BY Zenon DEF StoreBlock, At, LockBeforeStateUpdate, UpdateStores
<1>2. CurState.LastBlockHeight = LastBlock.height
  BY <1>1, Zenon DEF StorageInv, Stages, StateOfLastBlock
<1>3. block.height = LastBlock.height + 1
  BY <1>1, <1>2, Zenon DEF StorageInv, Stages, Stage
<1>4. LastBlock.height \in Nat /\ DOMAIN blocks = 1..LastBlock.height
  BY Zenon DEF StateTypeOK, ClientTypeOK, IsBlock, StorageInv, Stores, StoresAgree
<1>5. LastBlock.height + 1 \notin DOMAIN blocks
  BY <1>4
<1>6. QED
  BY <1>1, <1>2, <1>3, <1>5, Zenon DEF Insert

(* The tip of the chain is as every reader of CurState and LastBlock may   *)
(* assume.                                                                 *)
LEMMA TipInvHolds == Spec => []TipInv
<1>1. Init => TipInv
  <2>1. Init => /\ pc = [t \in Threads |-> IF t = Main THEN "initChain" ELSE "idle"]
                /\ serving = FALSE
    BY Zenon DEF Init
  <2>2. Init => Unstarted
    BY <2>1 DEF Unstarted, Threads
  <2>3. Init => LastBlock.height = 0 /\ CurState.LastBlockHeight = 0
    BY DEF Init, EmptyBlock, GenesisState
  <2>4. QED
    BY <2>2, <2>3 DEF TipInv
<1>2. ASSUME StateTypeOK, StorageInv, TipInv, [Next]_vars PROVE TipInv'
  <2>0. CurState.LastBlockHeight \in Nat /\ LastBlock.height \in Nat
    BY <1>2, Zenon DEF StateTypeOK, ClientTypeOK, State, IsBlock
  <2>1. CASE \E t \in Threads : StoreBlock(t)
    <3>1. PICK t \in Threads : StoreBlock(t)
      BY Zenon, <2>1
    <3>2. /\ LastBlock' = block /\ block.height = LastBlock.height + 1
          /\ CurState.LastBlockHeight = LastBlock.height /\ UNCHANGED CurState
          /\ \A h \in DOMAIN blocks : blocks'[h] = blocks[h]
      BY <1>2, <3>1, StoreAppends, Zenon
    <3>3. Unstarted => Unstarted'
      BY <1>2, <3>1, RunBlockUnstarted, Zenon DEF RunBlock, BlockStep, StoreBlock, UpdateStateFromBlock, At
    <3>4. CurState.LastBlockHeight > 0 => CurState.LastBlockHeight \in DOMAIN blocks
      BY <1>2, <2>0, <3>2 DEF StorageInv, Stores, StoresAgree
    <3>5. QED
      BY <1>2, <2>0, <3>2, <3>3, <3>4 DEF TipInv
  <2>2. CASE \E t \in Threads : UpdateStateFromBlock(t) /\ UpdateAllowed
    <3>1. PICK t \in Threads : UpdateStateFromBlock(t) /\ UpdateAllowed
      BY Zenon, <2>2
    <3>2. /\ pc[t] = "updateState" /\ UNCHANGED <<LastBlock, blocks>>
          /\ \E next : CurState' = UpdateState(next)
      BY <3>1, Zenon DEF UpdateStateFromBlock, At
    <3>3. CurState'.LastBlockHeight = block.height /\ CurState'.LastBlockTime = block.time
      BY <3>2 DEF UpdateState
    <3>4. block = LastBlock /\ block.height = CurState.LastBlockHeight + 1
      BY <1>2, <3>2, Zenon DEF StorageInv, Stages, Stage
    <3>5. LastBlock = blocks[LastBlock.height]
      BY <1>2, <2>0, <3>4 DEF StorageInv, Stores, StoresAgree
    <3>6. QED
      BY <2>0, <3>2, <3>3, <3>4, <3>5 DEF TipInv
  <2>3. CASE /\ Next /\ ~\E t \in Threads : StoreBlock(t)
             /\ ~\E t \in Threads : UpdateStateFromBlock(t) /\ UpdateAllowed
    <3>1. UNCHANGED <<LastBlock, blocks>>
      BY <1>2, <2>3, OnlyStoreBlockMovesTip, OnlyStoreBlockWrites, Zenon
    <3>2. /\ CurState'.LastBlockHeight = CurState.LastBlockHeight
          /\ CurState'.LastBlockTime = CurState.LastBlockTime
      BY <1>2, <2>3, OnlyUpdateMovesState, Zenon
    <3>3. Unstarted => Unstarted'
      BY <1>2, <2>3, RunBlockUnstarted, OthersUnstarted, Zenon
    <3>4. QED
      BY <1>2, <3>1, <3>2, <3>3, Zenon DEF TipInv
  <2>4. CASE UNCHANGED vars
    BY <1>2, <2>4, Zenon DEF vars, chainVars, processVars, storageVars, TipInv, Unstarted
  <2>5. QED
    BY <1>2, <2>1, <2>2, <2>3, <2>4, Zenon
<1>3. QED
  BY <1>1, <1>2, InvHolds, StateTypeCorrect, PTL DEF Spec

(* The height of CurState never goes back.                                 *)
LEMMA StateGrows ==
  ASSUME StateTypeOK, StorageInv, [Next]_vars
  PROVE  CurState.LastBlockHeight \in Nat /\ CurState'.LastBlockHeight \in Nat
         /\ CurState.LastBlockHeight <= CurState'.LastBlockHeight
<1>1. CurState.LastBlockHeight \in Nat
  BY Zenon DEF StateTypeOK, ClientTypeOK, State
<1>2. CASE \E t \in Threads : UpdateStateFromBlock(t) /\ UpdateAllowed
  <2>1. PICK t \in Threads : UpdateStateFromBlock(t) /\ UpdateAllowed
    BY Zenon, <1>2
  <2>2. pc[t] = "updateState" /\ \E next : CurState' = UpdateState(next)
    BY <2>1, Zenon DEF UpdateStateFromBlock, At
  <2>3. CurState'.LastBlockHeight = block.height
    BY <2>2 DEF UpdateState
  <2>4. block.height = CurState.LastBlockHeight + 1
    BY <2>2, Zenon DEF StorageInv, Stages, Stage
  <2>5. QED
    BY <1>1, <2>3, <2>4
<1>3. CASE CurState'.LastBlockHeight = CurState.LastBlockHeight
  BY <1>1, <1>3
<1>4. QED
  BY <1>2, <1>3, OnlyUpdateMovesState, Zenon DEF vars, chainVars

-----------------------------------------------------------------------------
(* What the refinement says of a single step: the chain grows, and the     *)
(* applications are always on it.                                          *)

(* The block of the chain at a height, with none before the first one.     *)
IdAt(h) == [height |-> h, hash |-> IF h = 0 THEN 0 ELSE blocks[h].hash]
OnChain(id) == id.height \in 0..LastBlock.height /\ id = IdAt(id.height)

AppsOnChain == \A c \in Clients : OnChain(apps[c].committed)

(* Commit reaches the applications one after the other: a step takes one   *)
(* of them to the newest block, or none anywhere.                          *)
OneCommits ==
  \/ \A d \in Clients : apps'[d].committed = apps[d].committed
  \/ \E c \in Clients : /\ apps'[c].committed = IdAt(LastBlock.height)
                       /\ apps[c].committed.height < LastBlock.height
                       /\ LastBlock'.height = LastBlock.height
                       /\ \A d \in Clients \ {c} : apps'[d].committed = apps[d].committed

(* The chain grows and the applications move along it.                     *)
ChainGrows == /\ LastBlock.height \in Nat /\ LastBlock'.height \in Nat
              /\ LastBlock.height <= LastBlock'.height
              /\ \A h \in 1..LastBlock.height : blocks'[h] = blocks[h]
              /\ OneCommits

(* A step of the ledger does that.                                         *)
LEMMA LedgerStep ==
  ASSUME StateTypeOK, StateTypeOK', StoresAgree, [StoresKept]_vars, [L!Next]_(L!ledgerVars)
  PROVE  ChainGrows
<1>1. LastBlock.height \in Nat /\ LastBlock'.height \in Nat
  BY Zenon DEF StateTypeOK, ClientTypeOK, IsBlock
<1>2. \A h \in 1..LastBlock.height : blocks'[h] = blocks[h]
  BY Zenon DEF StoresAgree, StoresKept, vars, storageVars
<1>3. ASSUME UNCHANGED CommittedIds, NEW d \in Clients PROVE apps'[d].committed = apps[d].committed
  <2>1. CommittedIds'[d] = CommittedIds[d]
    BY <1>3
  <2>2. QED
    BY <2>1, Zenon DEF CommittedIds
<1>4. CASE L!Extend
  <2>1. LastBlock'.height = LastBlock.height + 1 /\ UNCHANGED CommittedIds
    BY <1>4, Zenon DEF L!Extend
  <2>2. LastBlock.height <= LastBlock'.height
    BY <1>1, <2>1
  <2>3. QED
    BY <1>1, <1>2, <1>3, <2>1, <2>2, Zenon DEF ChainGrows, OneCommits
<1>5. CASE \E c \in Clients : L!Commit(c)
  <2>1. PICK c \in Clients : L!Commit(c)
    BY <1>5, Zenon
  <2>2. /\ CommittedIds[c].height < LastBlock.height /\ LastBlock'.height = LastBlock.height
        /\ CommittedIds' = [CommittedIds EXCEPT ![c] = L!Tip]
    BY <2>1, Zenon DEF L!Commit
  <2>3. \A d \in Clients : CommittedIds'[d] = IF d = c THEN L!Tip ELSE CommittedIds[d]
    BY <2>2 DEF CommittedIds
  <2>4. \A d \in Clients : CommittedIds[d] = apps[d].committed /\ CommittedIds'[d] = apps'[d].committed
    BY Zenon DEF CommittedIds
  <2>5. L!Tip = IdAt(LastBlock.height)
    <3>1. LastBlock.height # 0 => LastBlock.height \in DOMAIN blocks
      BY <1>1 DEF StoresAgree
    <3>2. LastBlock.height # 0 => LedgerChain[LastBlock.height].hash = blocks[LastBlock.height].hash
      BY <3>1, Zenon DEF LedgerChain
    <3>3. QED
      BY <3>2, Zenon DEF L!Tip, IdAt
  <2>6. OneCommits
    <3>1. apps'[c].committed = IdAt(LastBlock.height) /\ apps[c].committed.height < LastBlock.height
      BY <2>2, <2>3, <2>4, <2>5, Zenon
    <3>2. \A d \in Clients \ {c} : apps'[d].committed = apps[d].committed
      BY <2>3, <2>4, Zenon
    <3>3. QED
      BY <2>2, <3>1, <3>2, Zenon DEF OneCommits
  <2>7. LastBlock.height <= LastBlock'.height
    BY <1>1, <2>2
  <2>8. QED
    BY <1>1, <1>2, <2>6, <2>7, Zenon DEF ChainGrows
<1>6. CASE UNCHANGED L!ledgerVars
  <2>1. LastBlock'.height = LastBlock.height /\ UNCHANGED CommittedIds
    BY <1>6, Zenon DEF L!ledgerVars
  <2>2. LastBlock.height <= LastBlock'.height
    BY <1>1, <2>1
  <2>3. QED
    BY <1>1, <1>2, <1>3, <2>1, <2>2, Zenon DEF ChainGrows, OneCommits
<1>7. QED
  BY <1>4, <1>5, <1>6, Zenon DEF L!Next

(* A block of the chain stays one.                                         *)
LEMMA OnChainStays ==
  ASSUME ChainGrows, NEW id, OnChain(id)
  PROVE  OnChain(id)'
<1>1. id.height \in 0..LastBlock.height /\ id = IdAt(id.height)
  BY Zenon DEF OnChain
<1>2. id.height \in 0..LastBlock'.height
  BY <1>1 DEF ChainGrows
<1>3. id.height # 0 => id.height \in 1..LastBlock.height
  BY <1>1 DEF ChainGrows
<1>4. id.height # 0 => blocks'[id.height] = blocks[id.height]
  BY <1>3, Zenon DEF ChainGrows
<1>5. IdAt(id.height)' = IdAt(id.height)
  BY <1>4, Zenon DEF IdAt
<1>6. QED
  BY <1>1, <1>2, <1>5, Zenon DEF OnChain

(* The applications are always at blocks of the chain.                     *)
LEMMA AppsOnChainHolds == Spec => []AppsOnChain
<1>1. Init => AppsOnChain
  <2> SUFFICES ASSUME Init, NEW c \in Clients PROVE OnChain(apps[c].committed)
    BY Zenon DEF AppsOnChain
  <2>1. LastBlock.height = 0 /\ apps[c].committed = [height |-> 0, hash |-> 0]
    BY DEF Init, EmptyBlock, BlockId
  <2>2. QED
    BY <2>1 DEF OnChain, IdAt
<1>2. ASSUME AppsOnChain, ChainGrows PROVE AppsOnChain'
  <2>1. ASSUME NEW id, OnChain(id) PROVE OnChain(id)'
    BY <1>2, <2>1, OnChainStays
  <2>2. ASSUME NEW c \in Clients, NEW id, apps'[c].committed = id, OnChain(id)' PROVE OnChain(apps[c].committed)'
    BY <2>2, Zenon DEF OnChain, IdAt
  <2>3. OnChain(IdAt(LastBlock.height))
    <3>1. IdAt(LastBlock.height).height = LastBlock.height
      BY Zenon DEF IdAt
    <3>2. LastBlock.height \in 0..LastBlock.height
      BY <1>2 DEF ChainGrows
    <3>3. QED
      BY <3>1, <3>2, Zenon DEF OnChain
  <2>4. ASSUME NEW c \in Clients PROVE \E id : apps'[c].committed = id /\ OnChain(id)
    BY <1>2, <2>3, Zenon DEF AppsOnChain, ChainGrows, OneCommits
  <2>5. QED
    BY <2>1, <2>2, <2>4, Zenon DEF AppsOnChain
<1>3. ASSUME StateTypeOK, StateTypeOK', StorageInv, StorageInv', AppInv, GenesisTip, AppsOnChain, [StoresKept]_vars, [Next]_vars
      PROVE  AppsOnChain'
  BY <1>2, <1>3, StepRefines, LedgerStep, Zenon DEF StorageInv, Stores
<1>4. Spec => [][StoresKept]_vars
  BY StoresAreKept
<1>5. QED
  BY <1>1, <1>3, <1>4, StateTypeCorrect, InvHolds, AppInvHolds, GenesisTipHolds, PTL DEF Spec
=============================================================================
