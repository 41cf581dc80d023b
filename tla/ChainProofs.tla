---------------------------- MODULE ChainProofs -----------------------------
(***************************************************************************)
(* What a block and its state take over from the ones below them: the      *)
(* validators, the commit, the application hash, and whom evidence may     *)
(* accuse.  HistoryInv is inductive relative to the invariants of the      *)
(* storage and of the applications.  Then what becomes of a broadcast      *)
(* transaction, whatever the applications answer and whichever goroutines  *)
(* run blocks: how often an entry occurs in what the loops over the queues *)
(* return, and that every step keeps TxInv.                                *)
(***************************************************************************)
EXTENDS StorageProofs, FiniteSetTheorems

(* Nothing is stored and nothing is running.                               *)
LEMMA InitHistory == Init => HistoryInv
<1> SUFFICES ASSUME Init PROVE HistoryInv
  OBVIOUS
<1>1. /\ LastBlock.height = 0 /\ blocks = <<>> /\ states = <<>>
      /\ \A t \in Threads : pc[t] \in {"initChain", "idle"}
  BY Zenon DEF Init, EmptyBlock, StorageInit
<1>2. Parents
  BY <1>1 DEF Parents, ParentStage, ParentAtRest, CurStateFollows, ParentCommit, ParentHash
<1>3. Heredity
  BY <1>1 DEF Heredity, StatesFollow, EvidenceNamesASigner, LastCommitIsStored, AppHashOfParent
<1>4. QED
  BY <1>1, <1>2, <1>3, Zenon DEF HistoryInv, NothingBeforeInitChain

(* A step that does not write to the storage keeps what it holds.          *)
LEMMA HeredityFrame ==
  ASSUME Heredity, UNCHANGED <<blocks, commits, states, responses>>
  PROVE  Heredity'
BY Zenon DEF Heredity, StatesFollow, Follows, EvidenceNamesASigner, LastCommitIsStored, AppHashOfParent

(* No block is stored before main has an answer to InitChain.              *)
LEMMA MainStarts ==
  ASSUME StateTypeOK, StorageInv, NothingBeforeInitChain, Next
  PROVE  NothingBeforeInitChain'
<1> USE DEF StateTypeOK, GoroutineTypeOK, NothingBeforeInitChain
<1>1. CASE \E t \in Threads : StoreBlock(t)
  <2>1. PICK t \in Threads : pc[t] = "store" /\ pc' = [pc EXCEPT ![t] = "updateState"]
    BY <1>1, Zenon DEF StoreBlock, At, Continue, Goto
  <2>2. pc[Main] # "initChain"
    BY <2>1, Zenon DEF StorageInv, Starting
  <2>3. pc'[Main] # "initChain"
    BY <2>1, <2>2, Zenon DEF Threads
  <2>4. QED
    BY Zenon, <2>3
<1>2. CASE ~\E t \in Threads : StoreBlock(t)
  <2>0. UNCHANGED LastBlock
    BY Zenon, <1>2, OnlyStoreBlockMovesTip
  <2>1. pc'[Main] = "initChain" => pc[Main] = "initChain"
    <3>0. Main \in Threads /\ Main \notin Handlers /\ Main \notin AutoRunners
      BY ThreadsAreDistinct, Zenon DEF Threads
    <3>1. CASE \E t \in Threads : RunBlock(t)
      BY <3>0, <3>1, RunBlockMoves, Zenon
    <3>2. CASE Startup
      BY <3>0, <3>2, Zenon DEF Startup, InitChain, RunFirstBlock, StartServer, ProduceBlock, StartRuns,
         At, Goto
    <3>3. CASE ClockTick \/ RequestAdvanceTime \/ SetSigningStatus
      BY <3>3, Zenon DEF ClockTick, RequestAdvanceTime, SetSigningStatus
    <3>4. CASE \E t \in Handlers : Request(t) \/ QueueTx(t)
      <4>1. PICK t \in Handlers : Request(t) \/ QueueTx(t)
        BY Zenon, <3>4
      <4>2. pc'[Main] = pc[Main]
        BY <3>0, <4>1, Zenon DEF Request, AdvanceBlocks, CauseMisbehaviour, StartRuns, BroadcastTx,
           QueueTx, Goto
      <4>3. QED
        BY Zenon, <4>2
    <3>5. QED
      BY <3>1, <3>2, <3>3, <3>4, Zenon DEF Next, Step, RunBlock
  <2>2. QED
    BY Zenon, <2>0, <2>1
<1>3. QED
  BY Zenon, <1>1, <1>2

-----------------------------------------------------------------------------
(* Moves of a goroutine.                                                   *)

(* Outside runBlock_helper nothing of it can be disturbed.                 *)
LEMMA ParentsOutside ==
  ASSUME Parents, MovesOutside, UNCHANGED guardedVars
  PROVE  Parents'
<1>0. UNCHANGED <<blockMutex, helperVars, CurState, LastBlock, LastCommit, storageVars>>
  BY Zenon DEF guardedVars
<1>1. \A l : ParentStage(l)' <=> ParentStage(l)
  <2>1. /\ ParentCommit(LastCommit)' <=> ParentCommit(LastCommit)
        /\ ParentCommit(block.lastCommit)' <=> ParentCommit(block.lastCommit)
        /\ ParentHash(CurState.AppHash)' <=> ParentHash(CurState.AppHash)
    BY <1>0, Zenon DEF helperVars, storageVars, ParentCommit, ParentHash, StoresReadable
  <2>2. /\ Accuses(block.evidence)' <=> Accuses(block.evidence)
        /\ Follows(CurState, LastBlock.height)' <=> Follows(CurState, LastBlock.height)
    BY <1>0, Zenon DEF helperVars, storageVars, Accuses, StoredValidators, Follows
  <2>3. QED
    BY <1>0, <2>1, <2>2, Zenon DEF helperVars, storageVars, ParentStage
<1>2. ASSUME NEW t \in Threads PROVE ParentStage(pc[t])'
  <2>1. CASE pc'[t] = pc[t]
    BY <1>1, <2>1, Zenon DEF Parents
  <2>2. CASE pc'[t] \notin Critical
    BY <2>2, Zenon DEF ParentStage, Critical
  <2>3. QED
    BY <2>1, <2>2, Zenon DEF MovesOutside
<1>3. ParentAtRest' /\ CurStateFollows'
  BY <1>0, Zenon DEF storageVars, Parents, ParentAtRest, CurStateFollows, ParentCommit, ParentHash,
     Follows, StoresReadable
<1>4. QED
  BY <1>2, <1>3, Zenon DEF Parents

(* runBlock_helper returns.                                                *)
LEMMA ParentsLeave ==
  ASSUME StateTypeOK, StorageInv, NEW t \in Threads, NEW outcome, Leave(t, outcome),
         pc[t] \in Critical, ParentAtRest', CurStateFollows'
  PROVE  Parents'
<1>1. /\ pc' = [pc EXCEPT ![t] = NextLabel(t, outcome)]
      /\ NextLabel(t, outcome) \notin Critical
  BY Zenon DEF Leave, Goto, NextLabel, Critical
<1>2. \A u \in Threads : pc'[u] \notin Critical
  BY <1>1, Exclusion, Zenon DEF StateTypeOK, GoroutineTypeOK, StorageInv
<1>3. \A u \in Threads : ParentStage(pc[u])'
  BY <1>2, Zenon DEF ParentStage, Critical
<1>4. QED
  BY <1>3, Zenon DEF Parents

(* runBlock_helper goes on to another label, with blockMutex held.         *)
LEMMA ParentsContinue ==
  ASSUME StateTypeOK, StorageInv, NEW t \in Threads, NEW label \in Critical,
         Continue(t, label), pc[t] \in Critical,
         ParentStage(label)', CurStateFollows'
  PROVE  Parents'
<1>0. /\ pc' = [pc EXCEPT ![t] = label] /\ blockMutex' = t
      /\ \A u \in Threads \ {t} : pc[u] \notin Critical
  BY Exclusion, Zenon DEF Continue, Goto, processVars, StorageInv, Locks
<1>1. pc'[t] = label /\ \A u \in Threads \ {t} : pc'[u] \notin Critical
  BY <1>0, Zenon DEF StateTypeOK, GoroutineTypeOK
<1>2. ASSUME NEW u \in Threads PROVE ParentStage(pc[u])'
  <2>1. CASE u = t
    BY Zenon, <1>1, <2>1
  <2>2. CASE u # t
    BY <1>1, <2>2, Zenon DEF ParentStage, Critical
  <2>3. QED
    BY Zenon, <2>1, <2>2
<1>3. ParentAtRest'
  BY <1>0, ThreadsAreDistinct, Zenon DEF ParentAtRest
<1>4. QED
  BY <1>2, <1>3, Zenon DEF Parents

-----------------------------------------------------------------------------
(* Steps of runBlock_helper.                                               *)

(* blockMutex.Lock(): what holds at rest holds for the next block.         *)
LEMMA ParentsLock ==
  ASSUME StateTypeOK, StorageInv, Parents, NEW t \in Threads, LockBlockMutex(t)
  PROVE  Parents'
<1>1. /\ pc[t] = "lock" /\ blockMutex = Free /\ blockMutex' = t
      /\ pc' = [pc EXCEPT ![t] = "checkTxs"]
      /\ UNCHANGED <<CurState, LastBlock, LastCommit, storageVars>>
  BY Zenon DEF LockBlockMutex, At, Goto, chainVars
<1>2. /\ pc'[t] = "checkTxs"
      /\ \A u \in Threads \ {t} : pc'[u] \notin Critical
  BY <1>1, ThreadsAreDistinct, Zenon DEF StorageInv, Locks, StateTypeOK, GoroutineTypeOK
<1>3. ParentCommit(LastCommit)' /\ ParentHash(CurState.AppHash)'
  BY <1>1, Zenon DEF Parents, ParentAtRest, ParentCommit, ParentHash, StoresReadable, storageVars
<1>4. ASSUME NEW u \in Threads PROVE ParentStage(pc[u])'
  <2>1. CASE u = t
    BY <1>2, <1>3, <2>1, Zenon DEF ParentStage
  <2>2. CASE u # t
    BY <1>2, <2>2, Zenon DEF ParentStage, Critical
  <2>3. QED
    BY Zenon, <2>1, <2>2
<1>5. ParentAtRest'
  BY <1>3, Zenon DEF ParentAtRest
<1>6. CurStateFollows'
  BY <1>1, Zenon DEF Parents, CurStateFollows, Follows, StoresReadable, storageVars
<1>7. QED
  BY <1>4, <1>5, <1>6, Zenon DEF Parents

(* A stage before FinalizeBlock that fails leaves LastCommit and AppHash   *)
(* as they are, and so does the one after it that goes on.                 *)
LEMMA ParentsFrame ==
  ASSUME Parents, UNCHANGED <<CurState, LastBlock, LastCommit, storageVars>>
  PROVE  /\ CurStateFollows'
         /\ ParentCommit(LastCommit) => ParentCommit(LastCommit)'
         /\ ParentHash(CurState.AppHash) => ParentHash(CurState.AppHash)'
         /\ UNCHANGED block /\ ParentCommit(block.lastCommit) => ParentCommit(block.lastCommit)'
         /\ UNCHANGED block /\ Accuses(block.evidence) => Accuses(block.evidence)'
BY Zenon DEF Parents, CurStateFollows, Follows, ParentCommit, ParentHash, Accuses, StoredValidators,
   StoresReadable, storageVars

(* CheckTxs and DecideProposal: the block carries LastCommit, AppHash and  *)
(* evidence whose votes were validated against the stored state.           *)
LEMMA ParentsProposal ==
  ASSUME StateTypeOK, StorageInv, Parents, NEW t \in Threads, CheckTxs(t) \/ DecideProposal(t)
  PROVE  Parents'
<1>1. /\ pc[t] \in {"checkTxs", "propose"}
      /\ UNCHANGED <<CurState, LastBlock, LastCommit, storageVars>>
      /\ \/ \E outcome : Leave(t, outcome)
         \/ Continue(t, "propose")
         \/ /\ Continue(t, "process") /\ \E txs : block' = CreateProposalBlock(t, txs)
            /\ ~EvidencePanics(misbehaviour[t]) /\ ~EvidenceFails(misbehaviour[t])
  BY Zenon DEF CheckTxs, DecideProposal, At, chainVars
<1>2. pc[t] \in Critical /\ ParentCommit(LastCommit) /\ ParentHash(CurState.AppHash)
  BY <1>1, Zenon DEF Parents, ParentStage, Critical
<1>3. ParentCommit(LastCommit)' /\ ParentHash(CurState.AppHash)' /\ CurStateFollows'
  BY Zenon, <1>1, <1>2, ParentsFrame
<1>4. CASE \E outcome : Leave(t, outcome)
  <2>1. ParentAtRest'
    BY <1>3, Zenon DEF ParentAtRest
  <2>2. QED
    BY Zenon, <1>2, <1>3, <1>4, <2>1, ParentsLeave
<1>5. CASE Continue(t, "propose")
  <2>1. ParentStage("propose")'
    BY <1>3, Zenon DEF ParentStage
  <2>2. QED
    BY <1>2, <1>3, <1>5, <2>1, ParentsContinue, Zenon DEF Critical
<1>6. CASE /\ Continue(t, "process") /\ \E txs : block' = CreateProposalBlock(t, txs)
           /\ ~EvidencePanics(misbehaviour[t]) /\ ~EvidenceFails(misbehaviour[t])
  <2>1. /\ block'.lastCommit = LastCommit' /\ block'.appHash = CurState'.AppHash
        /\ block'.evidence = misbehaviour[t]
    BY <1>1, <1>6 DEF CreateProposalBlock
  <2>2. ParentCommit(block.lastCommit)'
    BY <1>3, <2>1, Zenon DEF ParentCommit
  <2>3. Accuses(block.evidence)'
    BY <1>1, <1>6, <2>1, Zenon DEF EvidencePanics, EvidenceFails, Accuses, StoredValidators, storageVars
  <2>4. ParentStage("process")'
    BY <1>3, <2>1, <2>2, <2>3, Zenon DEF ParentStage
  <2>5. QED
    BY <1>2, <1>3, <1>6, <2>4, ParentsContinue, Zenon DEF Critical
<1>7. QED
  BY Zenon, <1>1, <1>4, <1>5, <1>6

(* While the block is voted on it stays as it is.  MakeExtendedCommit      *)
(* replaces LastCommit and goes on, or panics with blockMutex held.        *)
LEMMA ParentsVoting ==
  ASSUME StateTypeOK, StorageInv, Parents, NEW t \in Threads,
         ProcessProposal(t) \/ ExtendAndSignVote(t) \/ MakeExtendedCommit(t)
  PROVE  Parents'
<1>1. /\ pc[t] \in {"process", "sign"}
      /\ UNCHANGED <<CurState, LastBlock, storageVars>>
      /\ \/ \E outcome : Leave(t, outcome) /\ UNCHANGED LastCommit
         \/ Leave(t, "panic")
         \/ Continue(t, "sign") /\ UNCHANGED <<block, LastCommit>>
         \/ Continue(t, "finalize") /\ UNCHANGED block
  BY Zenon DEF ProcessProposal, ExtendAndSignVote, MakeExtendedCommit, At, chainVars, helperVars
<1>2. /\ pc[t] \in Critical /\ ParentCommit(LastCommit) /\ ParentHash(CurState.AppHash)
      /\ ParentCommit(block.lastCommit) /\ block.appHash = CurState.AppHash
      /\ Accuses(block.evidence)
  BY <1>1, Zenon DEF Parents, ParentStage, Critical
<1>3. CurStateFollows' /\ ParentHash(CurState.AppHash)'
  BY <1>1, <1>2, Zenon DEF Parents, CurStateFollows, Follows, ParentHash, StoresReadable, storageVars
<1>4. UNCHANGED block => /\ ParentCommit(block.lastCommit)' /\ block'.appHash = CurState'.AppHash
                         /\ Accuses(block.evidence)'
  BY <1>1, <1>2, Zenon DEF ParentCommit, Accuses, StoredValidators, storageVars
<1>5. UNCHANGED LastCommit => ParentCommit(LastCommit)'
  BY <1>1, <1>2, Zenon DEF ParentCommit, storageVars
<1>6. CASE \E outcome : Leave(t, outcome) /\ UNCHANGED LastCommit
  <2>1. ParentAtRest'
    BY <1>3, <1>5, <1>6, Zenon DEF ParentAtRest
  <2>2. QED
    BY Zenon, <1>2, <1>3, <1>6, <2>1, ParentsLeave
<1>7. CASE Leave(t, "panic")
  <2>1. ParentAtRest'
    BY <1>7, ThreadsAreDistinct, Zenon DEF Leave, MutexAfter, ParentAtRest
  <2>2. QED
    BY Zenon, <1>2, <1>3, <1>7, <2>1, ParentsLeave
<1>8. CASE Continue(t, "sign") /\ UNCHANGED <<block, LastCommit>>
  <2>1. ParentStage("sign")'
    BY <1>3, <1>4, <1>5, <1>8, Zenon DEF ParentStage
  <2>2. QED
    BY <1>2, <1>3, <1>8, <2>1, ParentsContinue, Zenon DEF Critical
<1>9. CASE Continue(t, "finalize") /\ UNCHANGED block
  <2>1. ParentStage("finalize")'
    BY <1>3, <1>4, <1>9, Zenon DEF ParentStage
  <2>2. QED
    BY <1>2, <1>3, <1>9, <2>1, ParentsContinue, Zenon DEF Critical
<1>10. QED
  BY Zenon, <1>1, <1>6, <1>7, <1>8, <1>9

(* FinalizeBlock: only if applications may fail it does LastCommit run     *)
(* ahead of the storage, and then to the height of the block that failed.  *)
LEMMA ParentsFinalize ==
  ASSUME StateTypeOK, StorageInv, Parents, NEW t \in Threads, SendFinalizeBlock(t)
  PROVE  Parents'
<1>1. /\ pc[t] = "finalize" /\ UNCHANGED <<CurState, LastBlock, LastCommit, storageVars>>
      /\ \/ "failFinalizeBlock" \in AppMay /\ Leave(t, "error")
         \/ Continue(t, "store") /\ UNCHANGED block
  BY Zenon DEF SendFinalizeBlock, At, chainVars
<1>2. /\ pc[t] \in Critical /\ ParentHash(CurState.AppHash)
      /\ ParentCommit(block.lastCommit) /\ block.appHash = CurState.AppHash
      /\ Accuses(block.evidence)
  BY <1>1, Zenon DEF Parents, ParentStage, Critical
<1>3. CurStateFollows' /\ ParentHash(CurState.AppHash)'
  BY Zenon, <1>1, <1>2, ParentsFrame
<1>4. CASE "failFinalizeBlock" \in AppMay /\ Leave(t, "error")
  <2>1. LastCommit.height = CurState.LastBlockHeight + 1
    BY <1>1, Zenon DEF StorageInv, Stages, Stage
  <2>2. ParentCommit(LastCommit)'
    BY <1>1, <1>4, <2>1, Zenon DEF ParentCommit, FailedAttempt
  <2>3. ParentAtRest'
    BY <1>3, <2>2, Zenon DEF ParentAtRest
  <2>4. QED
    BY Zenon, <1>2, <1>3, <1>4, <2>3, ParentsLeave
<1>5. CASE Continue(t, "store") /\ UNCHANGED block
  <2>1. ParentCommit(block.lastCommit)' /\ Accuses(block.evidence)' /\ block'.appHash = CurState'.AppHash
    BY Zenon, <1>1, <1>2, <1>5, ParentsFrame
  <2>2. ParentStage("store")'
    BY <1>3, <2>1, Zenon DEF ParentStage
  <2>3. QED
    BY <1>2, <1>3, <1>5, <2>2, ParentsContinue, Zenon DEF Critical
<1>6. QED
  BY Zenon, <1>1, <1>4, <1>5

(* StoreBlock puts the block on top of LastBlock and its state on top of   *)
(* the state that it follows.                                              *)
LEMMA HistoryStore ==
  ASSUME StateTypeOK, StorageInv, Parents, Heredity, NEW t \in Threads, StoreBlock(t)
  PROVE  Parents' /\ Heredity'
<1> DEFINE H == LastBlock.height
<1>1. /\ pc[t] = "store" /\ Continue(t, "updateState")
      /\ stateUpdateMutex = Free /\ stateUpdateMutex' = t
      /\ LastBlock' = block /\ UNCHANGED <<block, res, CurState, LastCommit>>
  BY Zenon DEF StoreBlock, At, LockBeforeStateUpdate, helperVars
<1>2. CurState.LastBlockHeight = H /\ H \in Nat /\ block.height = H + 1
  BY <1>1, Zenon DEF StorageInv, Stages, Stage, StateOfLastBlock, StateTypeOK, ClientTypeOK, IsBlock
<1>3. /\ DOMAIN blocks = 1..H /\ DOMAIN commits = 1..H /\ DOMAIN states = 1..H /\ DOMAIN responses = 1..H
      /\ H > 0 => LastBlock = blocks[H]
  BY Zenon DEF StorageInv, Stores, StoresAgree
<1>4. /\ blocks' = Insert(blocks, H + 1, block) /\ commits' = Insert(commits, H + 1, LastCommit)
      /\ states' = Insert(states, H + 1, CurState) /\ responses' = Insert(responses, H + 1, res)
  BY <1>2, Zenon DEF StoreBlock, UpdateStores
<1>5. H + 1 \notin 1..H
  BY <1>2
<1>6. /\ DOMAIN blocks' = (1..H) \cup {H + 1} /\ DOMAIN states' = (1..H) \cup {H + 1}
      /\ blocks'[H + 1] = block /\ commits'[H + 1] = LastCommit
      /\ states'[H + 1] = CurState /\ responses'[H + 1] = res
      /\ \A h \in 1..H : /\ blocks'[h] = blocks[h] /\ commits'[h] = commits[h]
                         /\ states'[h] = states[h] /\ responses'[h] = responses[h]
  BY <1>3, <1>4, <1>5, Zenon DEF Insert
<1>7. /\ ParentCommit(block.lastCommit) /\ ParentHash(block.appHash) /\ Accuses(block.evidence)
      /\ H > 0 => Follows(CurState, H)
  <2>1. /\ ParentCommit(block.lastCommit) /\ ParentHash(CurState.AppHash)
        /\ Accuses(block.evidence) /\ block.appHash = CurState.AppHash
    BY <1>1, Zenon DEF Parents, ParentStage
  <2>2. QED
    BY <1>1, <2>1, Zenon DEF Parents, CurStateFollows, StoresReadable
<1> HIDE DEF H
<1>8. Parents'
  <2>1. LastBlock'.height = H + 1
    BY Zenon, <1>1, <1>2
  <2>2. ParentStage("updateState")'
    BY <1>1, <1>6, <2>1, Zenon DEF ParentStage
  <2>3. CurStateFollows'
    BY <1>1, ThreadsAreDistinct, Zenon DEF CurStateFollows, StoresReadable
  <2>4. QED
    BY <1>1, <2>2, <2>3, ParentsContinue, Zenon DEF Critical
<1>9. \A h \in DOMAIN blocks' : h > 1 => h \in 1..H \/ (h = H + 1 /\ H > 0 /\ h - 1 = H)
  BY <1>2, <1>6
<1>10. \A h \in 1..H : h > 1 => h - 1 \in 1..H
  BY <1>2
<1>11. H > 0 => H \in 1..H
  BY <1>2
<1>12. StatesFollow'
  <2> SUFFICES ASSUME NEW h \in DOMAIN states', h + 1 \in DOMAIN states'
               PROVE  Follows(states[h + 1], h)'
    BY Zenon DEF StatesFollow
  <2>1. \/ h \in 1..H /\ h + 1 \in 1..H
        \/ h = H /\ H > 0
    BY <1>2, <1>6
  <2>2. CASE h \in 1..H /\ h + 1 \in 1..H
    <3>1. Follows(states[h + 1], h)
      BY <1>3, <2>2, Zenon DEF Heredity, StatesFollow
    <3>2. QED
      BY <1>6, <2>2, <3>1, Zenon DEF Follows
  <2>3. CASE h = H /\ H > 0
    BY <1>6, <1>7, <1>11, <2>3, Zenon DEF Follows
  <2>4. QED
    BY Zenon, <2>1, <2>2, <2>3
<1>13. EvidenceNamesASigner'
  <2> SUFFICES ASSUME NEW h \in DOMAIN blocks', h > 1, blocks'[h].evidence # NoMisbehaviour,
                      blocks'[h].evidence.type = "DuplicateVote"
               PROVE  blocks'[h].evidence.address \in Members(states'[h - 1].Validators.power)
    BY Zenon DEF EvidenceNamesASigner
  <2>1. CASE h \in 1..H
    BY <1>3, <1>6, <1>10, <2>1, Zenon DEF Heredity, EvidenceNamesASigner
  <2>2. CASE h = H + 1 /\ H > 0 /\ h - 1 = H
    BY <1>6, <1>7, <1>11, <2>2, Zenon DEF Accuses, StoredValidators, H
  <2>3. QED
    BY Zenon, <1>9, <2>1, <2>2
<1>14. LastCommitIsStored'
  <2> SUFFICES ASSUME NEW h \in DOMAIN blocks', h > 1
               PROVE  \/ blocks'[h].lastCommit = commits'[h - 1]
                      \/ FailedAttempt(blocks'[h].lastCommit, h)
    BY Zenon DEF LastCommitIsStored
  <2>1. CASE h \in 1..H
    BY <1>3, <1>6, <1>10, <2>1, Zenon DEF Heredity, LastCommitIsStored
  <2>2. CASE h = H + 1 /\ H > 0 /\ h - 1 = H
    BY <1>2, <1>6, <1>7, <1>11, <2>2, Zenon DEF ParentCommit, H
  <2>3. QED
    BY Zenon, <1>9, <2>1, <2>2
<1>15. AppHashOfParent'
  <2> SUFFICES ASSUME NEW h \in DOMAIN blocks', h > 1
               PROVE  blocks'[h].appHash = blocks'[h - 1].hash \/ Uncommitted(blocks'[h].appHash)
    BY Zenon DEF AppHashOfParent
  <2>1. CASE h \in 1..H
    BY <1>3, <1>6, <1>10, <2>1, Zenon DEF Heredity, AppHashOfParent
  <2>2. CASE h = H + 1 /\ H > 0 /\ h - 1 = H
    BY <1>1, <1>3, <1>6, <1>7, <1>11, <2>2, Zenon DEF ParentHash, StoresReadable, H
  <2>3. QED
    BY Zenon, <1>9, <2>1, <2>2
<1>16. QED
  BY <1>8, <1>12, <1>13, <1>14, <1>15, Zenon DEF Heredity

(* UpdateState makes the state that follows the stored one.  If it refuses *)
(* the updates, or fireEvents panics, the storage stays locked.            *)
LEMMA ParentsUpdate ==
  ASSUME StateTypeOK, StorageInv, Parents, NEW t \in Threads, UpdateStateFromBlock(t) \/ FireEvents(t)
  PROVE  Parents'
<1>1. UNCHANGED <<LastBlock, LastCommit, blocks, commits, states, responses>>
  BY Zenon DEF UpdateStateFromBlock, FireEvents, EventsFired, EventsPanic, UnlockAfterStateUpdate,
     chainVars
<1>2. /\ pc[t] \in {"updateState", "fireEvents"} /\ pc[t] \in Critical
      /\ ParentCommit(LastCommit)' /\ LastCommit' = commits'[LastBlock'.height]
  <2>1. pc[t] \in {"updateState", "fireEvents"}
    BY Zenon DEF UpdateStateFromBlock, FireEvents, EventsFired, EventsPanic, At
  <2>2. LastCommit = commits[LastBlock.height]
    BY <2>1, Zenon DEF Parents, ParentStage
  <2>3. QED
    BY <1>1, <2>1, <2>2, Zenon DEF Critical, ParentCommit
<1>3. CASE (\E outcome : Leave(t, outcome)) /\ stateUpdateMutex' = Leaked
  <2>1. ParentAtRest' /\ CurStateFollows'
    BY <1>2, <1>3, ThreadsAreDistinct, Zenon DEF ParentAtRest, CurStateFollows, ParentHash, StoresReadable
  <2>2. QED
    BY Zenon, <1>2, <1>3, <2>1, ParentsLeave
<1>4. CASE /\ pc[t] = "updateState" /\ Continue(t, "fireEvents") /\ UNCHANGED stateUpdateMutex
           /\ \E next \in WithProposer(UpdateWithChangeSet(CurState.NextValidators.power, res.updates)) :
                CurState' = UpdateState(next)
  <2>1. CurState = states[LastBlock.height] /\ res = responses[LastBlock.height] /\ stateUpdateMutex = t
    BY <1>4, Zenon DEF Parents, ParentStage, StorageInv, Locks
  <2>2. PICK next \in WithProposer(UpdateWithChangeSet(CurState.NextValidators.power, res.updates)) :
          CurState' = UpdateState(next)
    BY Zenon, <1>4
  <2>3. next.power = UpdateWithChangeSet(CurState.NextValidators.power, res.updates)
    BY DEF WithProposer
  <2>4. Follows(CurState, LastBlock.height)' /\ CurState'.AppHash = NoHash
    BY <1>1, <2>1, <2>2, <2>3 DEF Follows, UpdateState
  <2>5. ParentStage("fireEvents")'
    BY <1>2, <2>4, Zenon DEF ParentStage
  <2>6. CurStateFollows'
    BY <2>4, Zenon DEF CurStateFollows
  <2>7. QED
    BY <1>2, <1>4, <2>5, <2>6, ParentsContinue, Zenon DEF Critical
<1>5. CASE pc[t] = "fireEvents" /\ Continue(t, "commit") /\ UNCHANGED CurState
  <2>1. Follows(CurState, LastBlock.height) /\ CurState.AppHash = NoHash
    BY <1>5, Zenon DEF Parents, ParentStage
  <2>2. CurStateFollows'
    BY <1>1, <1>5, <2>1, Zenon DEF CurStateFollows, Follows
  <2>3. ParentStage("commit")'
    BY <1>2, <1>5, <2>1, Zenon DEF ParentStage
  <2>4. QED
    BY <1>2, <1>5, <2>2, <2>3, ParentsContinue, Zenon DEF Critical
<1>6. QED
  BY <1>3, <1>4, <1>5, Zenon DEF UpdateStateFromBlock, FireEvents, EventsFired, EventsPanic, At, chainVars

(* Only if applications may fail Commit is AppHash not that of the block,  *)
(* and then it is nil.                                                     *)
LEMMA ParentsCommit ==
  ASSUME StateTypeOK, StorageInv, AppInv, Parents, NEW t \in Threads, SendCommit(t) \/ FinishBlock(t)
  PROVE  Parents'
<1>1. /\ pc[t] = "commit" /\ UNCHANGED <<LastBlock, LastCommit, storageVars>>
      /\ \/ /\ UNCHANGED CurState
            /\ Continue(t, "commit") \/ ("failCommit" \in AppMay /\ Leave(t, "error"))
         \/ Leave(t, "ok") /\ CurState' = [CurState EXCEPT !.AppHash = block.hash]
  BY Zenon DEF SendCommit, FinishBlock, At, chainVars
<1>2. /\ pc[t] \in Critical /\ CurState.AppHash = NoHash
      /\ ParentCommit(LastCommit)' /\ LastCommit' = commits'[LastBlock'.height]
  BY <1>1, Zenon DEF Parents, ParentStage, Critical, ParentCommit, storageVars
<1>3. CASE /\ UNCHANGED CurState
           /\ Continue(t, "commit") \/ ("failCommit" \in AppMay /\ Leave(t, "error"))
  <2>1. CurStateFollows'
    BY Zenon, <1>1, <1>3, ParentsFrame
  <2>2. CASE Continue(t, "commit")
    <3>1. ParentStage("commit")'
      BY <1>2, <1>3, Zenon DEF ParentStage
    <3>2. QED
      BY <1>2, <2>1, <2>2, <3>1, ParentsContinue, Zenon DEF Critical
  <2>3. CASE "failCommit" \in AppMay /\ Leave(t, "error")
    <3>1. ParentAtRest'
      BY <1>2, <1>3, <2>3, Zenon DEF ParentAtRest, ParentHash, Uncommitted
    <3>2. QED
      BY Zenon, <1>2, <2>1, <2>3, <3>1, ParentsLeave
  <2>4. QED
    BY Zenon, <1>3, <2>2, <2>3
<1>4. CASE Leave(t, "ok") /\ CurState' = [CurState EXCEPT !.AppHash = block.hash]
  <2>1. /\ CurState'.AppHash = block.hash /\ block = LastBlock
        /\ CurState'.LastValidators = CurState.LastValidators
        /\ CurState'.Validators = CurState.Validators
        /\ CurState'.NextValidators = CurState.NextValidators
    BY <1>1, <1>4, Zenon DEF AppInv, AppStage, StateTypeOK, ClientTypeOK, State
  <2>2. ParentAtRest'
    BY <1>1, <1>2, <2>1, Zenon DEF ParentAtRest, ParentHash
  <2>3. CurStateFollows'
    BY <1>1, <2>1, Zenon DEF Parents, CurStateFollows, Follows, StoresReadable, storageVars
  <2>4. QED
    BY Zenon, <1>2, <1>4, <2>2, <2>3, ParentsLeave
<1>5. QED
  BY Zenon, <1>1, <1>3, <1>4

(* InitChain replaces the validators of CurState before any block.         *)
LEMMA ParentsInitChain ==
  ASSUME StateTypeOK, StorageInv, NothingBeforeInitChain, InitChain
  PROVE  Parents'
<1>1. /\ pc[Main] = "initChain" /\ UNCHANGED LastBlock
      /\ pc' = pc \/ pc' = [pc EXCEPT ![Main] = "firstBlock"]
  BY Zenon DEF InitChain, At, Goto
<1>2. \A t \in Threads : pc'[t] \notin Critical
  BY <1>1 DEF StorageInv, Starting, Critical, StateTypeOK, GoroutineTypeOK
<1>3. LastBlock'.height = 0
  BY <1>1, Zenon DEF NothingBeforeInitChain
<1>4. ~(LastBlock'.height > 0)
  BY <1>3
<1>5. \A t \in Threads : ParentStage(pc[t])'
  BY <1>2, Zenon DEF ParentStage, Critical
<1>6. ParentAtRest' /\ CurStateFollows'
  BY <1>4, Zenon DEF ParentAtRest, CurStateFollows, ParentCommit, ParentHash
<1>7. QED
  BY <1>5, <1>6, Zenon DEF Parents

-----------------------------------------------------------------------------
(* All steps, and the theorems.                                            *)

(* Every step of the system keeps the invariant.                           *)
LEMMA StepHistory ==
  StateTypeOK /\ StorageInv /\ AppInv /\ HistoryInv /\ [Next]_vars => HistoryInv'
<1>1. ASSUME StateTypeOK, StorageInv, AppInv, HistoryInv, Next PROVE HistoryInv'
  <2>0. Parents /\ Heredity /\ NothingBeforeInitChain /\ NothingBeforeInitChain'
    BY <1>1, MainStarts, Zenon DEF HistoryInv
  <2>1. CASE \E t \in Threads : StoreBlock(t)
    BY <1>1, <2>0, <2>1, HistoryStore, Zenon DEF HistoryInv
  <2>2. CASE ~\E t \in Threads : StoreBlock(t)
    <3>1. Heredity'
      BY Zenon, <1>1, <2>0, <2>2, OnlyStoreBlockWrites, HeredityFrame
    <3>2. CASE InitChain
      BY <1>1, <2>0, <3>1, <3>2, ParentsInitChain, Zenon DEF HistoryInv
    <3>3. CASE \E t \in Threads : /\ RunBlock(t)
                                  /\ ~ReadLastBlockTime(t) /\ ~CallGetBlockTime(t) /\ ~ReadProposer(t)
      <4>1. Parents'
        BY <1>1, <2>0, <2>2, <3>3, ParentsLock, ParentsProposal, ParentsVoting, ParentsFinalize,
           ParentsUpdate, ParentsCommit, Zenon DEF RunBlock, BlockStep
      <4>2. QED
        BY <2>0, <3>1, <4>1, Zenon DEF HistoryInv
    <3>4. CASE MovesOutside /\ UNCHANGED guardedVars
      BY <2>0, <3>1, <3>4, ParentsOutside, Zenon DEF HistoryInv
    <3>5. QED
      BY <1>1, <3>2, <3>3, <3>4, OutsideSteps, Zenon DEF Next, Step, RunBlock, Startup
  <2>3. QED
    BY Zenon, <2>1, <2>2
<1>2. ASSUME StateTypeOK, HistoryInv, UNCHANGED vars PROVE HistoryInv'
  <2>1. MovesOutside /\ UNCHANGED guardedVars
    BY <1>2, Zenon DEF vars, processVars, chainVars, guardedVars, MovesOutside, StateTypeOK, GoroutineTypeOK
  <2>2. Heredity' /\ NothingBeforeInitChain'
    BY <1>2, HeredityFrame, Zenon DEF vars, chainVars, storageVars, HistoryInv, NothingBeforeInitChain
  <2>3. QED
    BY <1>2, <2>1, <2>2, ParentsOutside, Zenon DEF HistoryInv
<1>3. QED
  BY Zenon, <1>1, <1>2

(* Whatever fails, runBlock_helper has at each of its labels what the next *)
(* stored block and state have to take over from the ones below.           *)
THEOREM HistoryInvHolds == Spec => []HistoryInv
BY InitHistory, StepHistory, AppInvHolds, InvHolds, StateTypeCorrect, PTL DEF Spec

(* A validator update of FinalizeBlock at height h decides who signs       *)
(* height h + 2, and nothing else does, whatever fails in between and      *)
(* however often a height is run.                                          *)
THEOREM UpdatesTakeTwoBlocks == Spec => []UpdatesApplyTwoBlocksLater
<1>1. StateTypeOK /\ StorageInv /\ HistoryInv => UpdatesApplyTwoBlocksLater
  <2> SUFFICES ASSUME StateTypeOK, StorageInv, HistoryInv, NEW h \in DOMAIN states, h + 2 \in DOMAIN states
               PROVE  /\ \A a \in Addresses :
                           states[h + 2].Validators.power[a] =
                             IF responses[h].updates[a] = NoUpdate THEN states[h].NextValidators.power[a]
                                                                   ELSE responses[h].updates[a]
                      /\ states[h + 2].LastValidators = states[h + 1].Validators
    BY Zenon DEF UpdatesApplyTwoBlocksLater
  <2>1. LastBlock.height \in Nat /\ DOMAIN states = 1..LastBlock.height
    BY Zenon DEF StorageInv, Stores, StoresAgree, StateTypeOK, ClientTypeOK, IsBlock
  <2>2. h + 1 \in DOMAIN states /\ (h + 1) + 1 = h + 2
    BY <2>1
  <2>3. Follows(states[h + 1], h) /\ Follows(states[h + 2], h + 1)
    BY <2>2, Zenon DEF HistoryInv, Heredity, StatesFollow
  <2>4. /\ states[h + 2].Validators.power =
              UpdateWithChangeSet(states[h].NextValidators.power, responses[h].updates)
        /\ states[h + 2].LastValidators = states[h + 1].Validators
    BY <2>3, Zenon DEF Follows
  <2>5. QED
    BY <2>4, Zenon DEF UpdateWithChangeSet, Updated
<1>2. QED
  BY <1>1, HistoryInvHolds, InvHolds, StateTypeCorrect, PTL

(* Duplicate-vote evidence in a stored block accuses a validator that was  *)
(* asked to sign the block below, however long the request waited.         *)
THEOREM EvidenceIsAboutSigners == Spec => []EvidenceNamesASigner
<1>1. HistoryInv => EvidenceNamesASigner
  BY Zenon DEF HistoryInv, Heredity
<1>2. QED
  BY <1>1, HistoryInvHolds, PTL

(* Every block carries the commit stored for the block below, although     *)
(* LastCommit is replaced before the block is stored, or, if FinalizeBlock *)
(* may fail, the commit of an earlier attempt at its own height.           *)
THEOREM LastCommitsAreStored == Spec => []LastCommitIsStored
<1>1. HistoryInv => LastCommitIsStored
  BY Zenon DEF HistoryInv, Heredity
<1>2. QED
  BY <1>1, HistoryInvHolds, PTL

(* Every header carries the application hash of the block below or, if     *)
(* Commit may fail, none, and never that of an older block.                *)
THEOREM AppHashesFollow == Spec => []AppHashOfParent
<1>1. HistoryInv => AppHashOfParent
  BY Zenon DEF HistoryInv, Heredity
<1>2. QED
  BY <1>1, HistoryInvHolds, PTL

-----------------------------------------------------------------------------
(* Occurrences of an entry in a sequence.                                  *)

(* A sequence has finitely many places, and x is in it if it has a place.  *)
LEMMA PlacesFinite ==
  ASSUME NEW A, NEW seq \in Seq(A), NEW x
  PROVE  /\ IsFiniteSet(Places(x, seq)) /\ Copies(x, seq) \in Nat
         /\ x \in Range(seq) <=> Copies(x, seq) > 0
<1>1. Places(x, seq) \in SUBSET (1..Len(seq)) /\ Len(seq) \in Nat
  BY DEF Places
<1>2. IsFiniteSet(1..Len(seq))
  BY <1>1, FS_Interval
<1>3. IsFiniteSet(Places(x, seq))
  BY <1>1, <1>2, FS_Subset, Zenon
<1>4. Copies(x, seq) \in Nat /\ (Copies(x, seq) = 0 <=> Places(x, seq) = {})
  BY <1>3, FS_CardinalityType, FS_EmptySet, Zenon DEF Copies
<1>5. x \in Range(seq) <=> Places(x, seq) # {}
  BY DEF Places, Range
<1>6. QED
  BY <1>3, <1>4, <1>5

(* The empty sequence has no place for x.                                  *)
LEMMA NoCopies ==
  ASSUME NEW x
  PROVE  Copies(x, <<>>) = 0 /\ Range(<<>>) = {}
<1>1. Places(x, <<>>) = {}
  BY DEF Places
<1>2. QED
  BY <1>1, FS_EmptySet DEF Copies, Range

(* append loses no element of a queue and adds its own.                   *)
LEMMA AppendRange ==
  ASSUME NEW A, NEW seq \in Seq(A), NEW e \in A
  PROVE  \A x : x \in Range(seq) \cup {e} => x \in Range(Append(seq, e))
<1>1. Len(seq) + 1 \in DOMAIN Append(seq, e) /\ Append(seq, e)[Len(seq) + 1] = e
  OBVIOUS
<1>2. \A i \in DOMAIN seq : i \in DOMAIN Append(seq, e) /\ Append(seq, e)[i] = seq[i]
  OBVIOUS
<1> DEFINE queue == Append(seq, e)
           last  == Len(seq) + 1
<1>3. last \in DOMAIN queue /\ queue[last] = e /\ \A i \in DOMAIN seq : i \in DOMAIN queue /\ queue[i] = seq[i]
  BY <1>1, <1>2, Zenon
<1> HIDE DEF queue, last
<1>4. \A x : x \in Range(seq) \cup {e} => x \in Range(queue)
  BY <1>3, Zenon DEF Range
<1>5. QED
  BY <1>4, Zenon DEF queue

(* append adds a copy of what it appends.                                  *)
LEMMA CopiesAppend ==
  ASSUME NEW A, NEW seq \in Seq(A), NEW e \in A, NEW x
  PROVE  Copies(x, Append(seq, e)) = IF e = x THEN Copies(x, seq) + 1 ELSE Copies(x, seq)
<1>1. /\ DOMAIN Append(seq, e) = 1..(Len(seq) + 1) /\ Append(seq, e)[Len(seq) + 1] = e
      /\ \A i \in 1..Len(seq) : Append(seq, e)[i] = seq[i]
      /\ DOMAIN seq = 1..Len(seq) /\ Len(seq) \in Nat
  OBVIOUS
<1>2. Len(seq) + 1 \notin Places(x, seq)
  BY <1>1 DEF Places
<1>3. e = x => Places(x, Append(seq, e)) = Places(x, seq) \cup {Len(seq) + 1}
  BY <1>1 DEF Places
<1>4. e # x => Places(x, Append(seq, e)) = Places(x, seq)
  BY <1>1 DEF Places
<1>5. IsFiniteSet(Places(x, seq))
  BY PlacesFinite, Zenon
<1>6. Cardinality(Places(x, seq) \cup {Len(seq) + 1}) = Cardinality(Places(x, seq)) + 1
  BY <1>2, <1>5, FS_AddElement, Zenon
<1>7. QED
  BY <1>3, <1>4, <1>6, Zenon DEF Copies

(* The concatenation of the two queues has the copies of both.             *)
LEMMA CopiesConcat ==
  ASSUME NEW A, NEW s \in Seq(A), NEW r \in Seq(A), NEW x
  PROVE  Copies(x, s \o r) = Copies(x, s) + Copies(x, r)
<1> DEFINE shifted == {i \in (Len(s) + 1)..(Len(s) + Len(r)) : r[i - Len(s)] = x}
           f == [i \in Places(x, r) |-> Len(s) + i]
<1>1. /\ Len(s) \in Nat /\ Len(r) \in Nat /\ DOMAIN s = 1..Len(s) /\ DOMAIN r = 1..Len(r)
      /\ DOMAIN (s \o r) = 1..(Len(s) + Len(r))
      /\ \A i \in 1..(Len(s) + Len(r)) : (s \o r)[i] = IF i <= Len(s) THEN s[i] ELSE r[i - Len(s)]
  OBVIOUS
<1>2. Places(x, s \o r) = Places(x, s) \cup shifted /\ Places(x, s) \cap shifted = {}
  BY <1>1 DEF Places
<1>3. f \in [Places(x, r) -> shifted]
  BY <1>1 DEF Places
<1>4. \A i, j \in Places(x, r) : f[i] = f[j] => i = j
  BY <1>1 DEF Places
<1>5. \A k \in shifted : \E i \in Places(x, r) : f[i] = k
  <2>1. ASSUME NEW k \in shifted PROVE k - Len(s) \in Places(x, r) /\ f[k - Len(s)] = k
    BY <1>1 DEF Places
  <2>2. QED
    BY <2>1, Zenon
<1>6. DOMAIN f = Places(x, r)
  OBVIOUS
<1> HIDE DEF shifted, f
<1>7. f \in Bijection(Places(x, r), shifted)
  BY <1>3, <1>4, <1>5, <1>6, Zenon DEF Bijection, Injection, Surjection, IsInjective
<1>8. IsFiniteSet(Places(x, r)) /\ IsFiniteSet(Places(x, s)) /\ Copies(x, s) \in Nat /\ Copies(x, r) \in Nat
  BY PlacesFinite, Zenon
<1>9. IsFiniteSet(shifted) /\ Cardinality(shifted) = Cardinality(Places(x, r))
  BY <1>7, <1>8, FS_Bijection, Zenon DEF ExistsBijection
<1>10. Cardinality(Places(x, s) \cup shifted) =
         Cardinality(Places(x, s)) + Cardinality(shifted) - Cardinality(Places(x, s) \cap shifted)
  BY <1>8, <1>9, FS_Union, Zenon
<1>11. Cardinality(Places(x, s) \cap shifted) = 0
  BY <1>2, FS_EmptySet, Zenon
<1>12. QED
  BY <1>2, <1>8, <1>9, <1>10, <1>11 DEF Copies

(* The loop returns a copy of x for every place of x that it keeps.        *)
LEMMA CopiesKept ==
  ASSUME NEW A, NEW queue \in Seq(A), NEW S, NEW x
  PROVE  /\ Kept(queue, S) \in Seq(A)
         /\ Copies(x, Kept(queue, S)) = Cardinality({i \in Places(x, queue) : i \in S})
<1>1. PICK g : Rounds(g, queue, S, Len(queue)) /\ Kept(queue, S) = g[Len(queue)]
  BY KeptIsLastRound
<1> DEFINE P(n) == {i \in Places(x, queue) : i \in S /\ i <= n}
           Good(n) == g[n] \in Seq(A) /\ Copies(x, g[n]) = Cardinality(P(n))
           T == {n \in 0..Len(queue) : ~Good(n)}
<1>2. \A n \in 0..Len(queue) : g[n] = Round(g, queue, S, n)
  BY <1>1, Zenon DEF Rounds
<1>3. ASSUME T # {} PROVE FALSE
  <2>1. PICK k \in T : \A j \in T : ~(j < k)
    <3>1. T \subseteq Nat
      OBVIOUS
    <3> HIDE DEF T
    <3>2. QED
      BY <1>3, <3>1, LeastNumber, Zenon
  <2>2. k \in 0..Len(queue) /\ ~Good(k) /\ g[k] = Round(g, queue, S, k)
    BY <1>2, <2>1
  <2>3. CASE k = 0
    <3>1. P(0) = {}
      BY DEF Places
    <3>2. g[0] = <<>>
      BY <2>2, <2>3 DEF Round
    <3>3. Cardinality(P(0)) = 0
      BY <3>1, FS_EmptySet, Zenon
    <3>4. g[0] \in Seq(A) /\ Copies(x, g[0]) = 0
      <4>1. <<>> \in Seq(A)
        OBVIOUS
      <4>2. QED
        BY <3>2, <4>1, NoCopies, Zenon
    <3> HIDE DEF P
    <3>5. QED
      BY <2>2, <2>3, <3>3, <3>4, Zenon
  <2>4. CASE k # 0
    <3>1. k - 1 \in 0..Len(queue) /\ k - 1 < k
      BY <2>2, <2>4
    <3>2. Good(k - 1)
      BY <2>1, <3>1
    <3>3. k \in DOMAIN queue /\ queue[k] \in A /\ k \in Nat
      BY <2>2, <2>4
    <3>4. CASE k \notin S
      <4>1. P(k) = P(k - 1)
        BY <3>3, <3>4 DEF Places
      <4>2. g[k] = g[k - 1]
        BY <2>2, <2>4, <3>4 DEF Round
      <4> HIDE DEF P
      <4>3. QED
        BY <2>2, <3>2, <4>1, <4>2, Zenon
    <3>5. CASE k \in S
      <4>1. g[k] = Append(g[k - 1], queue[k])
        BY <2>2, <2>4, <3>5 DEF Round
      <4>2. g[k] \in Seq(A)
        BY <3>2, <3>3, <4>1
      <4>3. Copies(x, g[k]) = IF queue[k] = x THEN Copies(x, g[k - 1]) + 1 ELSE Copies(x, g[k - 1])
        <5>1. g[k - 1] \in Seq(A) /\ queue[k] \in A
          BY <3>2, <3>3, Zenon
        <5>2. Copies(x, Append(g[k - 1], queue[k])) =
                IF queue[k] = x THEN Copies(x, g[k - 1]) + 1 ELSE Copies(x, g[k - 1])
          BY <5>1, CopiesAppend, Zenon
        <5>3. QED
          BY <4>1, <5>2, Zenon
      <4>4. k \notin P(k - 1)
        BY <3>3
      <4>5. queue[k] = x => P(k) = P(k - 1) \cup {k}
        BY <3>3, <3>5 DEF Places
      <4>6. queue[k] # x => P(k) = P(k - 1)
        BY <3>3 DEF Places
      <4>7. P(k - 1) \in SUBSET Places(x, queue)
        OBVIOUS
      <4> HIDE DEF P
      <4>8. IsFiniteSet(P(k - 1))
        BY <4>7, PlacesFinite, FS_Subset, Zenon
      <4>9. Cardinality(P(k - 1) \cup {k}) = Cardinality(P(k - 1)) + 1
        BY <4>4, <4>8, FS_AddElement, Zenon
      <4>10. QED
        BY <2>2, <3>2, <4>2, <4>3, <4>5, <4>6, <4>9, Zenon
    <3>6. QED
      BY <3>4, <3>5, Zenon
  <2>5. QED
    BY <2>3, <2>4, Zenon
<1>4. Good(Len(queue))
  <2>1. Len(queue) \in 0..Len(queue)
    OBVIOUS
  <2> HIDE DEF Good
  <2>2. QED
    BY <1>3, <2>1, Zenon
<1>5. P(Len(queue)) = {i \in Places(x, queue) : i \in S}
  BY DEF Places
<1>6. QED
  BY <1>1, <1>4, <1>5

(* In particular it adds no copies, and it keeps x if it keeps a place.    *)
LEMMA KeptCopies ==
  ASSUME NEW A, NEW queue \in Seq(A), NEW S, NEW x
  PROVE  /\ Copies(x, Kept(queue, S)) \in Nat
         /\ Copies(x, Kept(queue, S)) <= Copies(x, queue)
         /\ (\A i \in Places(x, queue) : i \in S) =>
               Copies(x, Kept(queue, S)) = Copies(x, queue)
         /\ (\A i \in Places(x, queue) : i \notin S) => Copies(x, Kept(queue, S)) = 0
<1> DEFINE K == {i \in Places(x, queue) : i \in S}
<1>1. Kept(queue, S) \in Seq(A) /\ Copies(x, Kept(queue, S)) = Cardinality(K)
  BY CopiesKept, Zenon
<1>2. K \in SUBSET Places(x, queue)
  OBVIOUS
<1>3. (\A i \in Places(x, queue) : i \in S) => K = Places(x, queue)
  OBVIOUS
<1>4. (\A i \in Places(x, queue) : i \notin S) => K = {}
  OBVIOUS
<1> HIDE DEF K
<1>5. Copies(x, Kept(queue, S)) \in Nat
  BY <1>1, PlacesFinite, Zenon
<1>6. Cardinality(K) <= Cardinality(Places(x, queue))
  BY <1>2, PlacesFinite, FS_Subset, Zenon
<1>7. QED
  BY <1>1, <1>3, <1>4, <1>5, <1>6, FS_EmptySet, Zenon DEF Copies

(* Emptying entries adds no copies of a transaction, and removes none that *)
(* CheckTx has not rejected.                                               *)
LEMMA BlankCopies ==
  ASSUME NEW queue \in Seq(QueueEntry), NEW offset, NEW rejected, NEW x \in Txs
  PROVE  /\ Copies(x, Blank(queue, offset, rejected)) \in Nat
         /\ Copies(x, Blank(queue, offset, rejected)) <= Copies(x, queue)
         /\ (\A i \in Places(x, queue) : offset + i \notin rejected) =>
               Copies(x, Blank(queue, offset, rejected)) = Copies(x, queue)
<1> DEFINE blank == Blank(queue, offset, rejected)
<1>1. x # NoTx
  BY ConstantsHaveTypes, Zenon
<1>2. blank \in Seq(QueueEntry)
  BY BlankType, Zenon
<1>3. Places(x, blank) \in SUBSET Places(x, queue)
  BY <1>1 DEF Places, Blank
<1>4. (\A i \in Places(x, queue) : offset + i \notin rejected) => Places(x, blank) = Places(x, queue)
  BY <1>1 DEF Places, Blank
<1> HIDE DEF blank
<1>5. Copies(x, blank) \in Nat
  BY <1>2, PlacesFinite, Zenon
<1>6. Cardinality(Places(x, blank)) <= Cardinality(Places(x, queue))
  BY <1>3, PlacesFinite, FS_Subset, Zenon
<1>7. QED
  BY <1>4, <1>5, <1>6, Zenon DEF Copies, blank

(* The transactions offered to PrepareProposal are those of both queues.   *)
LEMMA NewTxQueueCopies ==
  ASSUME QueuesOK, NEW x \in Txs
  PROVE  Copies(x, newTxQueue) = Copies(x, FreshTxQueue) + Copies(x, StaleTxQueue)
<1> DEFINE queue == FreshTxQueue \o StaleTxQueue
           S == {i \in DOMAIN queue : queue[i] # NoTx}
<1>1. queue \in Seq(QueueEntry) /\ FreshTxQueue \in Seq(QueueEntry) /\ StaleTxQueue \in Seq(QueueEntry)
  BY DEF QueuesOK
<1>2. \A i \in Places(x, queue) : i \in S
  BY ConstantsHaveTypes, Zenon DEF Places
<1>3. Copies(x, queue) = Copies(x, FreshTxQueue) + Copies(x, StaleTxQueue)
  BY <1>1, CopiesConcat, Zenon
<1>4. newTxQueue = Kept(queue, S)
  BY Zenon DEF newTxQueue, NonEmpty
<1> HIDE DEF queue, S
<1>5. Copies(x, Kept(queue, S)) = Copies(x, queue)
  BY <1>1, <1>2, KeptCopies, Zenon
<1>6. QED
  BY <1>3, <1>4, <1>5, Zenon

(* ClearTxs: what the block takes and what becomes stale is together no    *)
(* more than what was queued, and a transaction that was queued is in one  *)
(* of them.                                                                *)
LEMMA RequeueCopies ==
  ASSUME QueuesOK, NEW txs \in PreparedTxs(newTxQueue), NEW x \in Txs,
         NEW stale, stale = Kept(newTxQueue, {i \in DOMAIN newTxQueue : newTxQueue[i] \notin Range(txs)})
  PROVE  /\ txs \in Seq(Txs) /\ stale \in Seq(Txs)
         /\ Copies(x, txs) \in Nat /\ Copies(x, stale) \in Nat
         /\ Copies(x, txs) + Copies(x, stale) <= Copies(x, FreshTxQueue) + Copies(x, StaleTxQueue)
         /\ Copies(x, FreshTxQueue) + Copies(x, StaleTxQueue) > 0 =>
               Copies(x, txs) + Copies(x, stale) > 0
<1> DEFINE S == {i \in DOMAIN newTxQueue : newTxQueue[i] \notin Range(txs)}
<1>1. newTxQueue \in Seq(Txs)
  BY NewTxQueueType
<1>2. txs \in Seq(Txs) /\ stale \in Seq(Txs)
  BY <1>1, PreparedType, Zenon
<1>3. Copies(x, txs) \in Nat /\ Copies(x, stale) \in Nat /\ Copies(x, newTxQueue) \in Nat
  BY <1>1, <1>2, PlacesFinite, Zenon
<1>4. Copies(x, newTxQueue) = Copies(x, FreshTxQueue) + Copies(x, StaleTxQueue)
  BY NewTxQueueCopies, Zenon
<1>5. Copies(x, txs) <= Copies(x, newTxQueue)
  <2>1. \A s : Copies(x, Kept(newTxQueue, s)) <= Copies(x, newTxQueue)
    BY <1>1, KeptCopies, Zenon
  <2>2. txs = newTxQueue \/ \E s : txs = Kept(newTxQueue, s)
    BY Zenon DEF PreparedTxs
  <2>3. QED
    BY <1>3, <2>1, <2>2
<1>6. CASE x \in Range(txs)
  <2>1. \A i \in Places(x, newTxQueue) : i \notin S
    BY <1>6, Zenon DEF Places
  <2>2. Copies(x, stale) = 0
    <3> HIDE DEF S
    <3>1. Copies(x, Kept(newTxQueue, S)) = 0
      BY <1>1, <2>1, KeptCopies, Zenon
    <3>2. QED
      BY <3>1, Zenon DEF S
  <2>3. Copies(x, txs) > 0
    BY <1>2, <1>6, PlacesFinite, Zenon
  <2>4. QED
    BY <1>2, <1>3, <1>4, <1>5, <2>2, <2>3
<1>7. CASE x \notin Range(txs)
  <2>1. \A i \in Places(x, newTxQueue) : i \in S
    BY <1>7, Zenon DEF Places
  <2>2. Copies(x, stale) = Copies(x, newTxQueue)
    <3> HIDE DEF S
    <3>1. Copies(x, Kept(newTxQueue, S)) = Copies(x, newTxQueue)
      BY <1>1, <2>1, KeptCopies, Zenon
    <3>2. QED
      BY <3>1, Zenon DEF S
  <2>3. ~(Copies(x, txs) > 0)
    BY <1>2, <1>7, PlacesFinite, Zenon
  <2>4. QED
    BY <1>2, <1>3, <1>4, <2>2, <2>3
<1>8. QED
  BY <1>6, <1>7, Zenon

(* UpdateStores adds the places of the block to those of the stored ones.  *)
LEMMA StoredGrows ==
  ASSUME StateTypeOK, StorageInv, QueuesOK, NEW t \in Threads, StoreBlock(t), NEW x,
         IsFiniteSet(StoredPlaces(x))
  PROVE  /\ IsFiniteSet(StoredPlaces(x))'
         /\ Cardinality(StoredPlaces(x))' = Cardinality(StoredPlaces(x)) + Copies(x, block.txs)
<1> DEFINE h == LastBlock.height + 1
           P == Places(x, block.txs)
           f == [i \in P |-> <<h, i>>]
<1>1. /\ DOMAIN blocks' = DOMAIN blocks \cup {h} /\ blocks'[h] = block
      /\ \A k \in DOMAIN blocks : blocks'[k] = blocks[k]
  BY StoreAppends, Zenon
<1>2. h \notin DOMAIN blocks
  BY DEF StorageInv, Stores, StoresAgree, StateTypeOK, ClientTypeOK, IsBlock
<1> HIDE DEF h
<1>3. StoredPlaces(x)' = StoredPlaces(x) \cup ({h} \X P)
  <2>1. \A p : p \in StoredPlaces(x) <=> \E k \in DOMAIN blocks : p \in {k} \X Places(x, blocks[k].txs)
    BY Zenon DEF StoredPlaces
  <2>2. \A p : p \in StoredPlaces(x)' <=> \E k \in DOMAIN blocks' : p \in {k} \X Places(x, blocks'[k].txs)
    BY Zenon DEF StoredPlaces
  <2>3. \A p : p \in StoredPlaces(x)' <=> p \in StoredPlaces(x) \/ p \in {h} \X P
    BY <1>1, <2>1, <2>2, Zenon
  <2>4. QED
    BY <2>3, Zenon
<1>4. StoredPlaces(x) \cap ({h} \X P) = {}
  BY <1>2 DEF StoredPlaces
<1>5. f \in [P -> {h} \X P] /\ DOMAIN f = P
  OBVIOUS
<1>6. \A i, j \in P : f[i] = f[j] => i = j
  OBVIOUS
<1>7. \A p \in {h} \X P : \E i \in P : f[i] = p
  OBVIOUS
<1>8. IsFiniteSet(P) /\ Cardinality(P) \in Nat
  BY PlacesFinite, Zenon DEF QueuesOK, Copies
<1> HIDE DEF f, P
<1>9. f \in Bijection(P, {h} \X P)
  BY <1>5, <1>6, <1>7, Zenon DEF Bijection, Injection, Surjection, IsInjective
<1>10. IsFiniteSet({h} \X P) /\ Cardinality({h} \X P) = Cardinality(P)
  BY <1>8, <1>9, FS_Bijection, Zenon DEF ExistsBijection
<1>11. /\ IsFiniteSet(StoredPlaces(x) \cup ({h} \X P))
       /\ Cardinality(StoredPlaces(x) \cup ({h} \X P)) =
            Cardinality(StoredPlaces(x)) + Cardinality({h} \X P) - Cardinality(StoredPlaces(x) \cap ({h} \X P))
  BY <1>10, FS_Union, Zenon
<1>12. Cardinality(StoredPlaces(x) \cap ({h} \X P)) = 0
  BY <1>4, FS_EmptySet, Zenon
<1>13. Cardinality(StoredPlaces(x)) \in Nat
  BY FS_CardinalityType, Zenon
<1>14. Cardinality(StoredPlaces(x) \cup ({h} \X P)) = Cardinality(StoredPlaces(x)) + Cardinality(P)
  BY <1>8, <1>10, <1>11, <1>12, <1>13
<1>15. QED
  BY <1>3, <1>11, <1>14, Zenon DEF Copies, P

(* And its transactions to the stored ones.                                *)
LEMMA StoredTxsGrow ==
  ASSUME StateTypeOK, StorageInv, NEW t \in Threads, StoreBlock(t)
  PROVE  StoredTxs' = StoredTxs \cup Range(block.txs)
<1>0. \E h : /\ DOMAIN blocks' = DOMAIN blocks \cup {h} /\ blocks'[h] = block
             /\ \A k \in DOMAIN blocks : blocks'[k] = blocks[k]
  BY StoreAppends, Zenon
<1>1. \A p : p \in StoredTxs <=> \E k \in DOMAIN blocks : p \in Range(blocks[k].txs)
  BY Zenon DEF StoredTxs
<1>2. \A p : p \in StoredTxs' <=> \E k \in DOMAIN blocks' : p \in Range(blocks'[k].txs)
  BY Zenon DEF StoredTxs
<1>3. \A p : p \in StoredTxs' <=> p \in StoredTxs \/ p \in Range(block.txs)
  BY <1>0, <1>1, <1>2, Zenon
<1>4. QED
  BY <1>3, Zenon

-----------------------------------------------------------------------------
(* Where the copies of a transaction are.                                  *)

Pending == {"process", "sign", "finalize", "store"}
InFlight(x) == Copies(x, ProposedTxs) + Copies(x, FreshTxQueue) + Copies(x, StaleTxQueue)
SomewhereElse(x) == InFlight(x) > 0 \/ x \in StoredTxs

(* The queues and the proposed block hold finitely many copies.            *)
LEMMA InFlightNumbers ==
  ASSUME QueuesOK, NEW x
  PROVE  /\ Copies(x, ProposedTxs) \in Nat /\ Copies(x, FreshTxQueue) \in Nat
         /\ Copies(x, StaleTxQueue) \in Nat /\ InFlight(x) \in Nat
         /\ InFlight(x) > 0 <=> x \in Range(FreshTxQueue) \cup Range(StaleTxQueue) \cup Range(ProposedTxs)
<1>1. <<>> \in Seq(Txs)
  OBVIOUS
<1>2. ProposedTxs \in Seq(Txs) /\ FreshTxQueue \in Seq(QueueEntry) /\ StaleTxQueue \in Seq(QueueEntry)
  BY <1>1, Zenon DEF ProposedTxs, QueuesOK
<1>3. /\ Copies(x, ProposedTxs) \in Nat /\ (x \in Range(ProposedTxs) <=> Copies(x, ProposedTxs) > 0)
      /\ Copies(x, FreshTxQueue) \in Nat /\ (x \in Range(FreshTxQueue) <=> Copies(x, FreshTxQueue) > 0)
      /\ Copies(x, StaleTxQueue) \in Nat /\ (x \in Range(StaleTxQueue) <=> Copies(x, StaleTxQueue) > 0)
  BY <1>2, PlacesFinite, Zenon
<1>4. QED
  BY <1>3 DEF InFlight

(* The same in the terms of TxInv, before and after a step.                *)
Numbers(x) == /\ Copies(x, ProposedTxs) \in Nat /\ Copies(x, FreshTxQueue) \in Nat
              /\ Copies(x, StaleTxQueue) \in Nat
InFlightFacts == /\ \A x : Numbers(x)
                 /\ TxsSomewhere <=> \A x \in accepted : SomewhereElse(x)

(* They hold whenever the queues have their types.                         *)
LEMMA InFlightNow == QueuesOK => InFlightFacts
BY InFlightNumbers, Zenon DEF InFlightFacts, Numbers, TxsSomewhere, SomewhereElse

(* The queues have their types after the step as well.                     *)
LEMMA InFlightNext == QueuesOK' => InFlightFacts'
BY InFlightNow, PTL

(* No proposal, no copies in it.                                           *)
LEMMA NoProposal ==
  ASSUME NEW x
  PROVE  /\ ~Proposed => Copies(x, ProposedTxs) = 0
         /\ Proposed => ProposedTxs = block.txs
         /\ ~Proposed => InFlight(x) = 0 + Copies(x, FreshTxQueue) + Copies(x, StaleTxQueue)
BY NoCopies, Zenon DEF ProposedTxs, InFlight

(* The callers of QueueTx stay where they are.                             *)
LEMMA SameBroadcasts ==
  ASSUME UNCHANGED tx, \A u \in Threads : pc'[u] = "queueTx" <=> pc[u] = "queueTx", NEW x
  PROVE  Broadcasting(x)' = Broadcasting(x)
<1>1. Broadcasting(x)' = {u \in Threads : pc'[u] = "queueTx" /\ tx[u] = x}
  BY Zenon DEF Broadcasting
<1>2. \A u : u \in Broadcasting(x)' <=> u \in Broadcasting(x)
  BY <1>1, Zenon DEF Broadcasting
<1>3. QED
  BY <1>2, Zenon

(* Nothing is broadcast or stored, and copies get no more.                 *)
LEMMA CopiesFall ==
  ASSUME StateTypeOK, QueuesOK, QueuesOK', NEW x \in Txs, CopiesOK(x),
         UNCHANGED <<sent, tx, blocks>>,
         \A u \in Threads : pc'[u] = "queueTx" <=> pc[u] = "queueTx",
         InFlight(x)' <= InFlight(x)
  PROVE  CopiesOK(x)'
<1>1. Broadcasting(x)' = Broadcasting(x) /\ StoredPlaces(x)' = StoredPlaces(x)
  BY SameBroadcasts, Zenon DEF StoredPlaces
<1>3. IsFiniteSet(StoredPlaces(x)) /\ IsFiniteSet(Broadcasting(x))
  BY Zenon DEF CopiesOK
<1>4. Cardinality(StoredPlaces(x)) \in Nat /\ Cardinality(Broadcasting(x)) \in Nat
  BY <1>3, FS_CardinalityType, Zenon
<1>5. sent[x] \in Nat /\ sent'[x] = sent[x]
  BY Zenon DEF StateTypeOK, EnvironmentTypeOK
<1>6. Numbers(x)
  BY InFlightNow, Zenon DEF InFlightFacts
<1>7. Numbers(x)'
  BY InFlightNext, Zenon DEF InFlightFacts
<1>8. Copies(x, ProposedTxs)' + Copies(x, FreshTxQueue)' + Copies(x, StaleTxQueue)'
        <= Copies(x, ProposedTxs) + Copies(x, FreshTxQueue) + Copies(x, StaleTxQueue)
  BY Zenon DEF InFlight
<1>9. Cardinality(StoredPlaces(x)) + Copies(x, ProposedTxs) + Copies(x, FreshTxQueue)
        + Copies(x, StaleTxQueue) + Cardinality(Broadcasting(x)) <= sent[x]
  BY Zenon DEF CopiesOK
<1>10. Cardinality(StoredPlaces(x)) + Copies(x, ProposedTxs)' + Copies(x, FreshTxQueue)'
         + Copies(x, StaleTxQueue)' + Cardinality(Broadcasting(x)) <= sent[x]
  BY <1>4, <1>5, <1>6, <1>7, <1>8, <1>9 DEF Numbers
<1>11. QED
  BY <1>1, <1>3, <1>5, <1>10, Zenon DEF CopiesOK

(* A step that moves no transaction from the callers of QueueTx, stores no *)
(* block and makes no proposal.  It may lose copies, but it loses none of  *)
(* an accepted transaction unless the proposed block fails.                *)
LEMMA TxFrame ==
  ASSUME StateTypeOK, QueuesOK, QueuesOK', TxInv,
         UNCHANGED <<sent, tx, blocks, LastBlock, proposals>>, accepted' \subseteq accepted,
         \A u \in Threads : pc'[u] = "queueTx" <=> pc[u] = "queueTx",
         \A x \in Txs : InFlight(x)' <= InFlight(x),
         \/ /\ Proposed' <=> Proposed
            /\ \A x \in accepted' : InFlight(x) > 0 => InFlight(x)' > 0
         \/ Proposed /\ ~Proposed'
  PROVE  TxInv'
<1>1. \A x \in Txs : CopiesOK(x)'
  BY CopiesFall, Zenon DEF TxInv
<1>2. proposals \in Nat /\ LastBlock.height \in Nat
  BY Zenon DEF StateTypeOK, ClientTypeOK, IsBlock
<1>3. proposals >= LastBlock.height + (IF Proposed THEN 1 ELSE 0)
  BY Zenon DEF TxInv
<1>4. proposals' >= LastBlock'.height + (IF Proposed' THEN 1 ELSE 0)
  BY <1>2, <1>3
<1>5. ASSUME EveryProposalStored' PROVE TxsSomewhere'
  <2>1. proposals' = LastBlock'.height + (IF Proposed' THEN 1 ELSE 0)
    BY <1>5, Zenon DEF EveryProposalStored
  <2>2. (Proposed' <=> Proposed) /\ \A x \in accepted' : InFlight(x) > 0 => InFlight(x)' > 0
    BY <1>2, <1>3, <2>1
  <2>3. EveryProposalStored
    BY <2>1, <2>2, Zenon DEF EveryProposalStored
  <2>4. \A x \in accepted : SomewhereElse(x)
    BY <2>3, InFlightNow, Zenon DEF TxInv, InFlightFacts
  <2>5. StoredTxs' = StoredTxs
    BY Zenon DEF StoredTxs
  <2>6. \A x \in accepted' : SomewhereElse(x)'
    BY <2>2, <2>4, <2>5, Zenon DEF SomewhereElse
  <2>7. QED
    BY <2>6, InFlightNext, Zenon DEF InFlightFacts
<1>6. QED
  BY <1>1, <1>4, <1>5, Zenon DEF TxInv

(* The goroutine inside runBlock_helper alone decides whether a block is   *)
(* proposed.                                                               *)
LEMMA ProposedByHelper ==
  ASSUME StateTypeOK, Locks, NEW t \in Threads, pc[t] \in Critical, NEW label, Goto(t, label)
  PROVE  /\ Proposed <=> pc[t] \in Pending
         /\ Proposed' <=> label \in Pending
         /\ label # "queueTx" => \A u \in Threads : pc'[u] = "queueTx" <=> pc[u] = "queueTx"
<1>1. \A u \in Threads \ {t} : pc[u] \notin Critical
  BY Exclusion, Zenon
<1>2. \A l \in Pending : l \in Critical
  BY DEF Pending, Critical
<1>3. pc'[t] = label /\ \A u \in Threads \ {t} : pc'[u] = pc[u]
  BY Zenon DEF Goto, StateTypeOK, GoroutineTypeOK
<1>4. pc[t] # "queueTx"
  BY DEF Critical
<1>5. QED
  BY <1>1, <1>2, <1>3, <1>4, Zenon DEF Proposed, Pending

-----------------------------------------------------------------------------
(* The steps.                                                              *)

(* A step of runBlock_helper that leaves the queues and the storage alone: *)
(* it goes on with the block, or returns, with which a proposed block is   *)
(* gone.                                                                   *)
LEMMA HelperTxs ==
  ASSUME StateTypeOK, StorageInv, QueuesOK, QueuesOK', TxInv, NEW t \in Threads, pc[t] \in Critical,
         UNCHANGED <<queueVars, sent, blocks, LastBlock, proposals>>,
         \/ \E outcome : Leave(t, outcome)
         \/ \E label \in Critical : /\ Continue(t, label) /\ UNCHANGED block
                                    /\ pc[t] \in Pending <=> label \in Pending
  PROVE  TxInv'
<1>1. Locks /\ UNCHANGED <<FreshTxQueue, StaleTxQueue, accepted>>
  BY Zenon DEF StorageInv, queueVars
<1>2. \A x \in Txs : Numbers(x)
  BY InFlightNow, Zenon DEF InFlightFacts
<1>3. CASE \E outcome : Leave(t, outcome)
  <2>1. PICK outcome : Leave(t, outcome)
    BY <1>3, Zenon
  <2>2. Goto(t, NextLabel(t, outcome)) /\ UNCHANGED tx
    BY <2>1, Zenon DEF Leave
  <2>3. NextLabel(t, outcome) # "queueTx" /\ NextLabel(t, outcome) \notin Pending
    BY DEF NextLabel, Pending
  <2>4. ~Proposed' /\ \A u \in Threads : pc'[u] = "queueTx" <=> pc[u] = "queueTx"
    BY <1>1, <2>2, <2>3, ProposedByHelper, Zenon
  <2>5. ASSUME NEW x \in Txs PROVE InFlight(x)' <= InFlight(x)
    <3>1. Copies(x, ProposedTxs)' = 0
      BY <2>4, NoCopies, Zenon DEF ProposedTxs
    <3>2. Copies(x, ProposedTxs) \in Nat /\ Copies(x, FreshTxQueue) \in Nat /\ Copies(x, StaleTxQueue) \in Nat
      BY <1>2, Zenon DEF Numbers
    <3>3. InFlight(x)' = Copies(x, ProposedTxs)' + Copies(x, FreshTxQueue) + Copies(x, StaleTxQueue)
      BY <1>1, Zenon DEF InFlight
    <3>4. QED
      BY <3>1, <3>2, <3>3 DEF InFlight
  <2>6. ASSUME ~Proposed PROVE \A x : InFlight(x)' = InFlight(x)
    BY <1>1, <2>4, <2>6, Zenon DEF InFlight, ProposedTxs
  <2>7. QED
    BY <1>1, <2>2, <2>4, <2>5, <2>6, TxFrame, Zenon
<1>4. CASE \E label \in Critical : /\ Continue(t, label) /\ UNCHANGED block
                                   /\ pc[t] \in Pending <=> label \in Pending
  <2>1. PICK label \in Critical : /\ Continue(t, label) /\ UNCHANGED block
                                  /\ pc[t] \in Pending <=> label \in Pending
    BY <1>4, Zenon
  <2>2. Goto(t, label) /\ UNCHANGED tx /\ label # "queueTx"
    BY <2>1, Zenon DEF Continue, argVars, Critical
  <2>3. (Proposed' <=> Proposed) /\ \A u \in Threads : pc'[u] = "queueTx" <=> pc[u] = "queueTx"
    BY <1>1, <2>1, <2>2, ProposedByHelper, Zenon
  <2>4. \A x : InFlight(x)' = InFlight(x)
    BY <1>1, <2>1, <2>3, Zenon DEF InFlight, ProposedTxs
  <2>5. \A x \in Txs : InFlight(x)' <= InFlight(x)
    BY <1>2, <2>4 DEF InFlight, Numbers
  <2>6. QED
    BY <1>1, <2>2, <2>3, <2>4, <2>5, TxFrame, Zenon
<1>5. QED
  BY <1>3, <1>4, Zenon

(* A step outside runBlock_helper that is not one of a broadcast.          *)
LEMMA OutsideTxs ==
  ASSUME StateTypeOK, QueuesOK, QueuesOK', TxInv, MovesOutside,
         UNCHANGED <<queueVars, sent, tx, blocks, block, LastBlock, proposals>>,
         \A u \in Threads : pc'[u] = "queueTx" <=> pc[u] = "queueTx"
  PROVE  TxInv'
<1>1. UNCHANGED <<FreshTxQueue, StaleTxQueue, accepted>>
  BY Zenon DEF queueVars
<1>2. \A l \in Pending : l \in Critical
  BY DEF Pending, Critical
<1>3. Proposed' <=> Proposed
  BY <1>2, Zenon DEF MovesOutside, Proposed, Pending
<1>4. \A x : InFlight(x)' = InFlight(x)
  BY <1>1, <1>3, Zenon DEF InFlight, ProposedTxs
<1>5. \A x \in Txs : Numbers(x)
  BY InFlightNow, Zenon DEF InFlightFacts
<1>6. \A x \in Txs : InFlight(x)' <= InFlight(x)
  BY <1>4, <1>5 DEF InFlight, Numbers
<1>7. QED
  BY <1>1, <1>3, <1>4, <1>6, TxFrame, Zenon

(* CheckTx empties entries, and forgets the transactions in them.          *)
LEMMA CheckedTxs ==
  ASSUME StateTypeOK, StorageInv, QueuesOK, QueuesOK', TxInv, NEW t \in Threads, CheckTxs(t)
  PROVE  TxInv'
<1>1. PICK rejected :
        /\ FreshTxQueue' = Blank(FreshTxQueue, 0, rejected)
        /\ StaleTxQueue' = Blank(StaleTxQueue, Len(FreshTxQueue), rejected)
        /\ accepted' = accepted \ {(FreshTxQueue \o StaleTxQueue)[i] : i \in rejected}
        /\ Continue(t, "propose") \/ Leave(t, "error")
  BY Zenon DEF CheckTxs
<1>2. pc[t] = "checkTxs" /\ UNCHANGED <<sent, blocks, LastBlock, proposals>>
  BY Zenon DEF CheckTxs, At, chainVars, inputVars, storageVars
<1>3. Locks /\ pc[t] \in Critical /\ pc[t] \notin Pending
  BY <1>2, Zenon DEF StorageInv, Critical, Pending
<1>4. FreshTxQueue \in Seq(QueueEntry) /\ StaleTxQueue \in Seq(QueueEntry) /\ accepted \subseteq Txs
  BY Zenon DEF QueuesOK
<1>5. PICK label : Goto(t, label) /\ label \notin Pending /\ label # "queueTx"
  <2>1. \A outcome : NextLabel(t, outcome) # "queueTx" /\ NextLabel(t, outcome) \notin Pending
    BY DEF NextLabel, Pending
  <2>2. "propose" # "queueTx" /\ "propose" \notin Pending
    BY DEF Pending
  <2>3. QED
    BY <1>1, <2>1, <2>2, Zenon DEF Continue, Leave
<1>6. UNCHANGED tx
  BY <1>1, Zenon DEF Continue, Leave, argVars
<1>7. /\ ~Proposed /\ ~Proposed'
      /\ \A u \in Threads : pc'[u] = "queueTx" <=> pc[u] = "queueTx"
  BY <1>3, <1>5, ProposedByHelper, Zenon
<1>8. \A x : /\ InFlight(x) = 0 + Copies(x, FreshTxQueue) + Copies(x, StaleTxQueue)
             /\ InFlight(x)' = 0 + Copies(x, FreshTxQueue)' + Copies(x, StaleTxQueue)'
  BY <1>7, NoCopies, Zenon DEF InFlight, ProposedTxs
<1>9. \A x \in Txs : Numbers(x)
  BY InFlightNow, Zenon DEF InFlightFacts
<1>10. ASSUME NEW x \in Txs PROVE InFlight(x)' <= InFlight(x)
  <2>1. /\ Copies(x, FreshTxQueue)' \in Nat /\ Copies(x, FreshTxQueue)' <= Copies(x, FreshTxQueue)
        /\ Copies(x, StaleTxQueue)' \in Nat /\ Copies(x, StaleTxQueue)' <= Copies(x, StaleTxQueue)
    BY <1>1, <1>4, BlankCopies, Zenon
  <2>2. QED
    BY <1>8, <1>9, <2>1 DEF Numbers
<1>11. ASSUME NEW x \in accepted' PROVE InFlight(x)' = InFlight(x)
  <2> DEFINE queue == FreshTxQueue \o StaleTxQueue
  <2>1. x \in Txs /\ \A i \in rejected : queue[i] # x
    BY <1>1, <1>4, Zenon
  <2>2. \A i \in Places(x, FreshTxQueue) : queue[0 + i] = x
    BY <1>4 DEF Places
  <2>3. \A i \in Places(x, StaleTxQueue) : queue[Len(FreshTxQueue) + i] = x
    BY <1>4 DEF Places
  <2> HIDE DEF queue
  <2>4. Copies(x, FreshTxQueue)' = Copies(x, FreshTxQueue)
    <3>1. \A i \in Places(x, FreshTxQueue) : 0 + i \notin rejected
      BY <2>1, <2>2, Zenon
    <3>2. Copies(x, Blank(FreshTxQueue, 0, rejected)) = Copies(x, FreshTxQueue)
      BY <1>4, <2>1, <3>1, BlankCopies, Zenon
    <3>3. QED
      BY <1>1, <3>2, Zenon
  <2>5. Copies(x, StaleTxQueue)' = Copies(x, StaleTxQueue)
    <3>1. \A i \in Places(x, StaleTxQueue) : Len(FreshTxQueue) + i \notin rejected
      BY <2>1, <2>3, Zenon
    <3>2. Copies(x, Blank(StaleTxQueue, Len(FreshTxQueue), rejected)) = Copies(x, StaleTxQueue)
      BY <1>4, <2>1, <3>1, BlankCopies, Zenon
    <3>3. QED
      BY <1>1, <3>2, Zenon
  <2>6. QED
    BY <1>8, <2>4, <2>5, Zenon
<1>12. accepted' \subseteq accepted
  BY <1>1, Zenon
<1>13. QED
  BY <1>2, <1>6, <1>7, <1>10, <1>11, <1>12, TxFrame, Zenon

(* ClearTxs moves what the block takes from the queues into the proposed   *)
(* block, and the rest into the stale queue.                               *)
LEMMA ProposedTxsInv ==
  ASSUME StateTypeOK, StorageInv, QueuesOK, QueuesOK', TxInv, NEW t \in Threads, pc[t] = "propose",
         UNCHANGED <<sent, blocks, LastBlock>>, proposals' = proposals + 1, Continue(t, "process"),
         NEW txs \in PreparedTxs(newTxQueue), block' = CreateProposalBlock(t, txs), RequeueTxs(txs)
  PROVE  TxInv'
<1>1. UNCHANGED tx /\ Goto(t, "process")
  BY Zenon DEF Continue, argVars
<1>2. /\ ~Proposed /\ Proposed' /\ \A u \in Threads : pc'[u] = "queueTx" <=> pc[u] = "queueTx"
  <2>1. pc[t] \in Critical /\ pc[t] \notin Pending /\ "process" \in Pending /\ "process" # "queueTx"
    BY DEF Critical, Pending
  <2>2. QED
    BY <1>1, <2>1, ProposedByHelper, Zenon DEF StorageInv
<1>3. ProposedTxs' = txs /\ FreshTxQueue' = <<>> /\ accepted' = accepted
  <2>1. block'.txs = txs
    BY DEF CreateProposalBlock
  <2>2. QED
    BY <1>2, <2>1, Zenon DEF ProposedTxs, RequeueTxs
<1>4. ASSUME NEW x \in Txs
      PROVE  /\ InFlight(x)' <= InFlight(x)
             /\ InFlight(x) > 0 => InFlight(x)' > 0
  <2>1. /\ Copies(x, txs) \in Nat /\ Copies(x, StaleTxQueue') \in Nat
        /\ Copies(x, txs) + Copies(x, StaleTxQueue') <= Copies(x, FreshTxQueue) + Copies(x, StaleTxQueue)
        /\ Copies(x, FreshTxQueue) + Copies(x, StaleTxQueue) > 0 =>
             Copies(x, txs) + Copies(x, StaleTxQueue') > 0
    BY RequeueCopies, Zenon DEF RequeueTxs
  <2>2. InFlight(x) = 0 + Copies(x, FreshTxQueue) + Copies(x, StaleTxQueue)
    BY <1>2, NoCopies, Zenon DEF InFlight, ProposedTxs
  <2>3. InFlight(x)' = Copies(x, txs) + 0 + Copies(x, StaleTxQueue')
    BY <1>3, NoCopies, Zenon DEF InFlight
  <2>4. Copies(x, FreshTxQueue) \in Nat /\ Copies(x, StaleTxQueue) \in Nat
    BY InFlightNow, Zenon DEF InFlightFacts, Numbers
  <2>5. QED
    BY <2>1, <2>2, <2>3, <2>4
<1>5. \A x \in Txs : CopiesOK(x)'
  BY <1>1, <1>2, <1>4, CopiesFall, Zenon DEF TxInv
<1>6. /\ proposals \in Nat /\ LastBlock.height \in Nat
      /\ proposals >= LastBlock.height + (IF Proposed THEN 1 ELSE 0)
  BY Zenon DEF StateTypeOK, ClientTypeOK, IsBlock, TxInv
<1>7. /\ proposals' >= LastBlock'.height + (IF Proposed' THEN 1 ELSE 0)
      /\ EveryProposalStored' => EveryProposalStored
  BY <1>2, <1>6 DEF EveryProposalStored
<1>8. ASSUME EveryProposalStored' PROVE TxsSomewhere'
  <2>1. \A x \in accepted : SomewhereElse(x)
    BY <1>7, <1>8, InFlightNow, Zenon DEF TxInv, InFlightFacts
  <2>2. StoredTxs' = StoredTxs /\ accepted' \subseteq Txs
    BY Zenon DEF StoredTxs, QueuesOK
  <2>3. \A x \in accepted' : SomewhereElse(x)'
    BY <1>3, <1>4, <2>1, <2>2, Zenon DEF SomewhereElse
  <2>4. QED
    BY <2>3, InFlightNext, Zenon DEF InFlightFacts
<1>9. QED
  BY <1>5, <1>7, <1>8, Zenon DEF TxInv

(* UpdateStores moves the transactions of the proposed block into the      *)
(* stored ones.                                                            *)
LEMMA StoredTxsInv ==
  ASSUME StateTypeOK, StorageInv, QueuesOK, QueuesOK', TxInv, NEW t \in Threads, StoreBlock(t)
  PROVE  TxInv'
<1>1. /\ pc[t] = "store" /\ UNCHANGED <<queueVars, sent, tx, block, proposals>> /\ Goto(t, "updateState")
  BY Zenon DEF StoreBlock, At, Continue, argVars, helperVars, inputVars
<1>2. UNCHANGED <<FreshTxQueue, StaleTxQueue, accepted>>
  BY <1>1, Zenon DEF queueVars
<1>3. LastBlock' = block /\ block.height = LastBlock.height + 1
  BY StoreAppends, Zenon
<1>4. Proposed /\ ~Proposed' /\ \A u \in Threads : pc'[u] = "queueTx" <=> pc[u] = "queueTx"
  <2>1. /\ pc[t] \in Critical /\ pc[t] \in Pending
        /\ "updateState" \notin Pending /\ "updateState" # "queueTx"
    BY <1>1, Zenon DEF Critical, Pending
  <2>2. QED
    BY <1>1, <2>1, ProposedByHelper, Zenon DEF StorageInv
<1>5. ProposedTxs = block.txs /\ ProposedTxs' = <<>>
  BY <1>4, Zenon DEF ProposedTxs
<1>6. ASSUME NEW x \in Txs PROVE CopiesOK(x)'
  <2>1. CopiesOK(x)
    BY Zenon DEF TxInv
  <2>2. IsFiniteSet(StoredPlaces(x)) /\ IsFiniteSet(Broadcasting(x))
    BY <2>1, Zenon DEF CopiesOK
  <2>3. /\ IsFiniteSet(StoredPlaces(x))'
        /\ Cardinality(StoredPlaces(x))' = Cardinality(StoredPlaces(x)) + Copies(x, block.txs)
    BY <2>2, StoredGrows, Zenon
  <2>4. Broadcasting(x)' = Broadcasting(x)
    BY <1>1, <1>4, SameBroadcasts, Zenon
  <2>5. Copies(x, ProposedTxs)' = 0 /\ Copies(x, ProposedTxs) = Copies(x, block.txs)
    BY <1>5, NoCopies, Zenon
  <2>6. Cardinality(StoredPlaces(x)) \in Nat /\ Cardinality(Broadcasting(x)) \in Nat
    BY <2>2, FS_CardinalityType, Zenon
  <2>7. Numbers(x)
    BY InFlightNow, Zenon DEF InFlightFacts
  <2>8. Cardinality(StoredPlaces(x)) + Copies(x, ProposedTxs) + Copies(x, FreshTxQueue)
          + Copies(x, StaleTxQueue) + Cardinality(Broadcasting(x)) <= sent[x]
    BY <2>1, Zenon DEF CopiesOK
  <2>9. sent[x] \in Nat
    BY Zenon DEF StateTypeOK, EnvironmentTypeOK
  <2>10. Cardinality(StoredPlaces(x))' + Copies(x, ProposedTxs)' + Copies(x, FreshTxQueue)
           + Copies(x, StaleTxQueue) + Cardinality(Broadcasting(x)) <= sent[x]
    BY <2>3, <2>5, <2>6, <2>7, <2>8, <2>9 DEF Numbers
  <2>11. QED
    BY <1>1, <1>2, <2>2, <2>3, <2>4, <2>10, Zenon DEF CopiesOK
<1>7. /\ proposals \in Nat /\ LastBlock.height \in Nat
      /\ proposals >= LastBlock.height + (IF Proposed THEN 1 ELSE 0)
  BY Zenon DEF StateTypeOK, ClientTypeOK, IsBlock, TxInv
<1>8. /\ proposals' >= LastBlock'.height + (IF Proposed' THEN 1 ELSE 0)
      /\ EveryProposalStored' => EveryProposalStored
  BY <1>1, <1>3, <1>4, <1>7 DEF EveryProposalStored
<1>9. ASSUME EveryProposalStored' PROVE TxsSomewhere'
  <2>1. TxsSomewhere
    BY <1>8, <1>9, Zenon DEF TxInv
  <2>2. StoredTxs' = StoredTxs \cup Range(block.txs)
    BY StoredTxsGrow, Zenon
  <2>3. QED
    BY <1>2, <1>5, <2>1, <2>2, Zenon DEF TxsSomewhere
<1>10. QED
  BY <1>6, <1>8, <1>9, Zenon DEF TxInv

(* BroadcastTx: the goroutine is about to put another copy into a queue.   *)
LEMMA BroadcastTxs ==
  ASSUME StateTypeOK, QueuesOK, QueuesOK', TxInv, NEW t \in Handlers, BroadcastTx(t)
  PROVE  TxInv'
<1>1. PICK y \in Txs : sent' = [sent EXCEPT ![y] = @ + 1] /\ tx' = [tx EXCEPT ![t] = y]
  BY Zenon DEF BroadcastTx
<1>2. /\ pc[t] = "idle" /\ pc' = [pc EXCEPT ![t] = "queueTx"]
      /\ UNCHANGED <<queueVars, blocks, block, LastBlock, proposals>>
  BY Zenon DEF BroadcastTx, At, Goto, helperVars, chainVars, storageVars
<1>3. t \in Threads /\ UNCHANGED <<FreshTxQueue, StaleTxQueue, accepted>>
  BY <1>2, Zenon DEF Threads, queueVars
<1>4. pc'[t] = "queueTx" /\ tx'[t] = y /\ \A u \in Threads \ {t} : pc'[u] = pc[u] /\ tx'[u] = tx[u]
  BY <1>1, <1>2, <1>3, Zenon DEF StateTypeOK, GoroutineTypeOK
<1>5. Proposed' <=> Proposed
  BY <1>2, <1>4, Zenon DEF Proposed
<1>6. ProposedTxs' = ProposedTxs /\ \A x : StoredPlaces(x)' = StoredPlaces(x)
  BY <1>2, <1>5, Zenon DEF ProposedTxs, StoredPlaces
<1>7. ASSUME NEW x \in Txs PROVE CopiesOK(x)'
  <2>1. CopiesOK(x)
    BY Zenon DEF TxInv
  <2>2. IsFiniteSet(StoredPlaces(x)) /\ IsFiniteSet(Broadcasting(x))
    BY <2>1, Zenon DEF CopiesOK
  <2>3. t \notin Broadcasting(x)
    BY <1>2, Zenon DEF Broadcasting
  <2>4. Broadcasting(x)' = {u \in Threads : pc'[u] = "queueTx" /\ tx'[u] = x}
    BY Zenon DEF Broadcasting
  <2>5. CASE x = y
    <3>1. \A u : u \in Broadcasting(x)' <=> u \in Broadcasting(x) \cup {t}
      BY <1>3, <1>4, <2>4, <2>5, Zenon DEF Broadcasting
    <3>2. Broadcasting(x)' = Broadcasting(x) \cup {t}
      BY <3>1, Zenon
    <3>3. IsFiniteSet(Broadcasting(x) \cup {t})
      BY <2>2, FS_AddElement, Zenon
    <3>4. Cardinality(Broadcasting(x) \cup {t}) = Cardinality(Broadcasting(x)) + 1
      BY <2>2, <2>3, FS_AddElement, Zenon
    <3>5. sent[x] \in Nat /\ sent'[x] = sent[x] + 1
      BY <1>1, <2>5, Zenon DEF StateTypeOK, EnvironmentTypeOK
    <3>6. Cardinality(StoredPlaces(x)) \in Nat /\ Cardinality(Broadcasting(x)) \in Nat
      BY <2>2, FS_CardinalityType, Zenon
    <3>7. Numbers(x)
      BY InFlightNow, Zenon DEF InFlightFacts
    <3>8. Cardinality(StoredPlaces(x)) + Copies(x, ProposedTxs) + Copies(x, FreshTxQueue)
            + Copies(x, StaleTxQueue) + Cardinality(Broadcasting(x)) <= sent[x]
      BY <2>1, Zenon DEF CopiesOK
    <3>9. Cardinality(StoredPlaces(x)) + Copies(x, ProposedTxs) + Copies(x, FreshTxQueue)
            + Copies(x, StaleTxQueue) + (Cardinality(Broadcasting(x)) + 1) <= sent[x] + 1
      BY <3>5, <3>6, <3>7, <3>8 DEF Numbers
    <3>10. QED
      BY <1>3, <1>6, <2>2, <3>2, <3>3, <3>4, <3>5, <3>9, Zenon DEF CopiesOK
  <2>6. CASE x # y
    <3>1. \A u : u \in Broadcasting(x)' <=> u \in Broadcasting(x)
      BY <1>2, <1>4, <2>3, <2>4, <2>6, Zenon DEF Broadcasting
    <3>2. Broadcasting(x)' = Broadcasting(x)
      BY <3>1, Zenon
    <3>3. sent'[x] = sent[x]
      BY <1>1, <2>6, Zenon DEF StateTypeOK, EnvironmentTypeOK
    <3>4. QED
      BY <1>3, <1>6, <2>1, <3>2, <3>3, Zenon DEF CopiesOK
  <2>7. QED
    BY <2>5, <2>6, Zenon
<1>8. StoredTxs' = StoredTxs /\ (EveryProposalStored' <=> EveryProposalStored)
  BY <1>2, <1>5, Zenon DEF StoredTxs, EveryProposalStored
<1>9. proposals' >= LastBlock'.height + (IF Proposed' THEN 1 ELSE 0)
  BY <1>2, <1>5, Zenon DEF TxInv
<1>10. QED
  BY <1>3, <1>6, <1>7, <1>8, <1>9, Zenon DEF TxInv, TxsSomewhere

(* QueueTx puts it there.                                                  *)
LEMMA QueuedTxs ==
  ASSUME StateTypeOK, QueuesOK, QueuesOK', TxInv, NEW t \in Handlers, QueueTx(t)
  PROVE  TxInv'
<1>1. /\ pc[t] = "queueTx" /\ FreshTxQueue' = Append(FreshTxQueue, tx[t])
      /\ accepted' = accepted \cup {tx[t]} /\ tx' = [tx EXCEPT ![t] = NoTx]
      /\ UNCHANGED <<StaleTxQueue, sent, blocks, block, LastBlock, proposals>>
  BY Zenon DEF QueueTx, At, helperVars, chainVars, inputVars, storageVars
<1>2. t \in Threads /\ tx[t] \in Txs /\ FreshTxQueue \in Seq(QueueEntry) /\ tx[t] \in QueueEntry
  BY <1>1, Zenon DEF Threads, QueuesOK, QueueEntry
<1>3. \A u \in Threads : pc'[u] = "queueTx" <=> pc[u] = "queueTx" /\ u # t
  <2>1. CASE AutoIncludeTx
    <3>1. PICK g \in AutoRunners : pc[g] = "idle" /\ pc' = [pc EXCEPT ![t] = "idle", ![g] = "readTime"]
      BY <2>1, Zenon DEF QueueTx
    <3>2. QED
      BY <3>1 DEF StateTypeOK, GoroutineTypeOK
  <2>2. CASE ~AutoIncludeTx
    BY <2>2 DEF QueueTx, Goto, StateTypeOK, GoroutineTypeOK
  <2>3. QED
    BY <2>1, <2>2, Zenon
<1>4. \A u \in Threads \ {t} : tx'[u] = tx[u]
  BY <1>1, Zenon DEF StateTypeOK, GoroutineTypeOK
<1>5. Proposed' <=> Proposed
  <2>1. MovesOutside
    BY OutsideSteps, Zenon
  <2>2. \A l \in Pending : l \in Critical
    BY DEF Pending, Critical
  <2>3. QED
    BY <2>1, <2>2, Zenon DEF MovesOutside, Proposed, Pending
<1>6. ProposedTxs' = ProposedTxs /\ \A x : StoredPlaces(x)' = StoredPlaces(x)
  BY <1>1, <1>5, Zenon DEF ProposedTxs, StoredPlaces
<1>7. \A x : Copies(x, FreshTxQueue') = IF tx[t] = x THEN Copies(x, FreshTxQueue) + 1
                                                     ELSE Copies(x, FreshTxQueue)
  BY <1>1, <1>2, CopiesAppend, Zenon
<1>8. ASSUME NEW x \in Txs PROVE CopiesOK(x)'
  <2>1. CopiesOK(x)
    BY Zenon DEF TxInv
  <2>2. IsFiniteSet(StoredPlaces(x)) /\ IsFiniteSet(Broadcasting(x))
    BY <2>1, Zenon DEF CopiesOK
  <2>3. Broadcasting(x)' = {u \in Threads : pc'[u] = "queueTx" /\ tx'[u] = x}
    BY Zenon DEF Broadcasting
  <2>4. \A u : u \in Broadcasting(x)' <=> u \in Broadcasting(x) /\ u # t
    BY <1>3, <1>4, <2>3, Zenon DEF Broadcasting
  <2>5. CASE tx[t] = x
    <3>1. t \in Broadcasting(x) /\ Broadcasting(x)' = Broadcasting(x) \ {t}
      BY <1>1, <1>2, <2>4, <2>5, Zenon DEF Broadcasting
    <3>2. IsFiniteSet(Broadcasting(x) \ {t})
      BY <2>2, FS_RemoveElement, Zenon
    <3>3. Cardinality(Broadcasting(x) \ {t}) = Cardinality(Broadcasting(x)) - 1
      BY <2>2, <3>1, FS_RemoveElement, Zenon
    <3>4. Copies(x, FreshTxQueue') = Copies(x, FreshTxQueue) + 1
      BY <1>7, <2>5, Zenon
    <3>5. Cardinality(StoredPlaces(x)) \in Nat /\ Cardinality(Broadcasting(x)) \in Nat
      BY <2>2, FS_CardinalityType, Zenon
    <3>6. Numbers(x)
      BY InFlightNow, Zenon DEF InFlightFacts
    <3>7. sent[x] \in Nat
      BY Zenon DEF StateTypeOK, EnvironmentTypeOK
    <3>8. Cardinality(StoredPlaces(x)) + Copies(x, ProposedTxs) + Copies(x, FreshTxQueue)
            + Copies(x, StaleTxQueue) + Cardinality(Broadcasting(x)) <= sent[x]
      BY <2>1, Zenon DEF CopiesOK
    <3>9. Cardinality(StoredPlaces(x)) + Copies(x, ProposedTxs) + (Copies(x, FreshTxQueue) + 1)
            + Copies(x, StaleTxQueue) + (Cardinality(Broadcasting(x)) - 1) <= sent[x]
      BY <3>5, <3>6, <3>7, <3>8 DEF Numbers
    <3>10. QED
      BY <1>1, <1>6, <2>2, <3>1, <3>2, <3>3, <3>4, <3>9, Zenon DEF CopiesOK
  <2>6. CASE tx[t] # x
    <3>1. Broadcasting(x)' = Broadcasting(x)
      BY <2>4, <2>6, Zenon DEF Broadcasting
    <3>2. Copies(x, FreshTxQueue') = Copies(x, FreshTxQueue)
      BY <1>7, <2>6, Zenon
    <3>3. QED
      BY <1>1, <1>6, <2>1, <3>1, <3>2, Zenon DEF CopiesOK
  <2>7. QED
    BY <2>5, <2>6, Zenon
<1>9. StoredTxs' = StoredTxs /\ (EveryProposalStored' <=> EveryProposalStored)
  BY <1>1, <1>5, Zenon DEF StoredTxs, EveryProposalStored
<1>10. proposals' >= LastBlock'.height + (IF Proposed' THEN 1 ELSE 0)
  BY <1>1, <1>5, Zenon DEF TxInv
<1>11. \A x : x \in Range(FreshTxQueue) \cup {tx[t]} => x \in Range(FreshTxQueue')
  BY <1>1, <1>2, AppendRange, Zenon
<1>12. EveryProposalStored' => TxsSomewhere'
  BY <1>1, <1>6, <1>9, <1>11, Zenon DEF TxInv, TxsSomewhere
<1>13. QED
  BY <1>8, <1>10, <1>12, Zenon DEF TxInv

(* The steps of RunBlock.                                                  *)
LEMMA RunBlockTxs ==
  ASSUME StateTypeOK, StorageInv, QueuesOK, QueuesOK', TxInv, NEW t \in Threads, RunBlock(t)
  PROVE  TxInv'
<1>1. CASE ReadLastBlockTime(t) \/ CallGetBlockTime(t) \/ ReadProposer(t)
  <2>1. MovesOutside
    BY <1>1, OutsideSteps, Zenon
  <2>2. UNCHANGED <<queueVars, sent, tx, blocks, block, LastBlock, proposals>>
    BY <1>1, Zenon DEF ReadLastBlockTime, CallGetBlockTime, ReadProposer, helperVars, chainVars,
       inputVars, storageVars
  <2>3. \A u \in Threads : pc'[u] = "queueTx" <=> pc[u] = "queueTx"
    BY <1>1 DEF ReadLastBlockTime, CallGetBlockTime, ReadProposer, At, Goto, StateTypeOK, GoroutineTypeOK
  <2>4. QED
    BY <2>1, <2>2, <2>3, OutsideTxs, Zenon
<1>2. CASE LockBlockMutex(t)
  <2>1. /\ pc[t] = "lock" /\ pc' = [pc EXCEPT ![t] = "checkTxs"]
        /\ UNCHANGED <<queueVars, sent, tx, blocks, block, LastBlock, proposals>>
    BY <1>2, Zenon DEF LockBlockMutex, At, Goto, argVars, helperVars, chainVars, inputVars, storageVars
  <2>2. UNCHANGED <<FreshTxQueue, StaleTxQueue, accepted>>
    BY <2>1, Zenon DEF queueVars
  <2>3. pc'[t] = "checkTxs" /\ \A u \in Threads \ {t} : pc'[u] = pc[u]
    BY <2>1, Zenon DEF StateTypeOK, GoroutineTypeOK
  <2>4. (Proposed' <=> Proposed) /\ \A u \in Threads : pc'[u] = "queueTx" <=> pc[u] = "queueTx"
    BY <2>1, <2>3, Zenon DEF Proposed
  <2>5. \A x : InFlight(x)' = InFlight(x)
    BY <2>1, <2>2, <2>4, Zenon DEF InFlight, ProposedTxs
  <2>6. \A x \in Txs : Numbers(x)
    BY InFlightNow, Zenon DEF InFlightFacts
  <2>7. \A x \in Txs : InFlight(x)' <= InFlight(x)
    BY <2>5, <2>6 DEF InFlight, Numbers
  <2>8. QED
    BY <2>1, <2>2, <2>4, <2>5, <2>7, TxFrame, Zenon
<1>3. CASE DecideProposal(t)
  <2>1. /\ pc[t] = "propose" /\ UNCHANGED <<sent, blocks, LastBlock>>
        /\ \/ \E outcome : Leave(t, outcome) /\ UNCHANGED <<proposals, queueVars>>
           \/ /\ \E txs \in PreparedTxs(newTxQueue) : block' = CreateProposalBlock(t, txs) /\ RequeueTxs(txs)
              /\ proposals' = proposals + 1 /\ Continue(t, "process")
    BY <1>3, Zenon DEF DecideProposal, At, inputVars, storageVars
  <2>2. pc[t] \in Critical
    BY <2>1, Zenon DEF Critical
  <2>3. CASE \E outcome : Leave(t, outcome) /\ UNCHANGED <<proposals, queueVars>>
    BY <2>1, <2>2, <2>3, HelperTxs, Zenon
  <2>4. CASE /\ \E txs \in PreparedTxs(newTxQueue) : block' = CreateProposalBlock(t, txs) /\ RequeueTxs(txs)
             /\ proposals' = proposals + 1 /\ Continue(t, "process")
    BY <2>1, <2>4, ProposedTxsInv, Zenon
  <2>5. QED
    BY <2>1, <2>3, <2>4, Zenon
<1>4. CASE \/ ProcessProposal(t) \/ ExtendAndSignVote(t) \/ MakeExtendedCommit(t)
           \/ SendFinalizeBlock(t) \/ UpdateStateFromBlock(t)
           \/ FireEvents(t) \/ SendCommit(t) \/ FinishBlock(t)
  <2>1. UNCHANGED <<queueVars, sent, blocks, LastBlock, proposals>>
    BY <1>4, Zenon DEF ProcessProposal, ExtendAndSignVote, MakeExtendedCommit, SendFinalizeBlock,
       UpdateStateFromBlock, FireEvents, EventsFired, EventsPanic, SendCommit, FinishBlock,
       UnlockAfterStateUpdate, storageVars, chainVars, inputVars
  <2>2. /\ pc[t] \in Critical
        /\ \/ \E outcome : Leave(t, outcome)
           \/ \E label \in {"sign", "finalize", "store"} :
                Continue(t, label) /\ UNCHANGED block /\ pc[t] \in {"process", "sign", "finalize"}
           \/ \E label \in {"fireEvents", "commit"} :
                Continue(t, label) /\ UNCHANGED block /\ pc[t] \in {"updateState", "fireEvents", "commit"}
    BY <1>4, Zenon DEF ProcessProposal, ExtendAndSignVote, MakeExtendedCommit, SendFinalizeBlock,
       UpdateStateFromBlock, FireEvents, EventsFired, EventsPanic, SendCommit, FinishBlock,
       helperVars, At, Critical
  <2>3. /\ \A label \in {"sign", "finalize", "store"} : label \in Critical /\ label \in Pending
        /\ \A label \in {"fireEvents", "commit"} : label \in Critical /\ label \notin Pending
        /\ pc[t] \in {"process", "sign", "finalize"} => pc[t] \in Pending
        /\ pc[t] \in {"updateState", "fireEvents", "commit"} => pc[t] \notin Pending
    BY DEF Critical, Pending
  <2>4. \/ \E outcome : Leave(t, outcome)
        \/ \E label \in Critical : /\ Continue(t, label) /\ UNCHANGED block
                                   /\ pc[t] \in Pending <=> label \in Pending
    BY <2>2, <2>3, Zenon
  <2>5. QED
    BY <2>1, <2>2, <2>4, HelperTxs, Zenon
<1>5. QED
  BY <1>1, <1>2, <1>3, <1>4, CheckedTxs, StoredTxsInv, Zenon DEF RunBlock, BlockStep

(* main, the clock, and the requests other than BroadcastTx.               *)
LEMMA OtherTxs ==
  ASSUME StateTypeOK, QueuesOK, QueuesOK', TxInv,
         \/ Startup \/ ClockTick \/ RequestAdvanceTime \/ SetSigningStatus
         \/ \E t \in Handlers : AdvanceBlocks(t) \/ CauseMisbehaviour(t)
  PROVE  TxInv'
<1>1. ASSUME NEW t \in Threads, NEW n, NEW m, StartRuns(t, n, m)
      PROVE  /\ UNCHANGED <<queueVars, sent, tx, blocks, block, LastBlock, proposals>>
             /\ \E label : Goto(t, label) /\ {pc[t], label} \cap (Critical \cup {"queueTx"}) = {} /\ label \in Labels
  BY <1>1, Zenon DEF StartRuns, At, helperVars, chainVars, storageVars, Critical, Labels
<1>2. /\ UNCHANGED <<queueVars, sent, tx, blocks, block, LastBlock, proposals>>
      /\ \/ UNCHANGED pc
         \/ \E t \in Threads, label \in Labels :
              Goto(t, label) /\ {pc[t], label} \cap (Critical \cup {"queueTx"}) = {}
  <2>1. CASE InitChain \/ RunFirstBlock \/ StartServer
    <3>1. UNCHANGED <<queueVars, sent, tx, blocks, block, LastBlock, proposals>>
      BY <2>1, Zenon DEF InitChain, RunFirstBlock, StartServer, argVars, helperVars, chainVars,
         inputVars, storageVars
    <3>2. /\ Main \in Threads /\ pc[Main] \in {"initChain", "firstBlock", "startServer"}
          /\ UNCHANGED pc \/ \E label \in {"firstBlock", "lock", "idle"} : Goto(Main, label)
      BY <2>1, Zenon DEF InitChain, RunFirstBlock, StartServer, At, Threads
    <3>3. \A a \in {"initChain", "firstBlock", "startServer"}, b \in {"firstBlock", "lock", "idle"} :
            {a, b} \cap (Critical \cup {"queueTx"}) = {} /\ b \in Labels
      BY DEF Critical, Labels
    <3>4. QED
      BY <3>1, <3>2, <3>3, Zenon
  <2>2. CASE ProduceBlock \/ \E t \in Handlers : AdvanceBlocks(t) \/ CauseMisbehaviour(t)
    <3>1. \E t \in Threads : \E n, m : StartRuns(t, n, m)
      BY <2>2, Zenon DEF ProduceBlock, AdvanceBlocks, CauseMisbehaviour, Threads
    <3>2. QED
      BY <1>1, <3>1, Zenon
  <2>3. CASE ClockTick \/ RequestAdvanceTime \/ SetSigningStatus
    BY <2>3, Zenon DEF ClockTick, RequestAdvanceTime, SetSigningStatus, argVars, helperVars, chainVars,
       inputVars, storageVars
  <2>4. QED
    BY <2>1, <2>2, <2>3, Zenon DEF Startup
<1>3. MovesOutside /\ \A u \in Threads : pc'[u] = "queueTx" <=> pc[u] = "queueTx"
  <2>1. CASE UNCHANGED pc
    BY <2>1, Zenon DEF MovesOutside, StateTypeOK, GoroutineTypeOK
  <2>2. CASE \E t \in Threads, label \in Labels :
               Goto(t, label) /\ {pc[t], label} \cap (Critical \cup {"queueTx"}) = {}
    <3>1. PICK t \in Threads, label \in Labels :
                 Goto(t, label) /\ {pc[t], label} \cap (Critical \cup {"queueTx"}) = {}
      BY <2>2, Zenon
    <3>2. /\ pc' \in [Threads -> Labels] /\ pc'[t] = label
          /\ \A u \in Threads \ {t} : pc'[u] = pc[u]
      BY <3>1, Zenon DEF Goto, StateTypeOK, GoroutineTypeOK
    <3>3. QED
      BY <3>1, <3>2, Zenon DEF MovesOutside
  <2>3. QED
    BY <1>2, <2>1, <2>2, Zenon
<1>4. QED
  BY <1>2, <1>3, OutsideTxs, Zenon

(* No step breaks TxInv.                                                   *)
LEMMA StepTxs ==
  StateTypeOK /\ StorageInv /\ QueuesOK /\ QueuesOK' /\ TxInv /\ [Next]_vars => TxInv'
<1>1. ASSUME StateTypeOK, StorageInv, QueuesOK, QueuesOK', TxInv, Next PROVE TxInv'
  <2>1. CASE \E t \in Threads : RunBlock(t)
    BY <1>1, <2>1, RunBlockTxs, Zenon
  <2>2. CASE \E t \in Handlers : BroadcastTx(t)
    BY <1>1, <2>2, BroadcastTxs, Zenon
  <2>3. CASE \E t \in Handlers : QueueTx(t)
    BY <1>1, <2>3, QueuedTxs, Zenon
  <2>4. CASE \/ Startup \/ ClockTick \/ RequestAdvanceTime \/ SetSigningStatus
             \/ \E t \in Handlers : AdvanceBlocks(t) \/ CauseMisbehaviour(t)
    BY <1>1, <2>4, OtherTxs, Zenon
  <2>5. QED
    BY <1>1, <2>1, <2>2, <2>3, <2>4, Zenon DEF Next, Step, RunBlock, Request
<1>2. ASSUME TxInv, UNCHANGED vars PROVE TxInv'
  <2>1. UNCHANGED <<FreshTxQueue, StaleTxQueue, accepted, sent, tx, pc, blocks, block, LastBlock, proposals>>
    BY <1>2, Zenon DEF vars, queueVars, inputVars, argVars, helperVars, chainVars, storageVars
  <2>2. /\ Proposed' = Proposed /\ ProposedTxs' = ProposedTxs /\ StoredTxs' = StoredTxs
        /\ \A x : StoredPlaces(x)' = StoredPlaces(x) /\ Broadcasting(x)' = Broadcasting(x)
    BY <2>1, Zenon DEF Proposed, ProposedTxs, StoredTxs, StoredPlaces, Broadcasting
  <2>3. QED
    BY <1>2, <2>1, <2>2, Zenon DEF TxInv, CopiesOK, EveryProposalStored, TxsSomewhere
<1>3. QED
  BY <1>1, <1>2, Zenon

(* Nothing is broadcast, queued or stored at first.                        *)
LEMMA InitTxs == Init => TxInv
<1> SUFFICES ASSUME Init PROVE TxInv
  OBVIOUS
<1>1. /\ FreshTxQueue = <<>> /\ StaleTxQueue = <<>> /\ accepted = {} /\ blocks = <<>>
      /\ proposals = 0 /\ LastBlock.height = 0
      /\ \A t \in Threads : pc[t] \in {"initChain", "idle"}
  BY Zenon DEF Init, StorageInit, EmptyBlock
<1>2. ~Proposed
  BY <1>1, Zenon DEF Proposed
<1>3. ASSUME NEW x \in Txs PROVE CopiesOK(x)
  <2>1. Broadcasting(x) = {}
    BY <1>1, Zenon DEF Broadcasting
  <2>2. StoredPlaces(x) = {}
    BY <1>1 DEF StoredPlaces
  <2>3. sent[x] = 0
    BY DEF Init
  <2>4. Copies(x, <<>>) = 0 /\ ProposedTxs = <<>>
    BY <1>2, NoCopies, Zenon DEF ProposedTxs
  <2>5. IsFiniteSet({}) /\ Cardinality({}) = 0
    BY FS_EmptySet, Zenon
  <2>6. QED
    BY <1>1, <2>1, <2>2, <2>3, <2>4, <2>5 DEF CopiesOK
<1>4. TxsSomewhere
  BY <1>1, Zenon DEF TxsSomewhere
<1>5. QED
  BY <1>1, <1>2, <1>3, <1>4 DEF TxInv

(* Every broadcast of a transaction is accounted for: the copies on the    *)
(* way to QueueTx, in the queues, in the proposed block and in the stored  *)
(* blocks are never more than the broadcasts, and as long as every         *)
(* proposal gets stored no accepted transaction has left them all.         *)
THEOREM TxInvHolds == Spec => []TxInv
<1>1. TypeOK => StateTypeOK /\ QueuesOK
  BY Zenon DEF TypeOK, QueuesOK, QueueEntry
<1>2. Spec => [](StateTypeOK /\ QueuesOK)
  BY <1>1, TypeCorrect, PTL
<1>3. QED
  BY <1>2, InvHolds, InitTxs, StepTxs, PTL DEF Spec

(* However RunBlock calls interleave and fail, the stored blocks never     *)
(* hold a transaction more often than it was broadcast.                    *)
THEOREM TxsAreNotDuplicated == Spec => []NoTxDuplicated
<1>1. StateTypeOK /\ QueuesOK /\ TxInv => NoTxDuplicated
  <2> SUFFICES ASSUME StateTypeOK, QueuesOK, TxInv, NEW x \in Txs
               PROVE  Cardinality(StoredPlaces(x)) <= sent[x]
    BY Zenon DEF NoTxDuplicated
  <2>1. CopiesOK(x)
    BY Zenon DEF TxInv
  <2>2. IsFiniteSet(StoredPlaces(x)) /\ IsFiniteSet(Broadcasting(x))
    BY <2>1, Zenon DEF CopiesOK
  <2>3. Cardinality(StoredPlaces(x)) \in Nat /\ Cardinality(Broadcasting(x)) \in Nat
    BY <2>2, FS_CardinalityType, Zenon
  <2>4. Numbers(x) /\ sent[x] \in Nat
    BY InFlightNow, Zenon DEF InFlightFacts, StateTypeOK, EnvironmentTypeOK
  <2>5. QED
    BY <2>1, <2>3, <2>4 DEF CopiesOK, Numbers
<1>2. TypeOK => StateTypeOK /\ QueuesOK
  BY Zenon DEF TypeOK, QueuesOK, QueueEntry
<1>3. QED
  BY <1>1, <1>2, TypeCorrect, TxInvHolds, PTL

(* A transaction that CheckTx accepted is lost only with a block that      *)
(* failed after ClearTxs: as long as every proposal has been stored, it is *)
(* in a queue, in the block being run or in a stored block.                *)
THEOREM TxsAreLostOnlyWithBlocks == Spec => []TxsLostOnlyWithBlocks
<1>1. TxInv => TxsLostOnlyWithBlocks
  <2> SUFFICES ASSUME TxInv, EveryProposalStored, NEW x \in accepted
               PROVE  x \in Range(FreshTxQueue) \cup Range(StaleTxQueue) \cup Range(block.txs) \cup StoredTxs
    BY Zenon DEF TxsLostOnlyWithBlocks, NoTxLost
  <2>1. x \in Range(FreshTxQueue) \cup Range(StaleTxQueue) \cup Range(ProposedTxs) \cup StoredTxs
    BY Zenon DEF TxInv, TxsSomewhere
  <2>2. CASE Proposed
    BY <2>1, <2>2, Zenon DEF ProposedTxs
  <2>3. CASE ~Proposed
    BY <2>1, <2>3, NoCopies, Zenon DEF ProposedTxs
  <2>4. QED
    BY <2>2, <2>3, Zenon
<1>2. QED
  BY <1>1, TxInvHolds, PTL
=============================================================================
