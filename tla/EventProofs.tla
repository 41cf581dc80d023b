---------------------------- MODULE EventProofs -----------------------------
(***************************************************************************)
(* The index holds what the storage holds, and lags behind it by no more   *)
(* than two blocks, whatever the subscribers do.                           *)
(***************************************************************************)
EXTENDS EventBus, StorageProofs, SequenceTheorems

-----------------------------------------------------------------------------
(* Block production with its event bus is block production.                *)

(* Publishing is no step of block production; fireEvents returns or panics *)
(* as it may without the bus.                                              *)
LEMMA FiringIsStep ==
  ASSUME NEW t \in Threads, FiringStep(t)
  PROVE  [Next]_vars
<1>1. CASE PublishEvent(t)
  BY <1>1, Zenon DEF PublishEvent
<1>2. CASE ReturnFromFireEvents(t)
  BY <1>2, Zenon DEF ReturnFromFireEvents, FireEvents, Next
<1>3. CASE PanicInFireEvents(t)
  BY <1>3, Zenon DEF PanicInFireEvents, FireEvents, Next
<1>4. QED
  BY <1>1, <1>2, <1>3, Zenon DEF FiringStep

(* Every step with the bus is one of block production or leaves its state  *)
(* alone.                                                                  *)
LEMMA BusStepIsStep == [BusNext]_<<vars, busVars>> => [Next]_vars
BY FiringIsStep, Zenon DEF BusNext, Next

(* The event bus, its indexer and its subscribers change nothing of what   *)
(* block production does: all that is proved of it holds with them.        *)
THEOREM EventsDoNotDisturb == BusSpec => Spec
BY BusStepIsStep, PTL DEF BusSpec, Spec

-----------------------------------------------------------------------------
(* The events of a block.                                                  *)

(* An event is made of its fields.                                         *)
LEMMA EventFields ==
  ASSUME NEW type \in EventTypes, NEW h \in Int, NEW n \in Nat, NEW x \in Txs \cup {NoTx}
  PROVE  /\ Event(type, h, n, x) \in EventSet
         /\ Event(type, h, n, x).type = type /\ Event(type, h, n, x).height = h
         /\ Event(type, h, n, x).n = n /\ Event(type, h, n, x).tx = x
BY DEF Event, EventSet

(* Sequences one after the other.                                          *)
LEMMA Concatenated ==
  ASSUME NEW S, NEW s \in Seq(S), NEW t \in Seq(S)
  PROVE  /\ s \o t \in Seq(S) /\ Len(s \o t) = Len(s) + Len(t)
         /\ \A k \in 1..Len(s) : (s \o t)[k] = s[k]
         /\ \A k \in 1..Len(t) : (s \o t)[Len(s) + k] = t[k]
         /\ \A k \in 1..Len(s \o t) : k \in 1..Len(s) \/ k - Len(s) \in 1..Len(t)
OBVIOUS

OfType(s, type) == \A k \in 1..Len(s) : s[k].type = type

(* Positions in a sequence that consists of two.                           *)
LEMMA Positions ==
  ASSUME NEW m \in Nat, NEW n \in Nat, NEW k \in 1..(m + n)
  PROVE  k \in 1..m \/ \E j \in 1..n : k = m + j
<1>1. CASE k > m
  <2>1. k - m \in 1..n /\ k = m + (k - m)
    BY <1>1
  <2>2. QED
    BY <2>1, Zenon
<1>2. CASE ~(k > m)
  BY <1>2
<1>3. QED
  BY <1>1, <1>2

(* An event of one type in a sequence that consists of two is in the part  *)
(* that has events of that type.                                           *)
LEMMA TypeInParts ==
  ASSUME NEW s \in Seq(EventSet), NEW t \in Seq(EventSet), NEW k \in 1..Len(s \o t)
  PROVE  \/ k \in 1..Len(s) /\ (s \o t)[k] = s[k]
         \/ \E j \in 1..Len(t) : k = Len(s) + j /\ (s \o t)[k] = t[j]
<1>1. /\ Len(s \o t) = Len(s) + Len(t) /\ Len(s) \in Nat /\ Len(t) \in Nat
      /\ \A i \in 1..Len(s) : (s \o t)[i] = s[i]
      /\ \A i \in 1..Len(t) : (s \o t)[Len(s) + i] = t[i]
  BY Concatenated
<1>2. k \in 1..(Len(s) + Len(t))
  BY <1>1
<1>3. k \in 1..Len(s) \/ \E j \in 1..Len(t) : k = Len(s) + j
  BY <1>1, <1>2, Positions, Zenon
<1>4. QED
  BY <1>1, <1>3, Zenon

(* NewBlockEvents is third, and there are no transactions,                 *)
Announces(s) ==
  \A k \in 1..Len(s) : s[k].type # "Tx" /\ (s[k].type = "NewBlockEvents" => k = 3)

(* or there are n of them after the first ones.                            *)
AnnouncesTxs(s, first, n) ==
  \A k \in 1..Len(s) : /\ s[k].type = "NewBlockEvents" => k = 3
                       /\ s[k].type = "Tx" => k - first \in 1..n

(* What announces a block, and its evidence.                               *)
LEMMA FrontOrder ==
  ASSUME NEW head \in Seq(EventSet), Announces(head),
         NEW evidence \in Seq(EventSet), OfType(evidence, "NewEvidence")
  PROVE  Announces(head \o evidence)
<1>1. SUFFICES ASSUME NEW k \in 1..Len(head \o evidence)
               PROVE  /\ (head \o evidence)[k].type # "Tx"
                      /\ (head \o evidence)[k].type = "NewBlockEvents" => k = 3
  BY Zenon DEF Announces
<1>2. \/ k \in 1..Len(head) /\ (head \o evidence)[k] = head[k]
      \/ \E j \in 1..Len(evidence) : k = Len(head) + j /\ (head \o evidence)[k] = evidence[j]
  BY TypeInParts, Zenon
<1>3. QED
  BY <1>2, Zenon DEF OfType, Announces

(* Its transactions,                                                       *)
LEMMA TxOrder ==
  ASSUME NEW front \in Seq(EventSet), Announces(front),
         NEW txs \in Seq(EventSet), OfType(txs, "Tx")
  PROVE  AnnouncesTxs(front \o txs, Len(front), Len(txs))
<1>1. SUFFICES ASSUME NEW k \in 1..Len(front \o txs)
               PROVE  /\ (front \o txs)[k].type = "NewBlockEvents" => k = 3
                      /\ (front \o txs)[k].type = "Tx" => k - Len(front) \in 1..Len(txs)
  BY Zenon DEF AnnouncesTxs
<1>2. \/ k \in 1..Len(front) /\ (front \o txs)[k] = front[k]
      \/ \E j \in 1..Len(txs) : k = Len(front) + j /\ (front \o txs)[k] = txs[j]
  BY TypeInParts, Zenon
<1>3. Len(front) \in Nat /\ \A j \in 1..Len(txs) : (Len(front) + j) - Len(front) = j
  OBVIOUS
<1>4. CASE k \in 1..Len(front) /\ (front \o txs)[k] = front[k]
  BY <1>4, Zenon DEF Announces
<1>5. CASE \E j \in 1..Len(txs) : k = Len(front) + j /\ (front \o txs)[k] = txs[j]
  BY <1>3, <1>5, Zenon DEF OfType
<1>6. QED
  BY <1>2, <1>4, <1>5, Zenon

(* and its validator updates.                                              *)
LEMMA UpdatesOrder ==
  ASSUME NEW middle \in Seq(EventSet), NEW first, NEW n, AnnouncesTxs(middle, first, n),
         NEW updates \in Seq(EventSet), OfType(updates, "ValidatorSetUpdates")
  PROVE  AnnouncesTxs(middle \o updates, first, n)
<1>1. SUFFICES ASSUME NEW k \in 1..Len(middle \o updates)
               PROVE  /\ (middle \o updates)[k].type = "NewBlockEvents" => k = 3
                      /\ (middle \o updates)[k].type = "Tx" => k - first \in 1..n
  BY Zenon DEF AnnouncesTxs
<1>2. \/ k \in 1..Len(middle) /\ (middle \o updates)[k] = middle[k]
      \/ \E j \in 1..Len(updates) : k = Len(middle) + j /\ (middle \o updates)[k] = updates[j]
  BY TypeInParts, Zenon
<1>3. QED
  BY <1>2, Zenon DEF OfType, AnnouncesTxs

(* The number of transactions is announced third, and then they follow in  *)
(* their order.                                                            *)
LEMMA EventShape ==
  ASSUME NEW b, NEW r, b.txs \in Seq(Txs), b.height \in Int
  PROVE  LET e == fireEvents(b, r)
             n == Len(b.txs)
             before == EventsBeforeTxs(b)
         IN  /\ e \in Seq(EventSet) /\ Len(e) >= before + n /\ Len(e) \in Nat
             /\ e[3] = Event("NewBlockEvents", b.height, n, NoTx)
             /\ \A i \in 1..n : e[before + i] = Event("Tx", b.height, i - 1, b.txs[i])
             /\ AnnouncesTxs(e, before, n)
<1> DEFINE n == Len(b.txs)
           before == EventsBeforeTxs(b)
           e == fireEvents(b, r)
           e1 == Event("NewBlock", b.height, 0, NoTx)
           e2 == Event("NewBlockHeader", b.height, 0, NoTx)
           e3 == Event("NewBlockEvents", b.height, n, NoTx)
           e4 == Event("NewEvidence", b.height, 0, NoTx)
           e5 == Event("ValidatorSetUpdates", b.height, 0, NoTx)
           evidence == IF b.evidence = NoMisbehaviour THEN <<>> ELSE <<e4>>
           txs == [i \in 1..n |-> Event("Tx", b.height, 0 + i - 1, b.txs[i])]
           updates == IF Updated(r.updates) = {} THEN <<>> ELSE <<e5>>
<1>1. n \in Nat
  OBVIOUS
<1>2. e = ((<<e1, e2, e3>> \o evidence) \o txs) \o updates
  BY Zenon DEF fireEvents, EventsOf
<1>3. /\ e1 \in EventSet /\ e1.type = "NewBlock" /\ e2 \in EventSet /\ e2.type = "NewBlockHeader"
      /\ e3 \in EventSet /\ e3.type = "NewBlockEvents"
      /\ e4 \in EventSet /\ e4.type = "NewEvidence"
      /\ e5 \in EventSet /\ e5.type = "ValidatorSetUpdates"
  <2>1. /\ \A type \in EventTypes : /\ Event(type, b.height, 0, NoTx) \in EventSet
                                    /\ Event(type, b.height, 0, NoTx).type = type
        /\ \A type \in EventTypes : /\ Event(type, b.height, n, NoTx) \in EventSet
                                    /\ Event(type, b.height, n, NoTx).type = type
    <3>1. 0 \in Nat /\ NoTx \in Txs \cup {NoTx}
      OBVIOUS
    <3>2. QED
      BY <1>1, <3>1, EventFields
  <2>2. QED
    BY <2>1, Zenon DEF EventTypes
<1>4. ASSUME NEW i \in 1..n
      PROVE  /\ txs[i] = Event("Tx", b.height, i - 1, b.txs[i])
             /\ txs[i] \in EventSet /\ txs[i].type = "Tx"
  <2>1. i - 1 \in Nat /\ 0 + i - 1 = i - 1 /\ b.txs[i] \in Txs
    BY <1>1
  <2>2. txs[i] = Event("Tx", b.height, i - 1, b.txs[i])
    BY <2>1
  <2>3. "Tx" \in EventTypes /\ b.txs[i] \in Txs \cup {NoTx}
    BY <2>1 DEF EventTypes
  <2>4. QED
    BY <2>1, <2>2, <2>3, EventFields
<1> HIDE DEF e1, e2, e3, e4, e5
<1>5. txs \in Seq(EventSet) /\ Len(txs) = n
  <2>1. txs \in [1..n -> EventSet]
    BY <1>4
  <2> HIDE DEF txs
  <2>2. QED
    BY <1>1, <2>1
<1> HIDE DEF n
<1>6. /\ evidence \in Seq(EventSet) /\ before = 3 + Len(evidence) /\ OfType(evidence, "NewEvidence")
      /\ Len(evidence) \in Nat
  BY <1>3 DEF EventsBeforeTxs, OfType
<1>7. updates \in Seq(EventSet) /\ OfType(updates, "ValidatorSetUpdates")
  BY <1>3 DEF OfType
<1>8. OfType(txs, "Tx")
  BY <1>4, <1>5, Zenon DEF OfType
<1> DEFINE head == <<e1, e2, e3>>
           front == head \o evidence
           middle == front \o txs
<1>9. e = middle \o updates
  BY <1>2, Zenon
<1>10. head \in Seq(EventSet) /\ Len(head) = 3 /\ head[3] = e3 /\ 3 \in 1..3 /\ Announces(head)
  BY <1>3 DEF Announces
<1> HIDE DEF evidence, updates, e, before, txs, head
<1>11. /\ front \in Seq(EventSet) /\ Len(front) = before /\ before \in Nat /\ before >= 3
       /\ front[3] = e3 /\ Announces(front)
  <2>1. /\ front \in Seq(EventSet) /\ Len(front) = Len(head) + Len(evidence)
        /\ \A k \in 1..Len(head) : front[k] = head[k]
    BY <1>6, <1>10, Concatenated, Zenon
  <2>2. Announces(front)
    BY <1>6, <1>10, FrontOrder, Zenon
  <2> HIDE DEF front
  <2>3. QED
    BY <1>6, <1>10, <2>1, <2>2
<1> HIDE DEF front
<1>12. /\ middle \in Seq(EventSet) /\ Len(middle) = before + n /\ middle[3] = e3
       /\ \A i \in 1..n : middle[before + i] = txs[i]
       /\ AnnouncesTxs(middle, before, n)
  <2>1. /\ middle \in Seq(EventSet) /\ Len(middle) = Len(front) + Len(txs)
        /\ \A k \in 1..Len(front) : middle[k] = front[k]
        /\ \A k \in 1..Len(txs) : middle[Len(front) + k] = txs[k]
    <3>1. front \in Seq(EventSet) /\ txs \in Seq(EventSet)
      BY <1>5, <1>11, Zenon
    <3>2. /\ front \o txs \in Seq(EventSet) /\ Len(front \o txs) = Len(front) + Len(txs)
          /\ \A k \in 1..Len(front) : (front \o txs)[k] = front[k]
      BY <3>1, Concatenated, Zenon
    <3>3. \A k \in 1..Len(txs) : (front \o txs)[Len(front) + k] = txs[k]
      BY <3>1, Concatenated
    <3>4. QED
      BY <3>2, <3>3, Zenon
  <2>2. AnnouncesTxs(middle, Len(front), Len(txs))
    BY <1>5, <1>8, <1>11, TxOrder, Zenon
  <2>3. 3 \in 1..Len(front)
    BY <1>11
  <2> HIDE DEF middle
  <2>4. QED
    BY <1>5, <1>11, <2>1, <2>2, <2>3, Zenon
<1> HIDE DEF middle
<1>13. /\ e \in Seq(EventSet) /\ Len(e) >= before + n /\ Len(e) \in Nat /\ e[3] = e3
       /\ \A i \in 1..n : e[before + i] = txs[i]
       /\ AnnouncesTxs(e, before, n)
  <2>1. /\ e \in Seq(EventSet) /\ Len(e) = Len(middle) + Len(updates)
        /\ \A k \in 1..Len(middle) : e[k] = middle[k]
    BY <1>7, <1>9, <1>12, Concatenated
  <2>2. AnnouncesTxs(e, before, n)
    BY <1>7, <1>9, <1>12, UpdatesOrder
  <2>3. /\ 3 \in 1..Len(middle) /\ Len(updates) \in Nat
        /\ \A i \in 1..n : before + i \in 1..Len(middle)
    BY <1>1, <1>7, <1>11, <1>12
  <2>4. Len(e) >= before + n /\ Len(e) \in Nat
    BY <1>1, <1>11, <1>12, <2>1, <2>3
  <2>5. QED
    BY <1>12, <2>1, <2>2, <2>3, <2>4, Zenon
<1>14. \A i \in 1..n : e[before + i] = Event("Tx", b.height, i - 1, b.txs[i])
  BY <1>4, <1>5, <1>13, Zenon
<1>15. QED
  BY <1>13, <1>14, Zenon DEF e, n, before, e3

-----------------------------------------------------------------------------
(* Steps of block production, as the bus sees them.                        *)

(* While fireEvents publishes, the others can only do what leaves the      *)
(* block that is published and the storage alone.                          *)
LEMMA StepWhileFiring ==
  ASSUME StateTypeOK, StorageInv, Firing, Step
  PROVE  Firing' /\ UNCHANGED guardedVars
<1>0. PICK u \in Threads : pc[u] = "fireEvents"
  BY Zenon DEF Firing
<1>1. Locks /\ Starting
  BY Zenon DEF StorageInv
<1>2. blockMutex = u /\ u # Free /\ pc[Main] # "initChain"
  BY <1>0, <1>1, ThreadsAreDistinct, Zenon DEF Locks, Starting, Critical, Threads
<1>3. ASSUME NEW t \in Threads, BlockStep(t), ~ReadLastBlockTime(t), ~CallGetBlockTime(t), ~ReadProposer(t)
      PROVE  FALSE
  <2>1. CASE t = u
    BY <1>0, <1>3, <2>1, Zenon DEF BlockStep, LockBlockMutex, CheckTxs, DecideProposal, ProcessProposal,
       ExtendAndSignVote, MakeExtendedCommit, SendFinalizeBlock, StoreBlock, UpdateStateFromBlock,
       SendCommit, FinishBlock, At
  <2>2. CASE t # u
    <3>1. pc[t] \notin Critical
      BY <1>0, <1>1, <2>2, Exclusion, Zenon DEF Critical
    <3>2. QED
      BY <1>2, <1>3, <3>1, Zenon DEF BlockStep, LockBlockMutex, CheckTxs, DecideProposal, ProcessProposal,
         ExtendAndSignVote, MakeExtendedCommit, SendFinalizeBlock, StoreBlock, UpdateStateFromBlock,
         SendCommit, FinishBlock, At, Critical
  <2>3. QED
    BY <2>1, <2>2, Zenon
<1>4. ~InitChain
  BY <1>2, Zenon DEF InitChain, At
<1>5. MovesOutside /\ UNCHANGED guardedVars
  BY <1>3, <1>4, OutsideSteps, Zenon DEF Step, Startup
<1>6. pc'[u] = "fireEvents"
  BY <1>0, <1>5, Zenon DEF MovesOutside, Critical
<1>7. QED
  BY <1>5, <1>6, Zenon DEF Firing

(* fireEvents is called by UpdateStateFromBlock only.                      *)
LEMMA StepToFiring ==
  ASSUME StateTypeOK, ~Firing, Step, ~\E t \in Threads : UpdateStateFromBlock(t) /\ UpdateAllowed
  PROVE  ~Firing'
<1>0. pc \in [Threads -> Labels] /\ Main \in Threads
  BY Zenon DEF StateTypeOK, GoroutineTypeOK, Threads
<1>1. ASSUME NEW t \in Threads, NEW label, label # "fireEvents", pc' = [pc EXCEPT ![t] = label]
      PROVE  ~Firing'
  BY <1>0, <1>1, Zenon DEF Firing
<1>2. ASSUME NEW t \in Threads, NEW outcome, Leave(t, outcome)
      PROVE  ~Firing'
  <2>1. NextLabel(t, outcome) # "fireEvents"
    BY Zenon DEF NextLabel
  <2>2. QED
    BY <1>1, <1>2, <2>1, Zenon DEF Leave, Goto
<1>3. ASSUME NEW t \in Threads, NEW label, label # "fireEvents", Continue(t, label)
      PROVE  ~Firing'
  BY <1>1, <1>3, Zenon DEF Continue, Goto
<1>4. ASSUME NEW t \in Threads, BlockStep(t)
      PROVE  ~Firing' \/ ReadLastBlockTime(t) \/ CallGetBlockTime(t) \/ ReadProposer(t)
  <2>1. CASE LockBlockMutex(t)
    BY <1>1, <2>1, Zenon DEF LockBlockMutex, Goto
  <2>2. CASE CheckTxs(t) \/ DecideProposal(t) \/ ProcessProposal(t)
    BY <1>2, <1>3, <2>2, Zenon DEF CheckTxs, DecideProposal, ProcessProposal
  <2>3. CASE ExtendAndSignVote(t) \/ MakeExtendedCommit(t) \/ SendFinalizeBlock(t)
    BY <1>2, <1>3, <2>3, Zenon DEF ExtendAndSignVote, MakeExtendedCommit, SendFinalizeBlock
  <2>4. CASE StoreBlock(t) \/ UpdateStateFromBlock(t) \/ SendCommit(t) \/ FinishBlock(t)
    BY <1>2, <1>3, <2>4, Zenon DEF StoreBlock, UpdateStateFromBlock, SendCommit, FinishBlock
  <2>5. QED
    BY <1>4, <2>1, <2>2, <2>3, <2>4, Zenon DEF BlockStep
<1>5. CASE InitChain
  <2>1. pc' = pc \/ pc' = [pc EXCEPT ![Main] = "firstBlock"]
    BY <1>5, Zenon DEF InitChain, Goto
  <2>2. QED
    BY <1>0, <1>1, <2>1, Zenon DEF Firing
<1>6. CASE MovesOutside
  BY <1>6, Zenon DEF MovesOutside, Firing, Critical
<1>7. QED
  BY <1>4, <1>5, <1>6, OutsideSteps, Zenon DEF Step, Startup

-----------------------------------------------------------------------------
(* What the index may rely on.                                             *)

ClientInv == TypeOK /\ StorageInv /\ AppInv /\ TipInv

(* The block whose events are published is the newest one, and CurState is *)
(* the state after it.                                                     *)
LEMMA FiringTip ==
  ASSUME ClientInv, Firing
  PROVE  /\ CurState.LastBlockHeight \in Nat \ {0} /\ block.height = CurState.LastBlockHeight
         /\ CurState.LastBlockHeight \in DOMAIN blocks /\ blocks[CurState.LastBlockHeight] = block
<1>0. PICK t \in Threads : pc[t] = "fireEvents"
  BY Zenon DEF Firing
<1>1. CurState.LastBlockHeight = LastBlock.height /\ block = LastBlock /\ ~Unstarted
  BY <1>0, Zenon DEF ClientInv, StorageInv, Stages, Stage, StateOfLastBlock, AppInv, AppStage, Unstarted
<1>2. CurState.LastBlockHeight \in Nat /\ CurState.LastBlockHeight > 0
  BY <1>1, Zenon DEF ClientInv, TipInv, TypeOK, StateTypeOK, ClientTypeOK, State
<1>3. DOMAIN blocks = 1..LastBlock.height /\ (LastBlock.height > 0 => LastBlock = blocks[LastBlock.height])
  BY Zenon DEF ClientInv, StorageInv, Stores, StoresAgree
<1>4. QED
  BY <1>1, <1>2, <1>3

(* Every height that was announced is stored.                              *)
LEMMA AnnouncedIsStored ==
  ASSUME ClientInv
  PROVE  Announced \in Nat /\ 1..Announced \subseteq DOMAIN blocks
<1>1. CurState.LastBlockHeight \in Nat /\ (Firing => CurState.LastBlockHeight > 0)
  <2>1. CASE Firing
    BY <2>1, FiringTip
  <2>2. CASE ~Firing
    BY <2>2, Zenon DEF ClientInv, TypeOK, StateTypeOK, ClientTypeOK, State
  <2>3. QED
    BY <2>1, <2>2, Zenon
<1>2. Announced \in Nat /\ Announced <= CurState.LastBlockHeight
  BY <1>1 DEF Announced
<1>3. /\ DOMAIN blocks = 1..LastBlock.height
      /\ LastBlock.height \in {CurState.LastBlockHeight, CurState.LastBlockHeight + 1}
  BY Zenon DEF ClientInv, StorageInv, Stores, StoresAgree, TipInv
<1>4. QED
  BY <1>1, <1>2, <1>3

(* What the indexer has taken was announced.                               *)
LEMMA IndexedIsAnnounced ==
  ASSUME ClientInv, InHandOK
  PROVE  /\ Indexed \in Nat /\ Indexed <= Announced
         /\ Indexed > 0 => Indexed \in 1..Announced
         /\ Indexed = IF Offered("NewBlockEvents") THEN Announced - 1 ELSE Announced
         /\ 1..Indexed \subseteq 1..Announced
<1>1. Announced \in Nat /\ (Offered("NewBlockEvents") => Announced > 0)
  BY AnnouncedIsStored, Zenon DEF InHandOK
<1>2. QED
  BY <1>1 DEF Indexed

(* Steps that are none of the bus, and steps of the subscribers.           *)
IndexUnchanged == UNCHANGED <<inHand, waiting, indexVars>>

(* They leave everything as it is, up to the announced height.             *)
LEMMA IndexFrame ==
  ASSUME ClientInv, BusInv, IndexUnchanged, Announced' = Announced, StoresKept
  PROVE  InHandOK' /\ BatchOK' /\ IndexOK' /\ IndexMatchesStores'
<1>0. InHandOK /\ BatchOK /\ IndexOK /\ IndexMatchesStores
  BY Zenon DEF BusInv
<1>1. /\ inHand' = inHand /\ waiting' = waiting /\ batch' = batch /\ blockIndex' = blockIndex
      /\ txIndex' = txIndex
  BY Zenon DEF IndexUnchanged, indexVars
<1>2. /\ \A type : Offered(type)' = Offered(type)
      /\ Indexed' = Indexed
  BY <1>1, Zenon DEF Offered, Indexed
<1>3. /\ \A h \in 1..Announced : blocks'[h] = blocks[h] /\ \A i : TxEvent(h, i)' = TxEvent(h, i)
      /\ \A h \in DOMAIN blocks : h \in DOMAIN blocks' /\ blocks'[h] = blocks[h]
  BY AnnouncedIsStored, Zenon DEF StoresKept, TxEvent
<1>4. Indexed \in Nat /\ (Indexed > 0 => Indexed \in 1..Announced) /\ 1..Indexed \subseteq 1..Announced
  BY <1>0, IndexedIsAnnounced, Zenon
<1>5. Announced > 0 => Announced \in 1..Announced
  BY AnnouncedIsStored
<1>6. BatchOK'
  BY <1>0, <1>1, <1>2, <1>3, <1>4, Zenon DEF BatchOK
<1>7. InHandOK'
  BY <1>0, <1>1, <1>2, <1>3, <1>4, <1>5, Zenon DEF InHandOK, BatchOK
<1>8. IndexOK'
  BY <1>0, <1>1, <1>2, <1>3, <1>4, Zenon DEF IndexOK
<1>9. IndexMatchesStores'
  BY <1>0, <1>1, <1>3, Zenon DEF IndexMatchesStores
<1>10. QED
  BY <1>6, <1>7, <1>8, <1>9, Zenon

(* When nothing of a block has been published, nothing is left to show.    *)
LEMMA NothingFired ==
  ASSUME TypeOK', fired' = 0
  PROVE  FiringOK'
<1>1. block'.txs \in Seq(Txs) /\ block'.height \in Int
  BY DEF TypeOK, StateTypeOK, GoroutineTypeOK, IsBlock
<1>2. Len(fireEvents(block', res')) \in Nat
  BY <1>1, EventShape, Zenon
<1>3. fired' \in 0..Len(fireEvents(block', res'))
  BY <1>2
<1>4. ~(fired' >= 3)
  OBVIOUS
<1>5. fireEvents(block, res)' = fireEvents(block', res')
  BY Zenon DEF fireEvents, EventsOf, Event
<1>6. QED
  BY <1>3, <1>4, <1>5, Zenon DEF FiringOK

(* A step of block production other than fireEvents.                       *)
LEMMA ProductionInv ==
  ASSUME ClientInv, BusInv, Step, UNCHANGED busVars, TypeOK', StoresKept
  PROVE  BusInv'
<1>0. IndexUnchanged /\ fired' = fired /\ FiringOK /\ StateTypeOK /\ StorageInv /\ Next
  BY Zenon DEF busVars, IndexUnchanged, BusInv, ClientInv, TypeOK, Next
<1>1. CASE Firing
  <2>1. Firing' /\ UNCHANGED <<block, res, CurState>>
    BY <1>0, <1>1, StepWhileFiring, Zenon DEF guardedVars, helperVars
  <2>2. Announced' = Announced
    BY <1>0, <1>1, <2>1, Zenon DEF Announced
  <2>3. FiringOK'
    BY <1>0, <1>1, <2>1, Zenon DEF FiringOK, TxsPublished, TxsTaken, Offered, IndexUnchanged, indexVars
  <2>4. QED
    BY <2>2, <2>3, <1>0, IndexFrame, Zenon DEF BusInv
<1>2. CASE ~Firing
  <2>1. fired = 0 /\ Announced = CurState.LastBlockHeight
    BY <1>0, <1>2, Zenon DEF FiringOK, Announced
  <2>2. FiringOK'
    BY <1>0, <2>1, NothingFired, Zenon
  <2>3. CASE \E t \in Threads : UpdateStateFromBlock(t) /\ UpdateAllowed
    <3>1. PICK t \in Threads : UpdateStateFromBlock(t) /\ UpdateAllowed
      BY <2>3, Zenon
    <3>2. /\ pc[t] = "updateState" /\ pc' = [pc EXCEPT ![t] = "fireEvents"]
          /\ \E next : CurState' = UpdateState(next)
      BY <3>1, Zenon DEF UpdateStateFromBlock, At, Continue, Goto
    <3>3. Firing'
      BY <1>0, <3>2, Zenon DEF Firing, StateTypeOK, GoroutineTypeOK
    <3>4. CurState'.LastBlockHeight = block.height
      BY <3>2 DEF UpdateState
    <3>5. block.height = CurState.LastBlockHeight + 1
      BY <1>0, <3>2, Zenon DEF StorageInv, Stages, Stage
    <3>6. CurState.LastBlockHeight \in Nat
      BY <1>0, Zenon DEF StateTypeOK, ClientTypeOK, State
    <3>7. Announced' = CurState'.LastBlockHeight - 1
      <4>1. fired' < 3
        BY <1>0, <2>1
      <4>2. QED
        BY <3>3, <4>1, Zenon DEF Announced
    <3>8. Announced' = Announced
      BY <2>1, <3>4, <3>5, <3>6, <3>7
    <3>9. QED
      BY <1>0, <2>2, <3>8, IndexFrame, Zenon DEF BusInv
  <2>4. CASE ~\E t \in Threads : UpdateStateFromBlock(t) /\ UpdateAllowed
    <3>1. ~Firing' /\ CurState'.LastBlockHeight = CurState.LastBlockHeight
      BY <1>0, <1>2, <2>4, StepToFiring, OnlyUpdateMovesState, Zenon
    <3>2. Announced' = Announced
      BY <2>1, <3>1, Zenon DEF Announced
    <3>3. QED
      BY <1>0, <2>2, <3>2, IndexFrame, Zenon DEF BusInv
  <2>5. QED
    BY <2>3, <2>4, Zenon
<1>3. QED
  BY <1>1, <1>2, Zenon

(* The events of the block that fireEvents publishes.                      *)
LEMMA BlockEvents ==
  ASSUME ClientInv
  PROVE  LET e == fireEvents(block, res)
             n == Len(block.txs)
             before == EventsBeforeTxs(block)
         IN  /\ e \in Seq(EventSet) /\ Len(e) >= before + n /\ Len(e) \in Nat
             /\ n \in Nat /\ before \in {3, 4}
             /\ e[3] = Event("NewBlockEvents", block.height, n, NoTx)
             /\ \A i \in 1..n : e[before + i] = Event("Tx", block.height, i - 1, block.txs[i])
             /\ AnnouncesTxs(e, before, n)
<1>1. block.txs \in Seq(Txs) /\ block.height \in Int
  BY DEF ClientInv, TypeOK, StateTypeOK, GoroutineTypeOK, IsBlock
<1>2. Len(block.txs) \in Nat
  BY <1>1
<1>3. EventsBeforeTxs(block) \in {3, 4}
  BY Zenon DEF EventsBeforeTxs
<1>4. QED
  BY <1>1, <1>2, <1>3, EventShape, Zenon

(* fireEvents ends after all events, or before a transaction: the number   *)
(* of transactions was published.                                          *)
LEMMA EndOfFiringInv ==
  ASSUME ClientInv, BusInv, NEW t \in Threads, ReturnFromFireEvents(t) \/ PanicInFireEvents(t),
         TypeOK', StoresKept
  PROVE  BusInv'
<1>0. StorageInv /\ StateTypeOK /\ FiringOK
  BY Zenon DEF ClientInv, TypeOK, BusInv
<1>1. /\ pc[t] = "fireEvents" /\ UNCHANGED CurState /\ fired' = 0
      /\ UNCHANGED <<inHand, waiting, indexVars>>
      /\ \E label : label # "fireEvents" /\ pc' = [pc EXCEPT ![t] = label]
  <2>1. \A outcome : NextLabel(t, outcome) # "fireEvents"
    BY Zenon DEF NextLabel
  <2>2. QED
    BY <2>1, Zenon DEF ReturnFromFireEvents, PanicInFireEvents, EventsFired, EventsPanic, At, Leave, Continue,
       Goto, chainVars
<1>2. Firing /\ ~Firing'
  <2>1. \A u \in Threads \ {t} : pc[u] # "fireEvents"
    BY <1>0, <1>1, Exclusion, Zenon DEF StorageInv, Critical
  <2>2. QED
    BY <1>0, <1>1, <2>1, Zenon DEF Firing, StateTypeOK, GoroutineTypeOK
<1>3. fired \in Nat /\ fired >= 3
  <2> DEFINE e == fireEvents(block, res)
             n == Len(block.txs)
             before == EventsBeforeTxs(block)
  <2>1. /\ Len(e) >= before + n /\ Len(e) \in Nat /\ n \in Nat /\ before \in {3, 4}
        /\ AnnouncesTxs(e, before, n)
    BY BlockEvents, Zenon
  <2>2. fired \in 0..Len(e)
    BY <1>0, Zenon DEF FiringOK
  <2> HIDE DEF e, n, before
  <2>3. CASE ReturnFromFireEvents(t)
    <3>1. fired = Len(e)
      BY <2>3, Zenon DEF ReturnFromFireEvents, e
    <3>2. QED
      BY <2>1, <3>1
  <2>4. CASE PanicInFireEvents(t)
    <3>1. fired < Len(e) /\ e[fired + 1].type = "Tx"
      BY <2>4, Zenon DEF PanicInFireEvents, e
    <3>2. fired + 1 \in 1..Len(e)
      BY <2>1, <2>2, <3>1
    <3>3. (fired + 1) - before \in 1..n
      BY <2>1, <3>1, <3>2, Zenon DEF AnnouncesTxs
    <3>4. QED
      BY <2>1, <2>2, <3>3
  <2>5. QED
    BY <2>3, <2>4, Zenon
<1>4. Announced' = Announced
  <2>1. ~(fired < 3)
    BY <1>3
  <2>2. QED
    BY <1>1, <1>2, <2>1, Zenon DEF Announced
<1>5. FiringOK'
  BY <1>1, NothingFired, Zenon
<1>6. QED
  BY <1>1, <1>4, <1>5, IndexFrame, Zenon DEF BusInv, IndexUnchanged

(* An event goes to the indexer if it is one of the two types.             *)
LEMMA IndexerReceives ==
  ASSUME NEW e
  PROVE  Indexer \in Receivers(e) <=> e.type \in {"NewBlockEvents", "Tx"}
BY BusConstantsHaveTypes, Zenon DEF Receivers

(* PublishEvent.  While the loop was idle, the indexer had taken all that  *)
(* was published.                                                          *)
LEMMA PublishInv ==
  ASSUME ClientInv, BusInv, NEW t \in Threads, PublishEvent(t)
  PROVE  BusInv'
<1> DEFINE events == fireEvents(block, res)
           n == Len(block.txs)
           before == EventsBeforeTxs(block)
           H == CurState.LastBlockHeight
           e == events[fired + 1]
<1>0. InHandOK /\ BatchOK /\ FiringOK /\ IndexOK /\ IndexMatchesStores
  BY Zenon DEF BusInv
<1>1. /\ pc[t] = "fireEvents" /\ inHand = <<>> /\ fired < Len(events)
      /\ fired' = fired + 1 /\ waiting' = Receivers(e)
      /\ inHand' = IF Receivers(e) = {} THEN <<>> ELSE <<e>>
      /\ UNCHANGED <<batch, blockIndex, txIndex, pc, block, res, CurState, blocks>>
  BY Zenon DEF PublishEvent, At, indexVars, vars, helperVars, chainVars, storageVars
<1>2. Firing /\ Firing'
  BY <1>1, Zenon DEF Firing
<1>3. waiting = {} /\ \A type : ~Offered(type)
  BY <1>0, <1>1, Zenon DEF InHandOK, Offered
<1>4. /\ Len(events) \in Nat /\ n \in Nat /\ before \in {3, 4}
      /\ events[3] = Event("NewBlockEvents", block.height, n, NoTx)
      /\ \A i \in 1..n : events[before + i] = Event("Tx", block.height, i - 1, block.txs[i])
      /\ AnnouncesTxs(events, before, n)
  BY BlockEvents, Zenon
<1>5. H \in Nat \ {0} /\ block.height = H /\ H \in DOMAIN blocks /\ blocks[H] = block
  BY <1>2, FiringTip, Zenon
<1>6. fired \in Nat /\ fired + 1 \in 1..Len(events) /\ fired' \in 0..Len(events)
  <2>1. fired \in 0..Len(events)
    BY <1>0, Zenon DEF FiringOK
  <2> HIDE DEF events
  <2>2. QED
    BY <1>1, <1>4, <2>1
<1>7. Indexed = Announced
  BY <1>3, Zenon DEF Indexed
<1>8. /\ inHand' = <<>> <=> waiting' = {}
      /\ inHand' # <<>> => inHand' = <<e>> /\ Head(inHand') = e /\ inHand' = <<Head(inHand')>>
      /\ Indexer \in waiting' => e.type \in {"NewBlockEvents", "Tx"}
      /\ e.type \in {"NewBlockEvents", "Tx"} => Indexer \in waiting' /\ Head(inHand') = e
      /\ \A type : Offered(type)' <=> Indexer \in waiting' /\ Head(inHand').type = type
  <2> HIDE DEF e
  <2>1. Head(<<e>>) = e /\ <<e>> # <<>>
    OBVIOUS
  <2>2. QED
    BY <1>1, <2>1, IndexerReceives, Zenon DEF Offered
<1>9. ASSUME Indexed' = Indexed PROVE BatchOK' /\ IndexOK' /\ IndexMatchesStores'
  BY <1>0, <1>1, <1>9, Zenon DEF BatchOK, IndexOK, IndexMatchesStores, TxEvent
<1>10. TxsPublished = IF fired <= before THEN 0 ELSE IF fired >= before + n THEN n ELSE fired - before
  BY Zenon DEF TxsPublished
<1>11. TxsPublished' = IF fired' <= before THEN 0 ELSE IF fired' >= before + n THEN n ELSE fired' - before
  BY <1>1, Zenon DEF TxsPublished
<1>12. fireEvents(block, res)' = events
  BY <1>1, Zenon DEF fireEvents, EventsOf, Event
<1>13. /\ (fired + 1) - before \in 1..n =>
             TxsPublished = (fired + 1) - before - 1 /\ TxsPublished' = (fired + 1) - before
       /\ (fired + 1) - before \notin 1..n => TxsPublished' = TxsPublished
       /\ fired' = 3 => TxsPublished' = 0
  <2> HIDE DEF n, before
  <2>1. QED
    BY <1>1, <1>4, <1>6, <1>10, <1>11
<1> HIDE DEF events, n, before
<1>14. CASE fired = 2
  <2>1. e = Event("NewBlockEvents", H, n, NoTx) /\ fired' = 3
    BY <1>1, <1>4, <1>5, <1>14
  <2>2. e.type = "NewBlockEvents" /\ e.type # "Tx"
    BY <2>1 DEF Event
  <2>3. Announced = H - 1 /\ Announced' = H
    <3>1. fired < 3 /\ ~(fired' < 3)
      BY <1>14, <2>1
    <3>2. QED
      BY <1>1, <1>2, <3>1, Zenon DEF Announced
  <2>4. Offered("NewBlockEvents")' /\ ~Offered("Tx")'
    <3> HIDE DEF e
    <3>1. Indexer \in waiting' /\ Head(inHand').type = e.type
      BY <1>8, <2>2, Zenon
    <3>2. QED
      BY <2>2, <3>1, Zenon DEF Offered
  <2>5. Indexed' = Indexed
    BY <1>7, <2>3, <2>4, Zenon DEF Indexed
  <2>6. InHandOK'
    <3>1. H > 0
      BY <1>5
    <3>2. Head(inHand') = e /\ Len(blocks'[H].txs) = n
      BY <1>1, <1>5, <1>8, <2>2, Zenon DEF n
    <3> HIDE DEF e, H
    <3>3. QED
      BY <1>8, <2>1, <2>2, <2>3, <2>4, <3>1, <3>2, Zenon DEF InHandOK
  <2>7. FiringOK'
    <3>1. TxsTaken' = 0 /\ TxsPublished' = 0
      BY <1>13, <2>1, <2>4, Zenon DEF TxsTaken
    <3>2. TxsPublished' = TxsTaken' + 0
      BY <3>1
    <3>3. QED
      BY <1>2, <1>6, <1>12, <2>4, <3>2, Zenon DEF FiringOK
  <2>8. QED
    BY <1>9, <2>5, <2>6, <2>7, Zenon DEF BusInv
<1>15. CASE fired # 2
  <2>1. /\ fired < 3 <=> fired' < 3
        /\ fired >= 3 <=> fired' >= 3
        /\ fired + 1 # 3
    BY <1>1, <1>6, <1>15
  <2>2. Announced' = Announced
    BY <1>1, <1>2, <2>1, Zenon DEF Announced
  <2>3. e.type # "NewBlockEvents" /\ (e.type = "Tx" => (fired + 1) - before \in 1..n)
    BY <1>4, <1>6, <2>1, Zenon DEF AnnouncesTxs
  <2>4. ~Offered("NewBlockEvents")'
    BY <1>8, <2>3, Zenon
  <2>5. Indexed' = Indexed
    BY <1>7, <2>2, <2>4, Zenon DEF Indexed
  <2>6. CASE e.type = "Tx"
    <3> DEFINE i == (fired + 1) - before
    <3>1. i \in 1..n /\ fired >= 3 /\ before + i = fired + 1 /\ i - 1 # n /\ (i - 1) + 1 = i
          /\ i - 1 < n
      <4>1. i \in 1..n
        BY <2>3, <2>6, Zenon
      <4>2. n \in Nat /\ before \in {3, 4} /\ fired \in Nat
        BY <1>4, <1>6, Zenon
      <4>3. QED
        BY <4>1, <4>2
    <3>2. Announced = H
      <4>1. ~(fired < 3)
        BY <1>6, <3>1
      <4>2. QED
        BY <4>1, Zenon DEF Announced
    <3>3. TxsPublished = i - 1 /\ TxsPublished' = i
      BY <1>13, <3>1, Zenon
    <3>4. TxsTaken = i - 1
      <4>1. TxsPublished = TxsTaken + 0 /\ TxsTaken \in Nat
        <5>1. TxsPublished = TxsTaken + 0
          BY <1>0, <1>2, <1>3, <3>1, Zenon DEF FiringOK
        <5>2. batch # <<>> => Len(batch[1].txs) \in Nat
          BY <1>0 DEF BatchOK
        <5>3. QED
          BY <1>3, <1>4, <5>1, <5>2, Zenon DEF TxsTaken, n
      <4>2. QED
        BY <3>3, <4>1
    <3> HIDE DEF i
    <3>5. batch # <<>> /\ Len(batch[1].txs) = i - 1
      BY <1>3, <3>1, <3>4, Zenon DEF TxsTaken, n
    <3>6. e = TxEvent(H, i)
      <4>1. e = Event("Tx", H, i - 1, block.txs[i])
        BY <1>4, <1>5, <3>1, Zenon
      <4>2. QED
        BY <1>5, <4>1, Zenon DEF TxEvent
    <3>7. Offered("Tx")' /\ Head(inHand') = e
      BY <1>8, <2>6, Zenon
    <3>8. InHandOK'
      <4>1. /\ \A h, j : TxEvent(h, j)' = TxEvent(h, j)
            /\ blocks'[H] = block /\ batch' = batch
        BY <1>1, <1>5, Zenon DEF TxEvent
      <4>2. Indexed' = H
        BY <1>7, <2>5, <3>2, Zenon
      <4>3. Len(batch'[1].txs) + 1 = i /\ Len(batch'[1].txs) < Len(blocks'[H].txs)
        BY <3>1, <3>5, <4>1, Zenon DEF n
      <4> HIDE DEF e, H
      <4>4. QED
        BY <1>8, <2>4, <2>6, <3>5, <3>6, <3>7, <4>1, <4>2, <4>3, Zenon DEF InHandOK
    <3>9. FiringOK'
      <4>1. TxsTaken' = i - 1
        BY <1>1, <2>4, <3>5, Zenon DEF TxsTaken
      <4>2. QED
        BY <1>2, <1>6, <1>12, <3>1, <3>3, <3>7, <4>1, Zenon DEF FiringOK
    <3>10. QED
      BY <1>9, <2>5, <3>8, <3>9, Zenon DEF BusInv
  <2>7. CASE e.type # "Tx"
    <3>1. ~Offered("Tx")' /\ Indexer \notin waiting'
      BY <1>8, <2>3, <2>7, Zenon
    <3>2. InHandOK'
      BY <1>8, <2>4, <3>1, Zenon DEF InHandOK
    <3>3. (fired + 1) - before \notin 1..n
      <4> DEFINE i == (fired + 1) - before
      <4>1. before + i = fired + 1
        BY <1>4, <1>6
      <4>2. \A j \in 1..n : events[before + j].type = "Tx"
        <5>1. \A h, m, x : Event("Tx", h, m, x).type = "Tx"
          BY DEF Event
        <5>2. \A j \in 1..n : events[before + j] = Event("Tx", block.height, j - 1, block.txs[j])
          BY <1>4, Zenon
        <5>3. QED
          BY <5>1, <5>2
      <4> HIDE DEF i
      <4>3. i \notin 1..n
        BY <2>7, <4>1, <4>2, Zenon
      <4>4. QED
        BY <4>3, Zenon DEF i
    <3>4. TxsPublished' = TxsPublished
      BY <1>13, <3>3, Zenon
    <3>5. TxsTaken' = TxsTaken
      BY <1>1, <1>3, <2>4, Zenon DEF TxsTaken
    <3>6. FiringOK'
      BY <1>0, <1>2, <1>3, <1>6, <1>12, <2>1, <3>1, <3>4, <3>5, Zenon DEF FiringOK
    <3>7. QED
      BY <1>9, <2>5, <3>2, <3>6, Zenon DEF BusInv
  <2>8. QED
    BY <2>6, <2>7, Zenon
<1>16. QED
  BY <1>14, <1>15, Zenon

-----------------------------------------------------------------------------
(* Steps of the bus: block production stands still.                        *)

(* What does not change then.                                              *)
LEMMA StandStill ==
  ASSUME UNCHANGED <<vars, fired>>
  PROVE  /\ Firing' <=> Firing
         /\ Announced' = Announced /\ TxsPublished' = TxsPublished
         /\ blocks' = blocks /\ block' = block
         /\ fireEvents(block, res)' = fireEvents(block, res)
         /\ \A h, i : TxEvent(h, i)' = TxEvent(h, i)
<1>1. UNCHANGED <<pc, block, res, CurState, blocks, fired>>
  BY Zenon DEF vars, helperVars, chainVars, storageVars
<1>2. QED
  BY <1>1, Zenon DEF Firing, Announced, TxsPublished, fireEvents, EventsOf, Event, TxEvent

(* The number of transactions taken does not change with the rest.         *)
LEMMA SameTxsTaken ==
  ASSUME BusInv, UNCHANGED <<vars, fired>>, TxsTaken' = TxsTaken,
         \A type : Offered(type)' = Offered(type)
  PROVE  FiringOK'
BY StandStill, Zenon DEF BusInv, FiringOK

(* The loop hands an event to a subscription, and perhaps is done with it. *)
LEMMA DeliverToSubscriptionInv ==
  ASSUME ClientInv, BusInv, NEW s \in Subscriptions, DeliverToSubscription(s), UNCHANGED vars
  PROVE  BusInv'
<1>0. InHandOK /\ BatchOK /\ FiringOK /\ IndexOK /\ IndexMatchesStores
  BY Zenon DEF BusInv
<1>1. /\ s \in waiting /\ s # Indexer /\ waiting' = waiting \ {s}
      /\ inHand' = IF waiting = {s} THEN <<>> ELSE inHand
      /\ UNCHANGED <<fired, batch, blockIndex, txIndex>>
  BY BusConstantsHaveTypes, Zenon DEF DeliverToSubscription, Delivered, indexVars
<1>2. /\ Announced' = Announced /\ blocks' = blocks /\ block' = block
      /\ \A h, i : TxEvent(h, i)' = TxEvent(h, i)
  BY <1>1, StandStill, Zenon
<1>3. /\ Indexer \in waiting' <=> Indexer \in waiting
      /\ Indexer \in waiting => inHand' = inHand
      /\ inHand' = <<>> <=> waiting' = {}
      /\ inHand' # <<>> => inHand' = <<Head(inHand')>>
  <2>1. inHand # <<>> /\ inHand = <<Head(inHand)>>
    BY <1>0, <1>1, Zenon DEF InHandOK
  <2>2. CASE waiting = {s}
    BY <1>1, <2>2, Zenon
  <2>3. CASE waiting # {s}
    BY <1>1, <2>1, <2>3, Zenon
  <2>4. QED
    BY <2>2, <2>3, Zenon
<1>4. \A type : Offered(type)' = Offered(type)
  BY <1>3, Zenon DEF Offered
<1>5. Indexed' = Indexed /\ TxsTaken' = TxsTaken
  BY <1>1, <1>2, <1>4, Zenon DEF Indexed, TxsTaken
<1>6. InHandOK'
  <2>1. Indexer \in waiting' => Head(inHand').type \in {"NewBlockEvents", "Tx"}
    BY <1>0, <1>3, Zenon DEF InHandOK
  <2>2. Offered("NewBlockEvents")' =>
          /\ Announced' > 0
          /\ Head(inHand') = Event("NewBlockEvents", Announced', Len(blocks'[Announced'].txs), NoTx)
    BY <1>0, <1>2, <1>3, <1>4, Zenon DEF InHandOK, Offered
  <2>3. Offered("Tx")' =>
          /\ batch' # <<>> /\ Len(batch'[1].txs) < Len(blocks'[Indexed'].txs)
          /\ Head(inHand') = TxEvent(Indexed', Len(batch'[1].txs) + 1)
    BY <1>0, <1>1, <1>2, <1>3, <1>4, <1>5, Zenon DEF InHandOK, Offered
  <2>4. \A h, i : Event("NewBlockEvents", h, i, NoTx)' = Event("NewBlockEvents", h, i, NoTx)
    BY Zenon DEF Event
  <2>5. QED
    BY <1>2, <1>3, <2>1, <2>2, <2>3, <2>4, Zenon DEF InHandOK
<1>7. BatchOK' /\ IndexOK' /\ IndexMatchesStores'
  <2>1. BatchOK'
    BY <1>0, <1>1, <1>2, <1>5, Zenon DEF BatchOK, TxEvent
  <2>2. QED
    BY <1>0, <1>1, <1>2, <1>5, <2>1, Zenon DEF IndexOK, IndexMatchesStores
<1>8. FiringOK'
  BY <1>1, <1>4, <1>5, SameTxsTaken, Zenon
<1>9. QED
  BY <1>6, <1>7, <1>8, Zenon DEF BusInv

(* The indexer takes the number of transactions of the next block.         *)
LEMMA DeliverBlockInv ==
  ASSUME ClientInv, BusInv, DeliverToIndexer, Head(inHand).type = "NewBlockEvents", UNCHANGED vars
  PROVE  BusInv'
<1> DEFINE A == Announced
           n == Len(blocks[A].txs)
<1>0. InHandOK /\ BatchOK /\ FiringOK /\ IndexOK /\ IndexMatchesStores
  BY Zenon DEF BusInv
<1>1. /\ Indexer \in waiting /\ waiting' = waiting \ {Indexer} /\ batch = <<>>
      /\ batch' = <<[height |-> Head(inHand).height, numTxs |-> Head(inHand).n, txs |-> <<>>]>>
      /\ inHand' = IF waiting = {Indexer} THEN <<>> ELSE inHand
      /\ UNCHANGED <<fired, blockIndex, txIndex>>
  BY Zenon DEF DeliverToIndexer, Delivered
<1>2. /\ Announced' = A /\ blocks' = blocks /\ block' = block
      /\ TxsPublished' = TxsPublished /\ (Firing' <=> Firing)
      /\ fireEvents(block, res)' = fireEvents(block, res)
      /\ \A h, i : TxEvent(h, i)' = TxEvent(h, i)
  BY <1>1, StandStill, Zenon
<1>3. Offered("NewBlockEvents") /\ ~Offered("Tx") /\ \A type : ~Offered(type)'
  BY <1>1, Zenon DEF Offered
<1>4. A \in Nat /\ A > 0 /\ Indexed = A - 1 /\ Indexed' = A /\ n \in Nat
  <2>1. A \in Nat /\ A > 0 /\ Indexed = A - 1 /\ Indexed' = A
    BY <1>0, <1>2, <1>3, AnnouncedIsStored, Zenon DEF InHandOK, Indexed
  <2>2. A \in 1..A
    BY <2>1
  <2>3. blocks[A].txs \in Seq(Txs)
    BY <2>2, AnnouncedIsStored, Zenon DEF ClientInv, TypeOK
  <2>4. QED
    BY <2>1, <2>3
<1>5. batch' = <<[height |-> A, numTxs |-> n, txs |-> <<>>]>>
  <2>1. Head(inHand) = Event("NewBlockEvents", A, n, NoTx)
    BY <1>0, <1>3, Zenon DEF InHandOK
  <2>2. Head(inHand).height = A /\ Head(inHand).n = n
    BY <2>1 DEF Event
  <2>3. QED
    BY <1>1, <2>2, Zenon
<1>6. InHandOK'
  BY <1>0, <1>1, <1>3, Zenon DEF InHandOK
<1>7. BatchOK'
  <2>1. batch'[1].txs = <<>> /\ Len(batch'[1].txs) = 0
    BY <1>5
  <2>2. 0 \in 0..n /\ <<>> = [i \in 1..0 |-> TxEvent(A, i)] /\ 1..0 = {}
    BY <1>4
  <2>3. [i \in 1..Len(batch'[1].txs) |-> TxEvent(A, i)] = <<>>
    BY <2>1, <2>2, Zenon
  <2>4. n = Len(blocks'[Indexed'].txs)
    BY <1>2, <1>4, Zenon
  <2> HIDE DEF A, n
  <2>5. QED
    BY <1>2, <1>4, <1>5, <2>1, <2>2, <2>3, <2>4 DEF BatchOK
<1>8. IndexOK'
  <2>1. 1..Indexed \subseteq 1..A /\ \A h \in 1..A : h < A => h \in 1..Indexed
    BY <1>4
  <2>2. batch' # <<>>
    BY <1>5
  <2>3. QED
    BY <1>0, <1>1, <1>2, <1>4, <2>1, <2>2, Zenon DEF IndexOK
<1>9. FiringOK'
  <2>1. TxsTaken = 0
    BY <1>3, Zenon DEF TxsTaken
  <2>2. TxsTaken' = 0
    <3>1. batch' # <<>> /\ Len(batch'[1].txs) = 0
      BY <1>5
    <3>2. QED
      BY <1>3, <3>1, Zenon DEF TxsTaken
  <2>3. QED
    BY <1>0, <1>1, <1>2, <1>3, <2>1, <2>2, Zenon DEF FiringOK
<1>10. QED
  BY <1>0, <1>1, <1>2, <1>6, <1>7, <1>8, <1>9, Zenon DEF BusInv, IndexMatchesStores

(* One more transaction in a batch.                                        *)
LEMMA NextTx ==
  ASSUME NEW S, NEW s \in Seq(S), NEW x \in S, NEW h,
         s = [i \in 1..Len(s) |-> TxEvent(h, i)], x = TxEvent(h, Len(s) + 1)
  PROVE  /\ Append(s, x) = [i \in 1..Len(Append(s, x)) |-> TxEvent(h, i)]
         /\ Len(Append(s, x)) = Len(s) + 1
<1>1. Len(Append(s, x)) = Len(s) + 1 /\ Len(s) \in Nat
  OBVIOUS
<1>2. \A i \in 1..Len(s) : s[i] = TxEvent(h, i)
  BY Zenon
<1>3. \A i \in 1..(Len(s) + 1) : Append(s, x)[i] = TxEvent(h, i)
  <2>1. TAKE i \in 1..(Len(s) + 1)
  <2>2. CASE i = Len(s) + 1
    BY <2>2
  <2>3. CASE i # Len(s) + 1
    <3>1. i \in 1..Len(s)
      BY <2>3
    <3>2. Append(s, x)[i] = s[i]
      BY <3>1
    <3>3. QED
      BY <1>2, <3>1, <3>2, Zenon
  <2>4. QED
    BY <2>2, <2>3, Zenon
<1>4. Append(s, x) = [i \in 1..(Len(s) + 1) |-> Append(s, x)[i]]
  OBVIOUS
<1>5. QED
  BY <1>1, <1>3, <1>4

(* The indexer takes the next transaction of its block.                    *)
LEMMA DeliverTxInv ==
  ASSUME ClientInv, BusInv, DeliverToIndexer, Head(inHand).type = "Tx", UNCHANGED vars
  PROVE  BusInv'
<1> DEFINE txs == batch[1].txs
           n == Len(blocks[Indexed].txs)
           e == Head(inHand)
<1>0. InHandOK /\ BatchOK /\ FiringOK /\ IndexOK /\ IndexMatchesStores
  BY Zenon DEF BusInv
<1>1. /\ Indexer \in waiting /\ waiting' = waiting \ {Indexer} /\ batch # <<>>
      /\ batch' = <<[batch[1] EXCEPT !.txs = Append(@, e)]>>
      /\ inHand' = IF waiting = {Indexer} THEN <<>> ELSE inHand
      /\ UNCHANGED <<fired, blockIndex, txIndex>>
  BY Zenon DEF DeliverToIndexer, Delivered
<1>2. /\ Announced' = Announced /\ blocks' = blocks /\ block' = block
      /\ TxsPublished' = TxsPublished /\ (Firing' <=> Firing)
      /\ fireEvents(block, res)' = fireEvents(block, res)
      /\ \A h, i : TxEvent(h, i)' = TxEvent(h, i)
  BY <1>1, StandStill, Zenon
<1>3. Offered("Tx") /\ ~Offered("NewBlockEvents") /\ \A type : ~Offered(type)'
  BY <1>1, Zenon DEF Offered
<1>4. Indexed' = Indexed
  BY <1>2, <1>3, Zenon DEF Indexed
<1>5. /\ Indexed > 0 /\ txs = [i \in 1..Len(txs) |-> TxEvent(Indexed, i)]
      /\ batch = <<[height |-> Indexed, numTxs |-> n, txs |-> txs]>>
  <2> DEFINE F == [i \in 1..Len(txs) |-> TxEvent(Indexed, i)]
  <2>1. Indexed > 0 /\ batch = <<[height |-> Indexed, numTxs |-> n, txs |-> F]>>
    BY <1>0, <1>1, Zenon DEF BatchOK
  <2>2. \A h, m, f : <<[height |-> h, numTxs |-> m, txs |-> f]>>[1].txs = f
    OBVIOUS
  <2> HIDE DEF F, n
  <2>3. txs = F
    BY <2>1, <2>2, Zenon
  <2>4. QED
    BY <2>1, <2>3, Zenon DEF F
<1>6. Len(txs) < n /\ e = TxEvent(Indexed, Len(txs) + 1)
  BY <1>0, <1>3, Zenon DEF InHandOK
<1>7. Indexed \in Nat /\ n \in Nat /\ Len(txs) \in Nat
  <2>1. Indexed \in Nat /\ Indexed \in 1..Announced
    BY <1>0, <1>5, IndexedIsAnnounced, Zenon
  <2>2. blocks[Indexed].txs \in Seq(Txs)
    BY <2>1, AnnouncedIsStored, Zenon DEF ClientInv, TypeOK
  <2>3. Len(txs) \in 0..n
    BY <1>0, <1>1, Zenon DEF BatchOK
  <2> HIDE DEF txs
  <2>4. QED
    BY <2>1, <2>2, <2>3
<1>8. /\ batch' = <<[height |-> Indexed, numTxs |-> n, txs |-> Append(txs, e)]>>
      /\ batch' # <<>> /\ batch'[1].txs = Append(txs, e)
  <2> HIDE DEF e, n, txs
  <2>1. batch[1] = [height |-> Indexed, numTxs |-> n, txs |-> txs]
    BY <1>5
  <2>2. [batch[1] EXCEPT !.txs = Append(@, e)] = [height |-> Indexed, numTxs |-> n, txs |-> Append(txs, e)]
    BY <2>1
  <2>3. batch' = <<[height |-> Indexed, numTxs |-> n, txs |-> Append(txs, e)]>>
    BY <1>1, <2>2, Zenon
  <2>4. QED
    BY <2>3
<1>9. /\ Append(txs, e) = [i \in 1..Len(Append(txs, e)) |-> TxEvent(Indexed, i)]
      /\ Len(Append(txs, e)) = Len(txs) + 1
  <2> DEFINE S == {TxEvent(Indexed, i) : i \in 1..(Len(txs) + 1)}
  <2> HIDE DEF e, txs
  <2>1. txs \in [1..Len(txs) -> S]
    <3>1. \A i \in 1..Len(txs) : TxEvent(Indexed, i) \in S
      BY <1>7
    <3> HIDE DEF S
    <3>2. QED
      BY <1>5, <3>1, Zenon
  <2>2. e \in S
    BY <1>6, <1>7
  <2> HIDE DEF S
  <2>3. txs \in Seq(S)
    BY <1>7, <2>1
  <2>4. QED
    BY <1>5, <1>6, <2>2, <2>3, NextTx
<1>10. InHandOK'
  BY <1>0, <1>1, <1>3, Zenon DEF InHandOK
<1>11. BatchOK'
  <2>1. Len(batch'[1].txs) \in 0..n
    <3>1. Len(txs) + 1 \in 0..n
      BY <1>6, <1>7
    <3>2. QED
      BY <1>8, <1>9, <3>1, Zenon
  <2>2. batch' = <<[height |-> Indexed, numTxs |-> n,
                    txs |-> [i \in 1..Len(batch'[1].txs) |-> TxEvent(Indexed, i)]]>>
    BY <1>8, <1>9, Zenon
  <2>3. n = Len(blocks'[Indexed'].txs)
    BY <1>2, <1>4, Zenon
  <2> HIDE DEF n
  <2>4. QED
    BY <1>2, <1>4, <1>5, <2>1, <2>2, <2>3, Zenon DEF BatchOK, TxEvent
<1>12. IndexOK'
  BY <1>0, <1>1, <1>2, <1>4, <1>8, Zenon DEF IndexOK
<1>13. FiringOK'
  <2>1. TxsTaken = Len(txs) /\ TxsTaken' = Len(txs) + 1
    BY <1>1, <1>3, <1>8, <1>9, Zenon DEF TxsTaken
  <2>2. TxsTaken' + 0 = TxsTaken + 1
    BY <1>7, <2>1
  <2>3. QED
    BY <1>0, <1>1, <1>2, <1>3, <2>2, Zenon DEF FiringOK
<1>14. QED
  BY <1>0, <1>1, <1>2, <1>10, <1>11, <1>12, <1>13, Zenon DEF BusInv, IndexMatchesStores

(* The block that the indexer is working on.                               *)
LEMMA BatchShape ==
  ASSUME ClientInv, BusInv, batch # <<>>
  PROVE  LET txs == batch[1].txs
             n == Len(blocks[Indexed].txs)
         IN  /\ Indexed \in Nat /\ Indexed > 0 /\ Indexed \in DOMAIN blocks
             /\ blocks[Indexed].txs \in Seq(Txs) /\ n \in Nat /\ Len(txs) \in 0..n
             /\ batch[1].height = Indexed /\ batch[1].numTxs = n
             /\ DOMAIN txs = 1..Len(txs)
             /\ \A i \in 1..Len(txs) : txs[i] = TxEvent(Indexed, i)
<1> DEFINE txs == batch[1].txs
           n == Len(blocks[Indexed].txs)
           F == [i \in 1..Len(txs) |-> TxEvent(Indexed, i)]
<1>0. InHandOK /\ BatchOK
  BY Zenon DEF BusInv
<1>1. /\ Indexed > 0 /\ Len(txs) \in 0..n
      /\ batch = <<[height |-> Indexed, numTxs |-> n, txs |-> F]>>
  BY <1>0, Zenon DEF BatchOK
<1>2. Indexed \in Nat /\ Indexed \in DOMAIN blocks
  BY <1>0, <1>1, IndexedIsAnnounced, AnnouncedIsStored, Zenon
<1>3. blocks[Indexed].txs \in Seq(Txs)
  BY <1>2, Zenon DEF ClientInv, TypeOK
<1>4. n \in Nat
  BY <1>3
<1>5. txs = F /\ batch[1].height = Indexed /\ batch[1].numTxs = n
  <2>1. \A h, m, f : LET b == <<[height |-> h, numTxs |-> m, txs |-> f]>>
                     IN  b[1].height = h /\ b[1].numTxs = m /\ b[1].txs = f
    OBVIOUS
  <2> HIDE DEF F, n
  <2>2. QED
    BY <1>1, <2>1, Zenon
<1>6. DOMAIN txs = 1..Len(txs) /\ \A i \in 1..Len(txs) : txs[i] = TxEvent(Indexed, i)
  BY <1>5, Zenon
<1>7. QED
  BY <1>1, <1>2, <1>3, <1>4, <1>5, <1>6, Zenon

(* BlockIndex.Index.                                                       *)
LEMMA IndexBlockInv ==
  ASSUME ClientInv, BusInv, IndexBlock, UNCHANGED vars
  PROVE  BusInv'
<1>0. InHandOK /\ BatchOK /\ FiringOK /\ IndexOK /\ IndexMatchesStores
  BY Zenon DEF BusInv
<1>1. /\ batch # <<>> /\ blockIndex' = blockIndex \cup {batch[1].height}
      /\ UNCHANGED <<fired, inHand, waiting, batch, txIndex>>
  BY Zenon DEF IndexBlock, BatchIsComplete
<1>2. /\ Announced' = Announced /\ blocks' = blocks /\ block' = block
      /\ \A h, i : TxEvent(h, i)' = TxEvent(h, i)
  BY <1>1, StandStill, Zenon
<1>3. \A type : Offered(type)' = Offered(type)
  BY <1>1, Zenon DEF Offered
<1>4. Indexed' = Indexed /\ TxsTaken' = TxsTaken
  BY <1>1, <1>2, <1>3, Zenon DEF Indexed, TxsTaken
<1>5. FiringOK'
  BY <1>1, <1>3, <1>4, SameTxsTaken, Zenon
<1>6. InHandOK' /\ BatchOK'
  BY <1>0, <1>1, <1>2, <1>3, <1>4, Zenon DEF InHandOK, BatchOK, TxEvent
<1>7. batch[1].height = Indexed /\ Indexed \in 1..Indexed /\ Indexed \in DOMAIN blocks
  <2>1. batch[1].height = Indexed /\ Indexed \in Nat /\ Indexed > 0 /\ Indexed \in DOMAIN blocks
    BY <1>1, BatchShape, Zenon
  <2>2. QED
    BY <2>1
<1>8. IndexOK' /\ IndexMatchesStores'
  BY <1>0, <1>1, <1>2, <1>4, <1>7, Zenon DEF IndexOK, IndexMatchesStores
<1>9. QED
  BY <1>5, <1>6, <1>8, Zenon DEF BusInv

(* A transaction in a sequence has a last place in it.                     *)
LEMMA LastPlace ==
  ASSUME NEW n \in Nat, NEW T, NEW i \in 1..n, i \in T
  PROVE  \E k \in 1..n : k \in T /\ \A j \in 1..n : j \in T => j <= k
<1> DEFINE M == {m \in Nat : \E k \in 1..n : k \in T /\ m = n - k}
<1>1. n - i \in M
  OBVIOUS
<1>2. PICK m \in M : \A l \in M : ~(l < m)
  BY <1>1, LeastNumber
<1>3. PICK k \in 1..n : k \in T /\ m = n - k
  BY <1>2
<1>4. ASSUME NEW j \in 1..n, j \in T PROVE j <= k
  <2>1. n - j \in M
    BY <1>4
  <2>2. ~(n - j < m)
    BY <1>2, <2>1
  <2>3. QED
    BY <1>3, <2>2
<1>5. QED
  BY <1>3, <1>4, Zenon

(* TxIndex.AddBatch.                                                       *)
LEMMA IndexTxsInv ==
  ASSUME ClientInv, BusInv, IndexTxs, UNCHANGED vars
  PROVE  BusInv'
<1> DEFINE txs == batch[1].txs
           Last(x) == CHOOSE i \in DOMAIN txs :
                        txs[i].tx = x /\ \A j \in DOMAIN txs : txs[j].tx = x => j <= i
           new == {txs[i].tx : i \in DOMAIN txs}
           I == Indexed
           n == Len(blocks[I].txs)
<1>0. InHandOK /\ BatchOK /\ FiringOK /\ IndexOK /\ IndexMatchesStores
  BY Zenon DEF BusInv
<1>1. /\ batch # <<>> /\ Len(txs) = batch[1].numTxs /\ batch[1].height \in blockIndex
      /\ txIndex' = [x \in DOMAIN txIndex \cup new |->
                       IF x \in new THEN [height |-> txs[Last(x)].height, index |-> txs[Last(x)].n]
                                    ELSE txIndex[x]]
      /\ batch' = <<>>
      /\ UNCHANGED <<fired, inHand, waiting, blockIndex>>
  BY Zenon DEF IndexTxs, BatchIsComplete
<1>2. /\ Announced' = Announced /\ blocks' = blocks /\ block' = block
      /\ \A h, i : TxEvent(h, i)' = TxEvent(h, i)
  BY <1>1, StandStill, Zenon
<1>3. \A type : Offered(type)' = Offered(type)
  BY <1>1, Zenon DEF Offered
<1>4. Indexed' = I
  BY <1>1, <1>2, <1>3, Zenon DEF Indexed
<1>5. /\ I \in Nat /\ I > 0 /\ I \in DOMAIN blocks /\ I \in blockIndex
      /\ blocks[I].txs \in Seq(Txs) /\ n \in Nat /\ Len(txs) = n
      /\ DOMAIN txs = 1..n /\ \A i \in 1..n : txs[i] = TxEvent(I, i)
  BY <1>1, BatchShape, Zenon
<1>6. \A i \in 1..n : /\ txs[i].tx = blocks[I].txs[i] /\ txs[i].height = I
                       /\ txs[i].n = i - 1
  <2>1. \A h, m, x : LET e == Event("Tx", h, m, x) IN e.tx = x /\ e.height = h /\ e.n = m
    BY DEF Event
  <2>2. \A i \in 1..n : txs[i] = Event("Tx", I, i - 1, blocks[I].txs[i])
    BY <1>5, Zenon DEF TxEvent
  <2> HIDE DEF txs, I, n
  <2>3. QED
    BY <2>1, <2>2
<1>7. new = {blocks[I].txs[i] : i \in 1..n} /\ Range(blocks[I].txs) \subseteq new
  <2>1. new = {blocks[I].txs[i] : i \in 1..n}
    BY <1>5, <1>6, Zenon
  <2>2. DOMAIN blocks[I].txs = 1..n
    BY <1>5
  <2>3. QED
    BY <2>1, <2>2, Zenon DEF Range
<1>8. ASSUME NEW x \in new
      PROVE  Last(x) \in 1..n /\ blocks[I].txs[Last(x)] = x
  <2> DEFINE T == {i \in 1..n : txs[i].tx = x}
  <2>1. PICK i \in 1..n : i \in T
    BY <1>5, Zenon
  <2>2. \E k \in 1..n : k \in T /\ \A j \in 1..n : j \in T => j <= k
    <3> HIDE DEF T, n
    <3>1. QED
      BY <1>5, <2>1, LastPlace, Zenon
  <2>3. \E k \in DOMAIN txs : txs[k].tx = x /\ \A j \in DOMAIN txs : txs[j].tx = x => j <= k
    BY <1>5, <2>2, Zenon
  <2>4. Last(x) \in DOMAIN txs /\ txs[Last(x)].tx = x
    BY <2>3, Zenon
  <2> HIDE DEF Last, txs
  <2>5. QED
    BY <1>5, <1>6, <2>4, Zenon
<1> HIDE DEF Last, txs, n
<1>9. IndexMatchesStores'
  <2>1. ASSUME NEW x \in new
        PROVE  /\ txIndex'[x].height = I /\ txIndex'[x].index + 1 = Last(x)
    <3>1. x \in DOMAIN txIndex'
      BY <1>1, Zenon
    <3>2. txIndex'[x] = [height |-> txs[Last(x)].height, index |-> txs[Last(x)].n]
      BY <1>1, <3>1, Zenon
    <3>3. txIndex'[x].height = I /\ txIndex'[x].index = Last(x) - 1
      BY <1>6, <1>8, <3>2
    <3>4. QED
      BY <1>5, <1>8, <3>3
  <2>2. DOMAIN blocks[I].txs = 1..n
    BY <1>5 DEF n
  <2>3. ASSUME NEW x \in DOMAIN txIndex'
        PROVE  /\ txIndex'[x].height \in blockIndex
               /\ txIndex'[x].index + 1 \in DOMAIN blocks[txIndex'[x].height].txs
               /\ blocks[txIndex'[x].height].txs[txIndex'[x].index + 1] = x
    <3>1. CASE x \in new
      BY <1>5, <1>8, <2>1, <2>2, <3>1, Zenon
    <3>2. CASE x \notin new
      <4>1. x \in DOMAIN txIndex /\ txIndex'[x] = txIndex[x]
        BY <1>1, <3>2, Zenon
      <4>2. QED
        BY <1>0, <4>1, Zenon DEF IndexMatchesStores
    <3>3. QED
      BY <3>1, <3>2, Zenon
  <2>4. QED
    BY <1>0, <1>1, <1>2, <2>3, Zenon DEF IndexMatchesStores
<1>10. IndexOK'
  <2>1. DOMAIN txIndex' = DOMAIN txIndex \cup new
    BY <1>1, Zenon
  <2>2. \A h \in 1..I : h < I \/ h = I
    BY <1>5
  <2>3. \A h \in 1..I : h \in blockIndex /\ Range(blocks[h].txs) \subseteq DOMAIN txIndex'
    BY <1>0, <1>5, <1>7, <2>1, <2>2, Zenon DEF IndexOK
  <2>4. QED
    BY <1>0, <1>1, <1>2, <1>4, <2>3, Zenon DEF IndexOK
<1>11. ~Offered("Tx")
  <2>1. Offered("Tx") => Len(txs) < n
    BY <1>0, Zenon DEF InHandOK, txs, n
  <2>2. QED
    BY <1>5, <2>1
<1>12. InHandOK' /\ BatchOK'
  BY <1>0, <1>1, <1>2, <1>3, <1>11, Zenon DEF InHandOK, BatchOK
<1>13. FiringOK'
  <2>1. ASSUME Firing, fired >= 3 PROVE TxsTaken' = TxsTaken
    <3>1. CASE Offered("NewBlockEvents")
      BY <1>3, <3>1, Zenon DEF TxsTaken
    <3>2. CASE ~Offered("NewBlockEvents")
      <4>1. ~(fired < 3)
        <5>1. fired \in Nat
          <6>1. fired \in 0..Len(fireEvents(block, res)) /\ Len(fireEvents(block, res)) \in Nat
            BY <1>0, BlockEvents, Zenon DEF FiringOK
          <6>2. QED
            BY <6>1
        <5>2. QED
          BY <2>1, <5>1
      <4>2. I = CurState.LastBlockHeight
        BY <3>2, <4>1, Zenon DEF Indexed, Announced
      <4>3. blocks[I] = block
        BY <2>1, <4>2, FiringTip, Zenon
      <4>4. TxsTaken = Len(txs) /\ TxsTaken' = Len(block.txs)
        BY <1>1, <1>2, <1>3, <3>2, Zenon DEF TxsTaken, txs
      <4>5. QED
        BY <1>5, <4>3, <4>4, Zenon DEF n
    <3>3. QED
      BY <3>1, <3>2, Zenon
  <2>2. QED
    BY <1>0, <1>1, <1>3, <1>11, <2>1, StandStill, Zenon DEF FiringOK
<1>14. QED
  BY <1>9, <1>10, <1>12, <1>13, Zenon DEF BusInv

(* Subscribers leave the index alone.                                      *)
LEMMA SubscriberInv ==
  ASSUME ClientInv, BusInv, UNCHANGED <<vars, fired, inHand, waiting, indexVars>>
  PROVE  BusInv'
<1>1. /\ Announced' = Announced /\ StoresKept /\ IndexUnchanged
  <2>1. UNCHANGED <<blocks, commits, states, responses>>
    BY Zenon DEF vars, storageVars
  <2>2. DOMAIN commits = DOMAIN blocks /\ DOMAIN states = DOMAIN blocks /\ DOMAIN responses = DOMAIN blocks
    BY Zenon DEF ClientInv, StorageInv, Stores, StoresAgree
  <2>3. QED
    BY <2>1, <2>2, StandStill, Zenon DEF StoresKept, IndexUnchanged
<1>2. \A type : Offered(type)' = Offered(type)
  BY Zenon DEF Offered
<1>3. TxsTaken' = TxsTaken
  <2>1. block' = block
    BY StandStill, Zenon
  <2>2. QED
    BY <1>2, <2>1, Zenon DEF TxsTaken, indexVars
<1>4. QED
  BY <1>1, <1>2, <1>3, IndexFrame, SameTxsTaken, Zenon DEF BusInv

-----------------------------------------------------------------------------
(* The theorems about the index.                                           *)

(* Nothing is published and nothing is indexed initially.                  *)
LEMMA InitBus ==
  ASSUME Init, BusInit, TypeOK
  PROVE  BusInv
<1>1. /\ fired = 0 /\ inHand = <<>> /\ waiting = {} /\ batch = <<>> /\ blockIndex = {} /\ txIndex = <<>>
      /\ CurState.LastBlockHeight = 0
  BY DEF BusInit, Init, GenesisState
<1>2. ~Firing
  <2>1. \A t \in Threads : pc[t] \in {"initChain", "idle"}
    BY Zenon DEF Init
  <2>2. QED
    BY <2>1, Zenon DEF Firing
<1>3. /\ \A type : ~Offered(type)
      /\ Indexed = 0
  BY <1>1, <1>2, Zenon DEF Offered, Indexed, Announced
<1>4. InHandOK /\ BatchOK
  BY <1>1, <1>3, Zenon DEF InHandOK, BatchOK
<1>5. IndexOK /\ IndexMatchesStores
  BY <1>1, <1>3 DEF IndexOK, IndexMatchesStores
<1>6. FiringOK
  <2>1. block.txs \in Seq(Txs) /\ block.height \in Int
    BY DEF TypeOK, StateTypeOK, GoroutineTypeOK, IsBlock
  <2>2. Len(fireEvents(block, res)) \in Nat
    BY <2>1, EventShape, Zenon
  <2>3. fired \in 0..Len(fireEvents(block, res))
    BY <1>1, <2>2
  <2>4. QED
    BY <1>1, <1>2, <2>3, Zenon DEF FiringOK
<1>7. QED
  BY <1>4, <1>5, <1>6, Zenon DEF BusInv

(* Every step keeps the invariant.                                         *)
LEMMA StepBusInv ==
  ASSUME ClientInv, BusInv, [BusNext]_<<vars, busVars>>, TypeOK', [StoresKept]_vars
  PROVE  BusInv'
<1>1. CASE UNCHANGED <<vars, busVars>>
  BY <1>1, SubscriberInv, Zenon DEF busVars
<1>2. CASE BusStep /\ UNCHANGED vars
  <2>1. CASE Loop
    BY <1>2, <2>1, DeliverBlockInv, DeliverTxInv, DeliverToSubscriptionInv, Zenon DEF Loop, DeliverToIndexer
  <2>2. CASE Indexing
    BY <1>2, <2>2, IndexBlockInv, IndexTxsInv, Zenon DEF Indexing
  <2>3. CASE UNCHANGED <<fired, inHand, waiting, indexVars>>
    BY <1>2, <2>3, SubscriberInv, Zenon
  <2>4. QED
    BY <1>2, <2>1, <2>2, <2>3, Zenon DEF BusStep, Subscribe, Unsubscribe, UnsubscribeAll, Writer, TakeEvent,
       WriteRPCResponse, SeeCanceled
<1>3. ASSUME NEW t \in Threads, FiringStep(t) PROVE BusInv'
  <2>1. CASE PublishEvent(t)
    BY <2>1, PublishInv, Zenon
  <2>2. CASE ReturnFromFireEvents(t) \/ PanicInFireEvents(t)
    <3>1. StoresKept
      <4>1. UNCHANGED <<blocks, commits, states, responses>>
        BY <2>2, Zenon DEF ReturnFromFireEvents, PanicInFireEvents, EventsFired, EventsPanic,
           UnlockAfterStateUpdate
      <4>2. /\ DOMAIN commits = DOMAIN blocks /\ DOMAIN states = DOMAIN blocks
            /\ DOMAIN responses = DOMAIN blocks
        BY Zenon DEF ClientInv, StorageInv, Stores, StoresAgree
      <4>3. QED
        BY <4>1, <4>2, Zenon DEF StoresKept
    <3>2. QED
      BY <2>2, <3>1, EndOfFiringInv, Zenon
  <2>3. QED
    BY <1>3, <2>1, <2>2, Zenon DEF FiringStep
<1>4. CASE Step /\ UNCHANGED busVars
  <2>1. CASE StoresKept
    BY <1>4, <2>1, ProductionInv, Zenon
  <2>2. CASE UNCHANGED vars
    BY <1>4, <2>2, SubscriberInv, Zenon DEF busVars
  <2>3. QED
    BY <2>1, <2>2, Zenon
<1>5. QED
  BY <1>1, <1>2, <1>3, <1>4, Zenon DEF BusNext

(* The indexer has taken the events of every block in their order, and     *)
(* indexed what it is done with.                                           *)
THEOREM BusInvHolds == BusSpec => []BusInv
<1>1. BusSpec => /\ []TypeOK /\ []StorageInv /\ []AppInv /\ []TipInv /\ [][StoresKept]_vars
  BY EventsDoNotDisturb, TypeCorrect, InvHolds, AppInvHolds, TipInvHolds, StoresAreKept, PTL
<1>2. TypeOK /\ StorageInv /\ AppInv /\ TipInv => ClientInv
  BY Zenon DEF ClientInv
<1>3. Init /\ BusInit /\ TypeOK => BusInv
  BY InitBus, Zenon
<1>4. /\ ClientInv /\ BusInv /\ [BusNext]_<<vars, busVars>> /\ TypeOK' /\ [StoresKept]_vars
      => BusInv'
  BY StepBusInv, Zenon
<1>5. QED
  BY <1>1, <1>2, <1>3, <1>4, PTL DEF BusSpec

(* What the index says of a height or of a transaction is what the storage *)
(* says.                                                                   *)
THEOREM IndexIsSound == BusSpec => []IndexMatchesStores
<1>1. BusInv => IndexMatchesStores
  BY Zenon DEF BusInv
<1>2. QED
  BY <1>1, BusInvHolds, PTL

(* The index is complete up to two blocks below the newest one.            *)
THEOREM IndexIsComplete == BusSpec => []IndexLagsTwoBlocks
<1>1. ASSUME ClientInv, BusInv PROVE IndexLagsTwoBlocks
  <2>1. SUFFICES ASSUME StoresReadable, NEW h \in 1..(LastBlock.height - 2)
                 PROVE  h \in blockIndex /\ Range(blocks[h].txs) \subseteq DOMAIN txIndex
    BY Zenon DEF IndexLagsTwoBlocks
  <2>2. stateUpdateMutex = Free /\ CurState.LastBlockHeight = LastBlock.height
    BY <1>1, <2>1, Zenon DEF StoresReadable, ClientInv, StorageInv, Stages, StateOfLastBlock
  <2>3. ~Firing
    BY <1>1, <2>2, ThreadsAreDistinct, Zenon DEF ClientInv, StorageInv, Locks, Firing
  <2>4. Announced = LastBlock.height
    BY <2>2, <2>3, Zenon DEF Announced
  <2>5. Announced \in Nat /\ Indexed = IF Offered("NewBlockEvents") THEN Announced - 1 ELSE Announced
    BY <1>1, AnnouncedIsStored, IndexedIsAnnounced, Zenon DEF BusInv
  <2>6. h \in 1..Indexed /\ h < Indexed
    BY <2>4, <2>5
  <2>7. QED
    BY <1>1, <2>6, Zenon DEF BusInv, IndexOK
<1>2. BusSpec => [](TypeOK /\ StorageInv /\ AppInv /\ TipInv)
  BY EventsDoNotDisturb, TypeCorrect, InvHolds, AppInvHolds, TipInvHolds, PTL
<1>3. TypeOK /\ StorageInv /\ AppInv /\ TipInv => ClientInv
  BY Zenon DEF ClientInv
<1>4. QED
  BY <1>1, <1>2, <1>3, BusInvHolds, PTL
=============================================================================
