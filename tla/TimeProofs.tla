---------------------------- MODULE TimeProofs ------------------------------
(***************************************************************************)
(* What RunBlock reads before it locks, when any number of goroutines run  *)
(* blocks and any of them fail: the time of the last block and the offset  *)
(* that advance_time adds to, or the system clock, and then the proposer.  *)
(***************************************************************************)
EXTENDS StorageProofs

-----------------------------------------------------------------------------
(* Arithmetic on durations.                                                *)

(* What the division by n leaves is the only number below n that does.     *)
LEMMA Remainder ==
  ASSUME NEW n \in Nat, n > 0, NEW a \in Int, NEW q \in Int, NEW r \in 0..(n - 1), a = n * q + r
  PROVE  a % n = r
<1>1. a % n \in 0..(n - 1)
  OBVIOUS
<1>2. PICK k \in Int : a = n * k + (a % n)
  OBVIOUS
<1>3. n * (k - q) = r - (a % n)
  BY <1>1, <1>2
<1>4. ASSUME NEW d \in Int, NEW e \in Int, n * d = e, e < n, e > -n PROVE e = 0
  <2>1. d >= 1 => n * d >= n
    OBVIOUS
  <2>2. d <= -1 => n * d <= -n
    OBVIOUS
  <2>3. d = 0 => n * d = 0
    OBVIOUS
  <2>4. QED
    BY <1>4, <2>1, <2>2, <2>3
<1>5. /\ k - q \in Int /\ r - (a % n) \in Int
      /\ r - (a % n) < n /\ r - (a % n) > -n
  BY <1>1
<1>6. r - (a % n) = 0
  BY <1>3, <1>4, <1>5
<1>7. QED
  BY <1>1, <1>6

(* A duration that overflows loses a multiple of 2^64.                     *)
LEMMA WrapLoses ==
  ASSUME NEW x \in Int, x >= -Half
  PROVE  Wrap(x) = x \/ Wrap(x) + 2 * Half <= x
<1>1. Half \in Nat /\ Half > 0
  BY TimesAreIntegers DEF Half
<1>2. ASSUME NEW n \in Nat, n > 0, NEW a \in Nat PROVE a % n = a \/ (a % n) + n <= a
  BY <1>2
<1>3. x + Half \in Nat /\ 2 * Half \in Nat /\ 2 * Half > 0
  BY <1>1
<1>4. /\ (x + Half) % (2 * Half) \in Int
      /\ \/ (x + Half) % (2 * Half) = x + Half
         \/ ((x + Half) % (2 * Half)) + 2 * Half <= x + Half
  BY <1>2, <1>3
<1>5. QED
  BY <1>1, <1>4 DEF Wrap

(* One that falls below the range comes back at its other end.             *)
LEMMA WrapAround ==
  ASSUME NEW x \in Int, x < -Half, x >= -3 * Half
  PROVE  Wrap(x) = x + 2 * Half
<1>1. Half \in Nat /\ Half > 0
  BY TimesAreIntegers DEF Half
<1>2. (x + Half) % (2 * Half) = x + 3 * Half
  <2>1. /\ 2 * Half \in Nat /\ 2 * Half > 0 /\ x + Half \in Int /\ -1 \in Int
        /\ x + 3 * Half \in 0..(2 * Half - 1)
        /\ x + Half = (2 * Half) * (-1) + (x + 3 * Half)
    BY <1>1
  <2>2. QED
    BY <2>1, Remainder
<1>3. QED
  BY <1>1, <1>2 DEF Wrap

(* advance_time never adds more to the offset than the time that is asked  *)
(* for, whatever overflows.                                                *)
LEMMA OffsetGrows ==
  ASSUME NEW c \in Int, -Half <= c, c <= MaxInt64, NEW d \in Nat
  PROVE  Wrap(c + Wrap(d)) <= (IF c > 0 THEN c ELSE 0) + d
<1>1. Half \in Nat /\ Half = MaxInt64 + 1 /\ MaxInt64 \in Nat
  BY TimesAreIntegers DEF Half
<1>2. /\ Wrap(d) \in Int /\ -Half <= Wrap(d) /\ Wrap(d) <= MaxInt64
      /\ Wrap(d) = d \/ Wrap(d) + 2 * Half <= d
  BY <1>1, WrapType, WrapLoses
<1> DEFINE e == Wrap(d)
<1>3. /\ e \in Int /\ -Half <= e /\ e <= MaxInt64
      /\ e = d \/ e + 2 * Half <= d
  BY <1>2
<1> HIDE DEF e
<1>4. c + e \in Int /\ Wrap(c + e) \in Int
  BY <1>3, WrapType
<1>5. CASE c + e >= -Half
  <2>1. Wrap(c + e) = c + e \/ Wrap(c + e) + 2 * Half <= c + e
    BY <1>4, <1>5, WrapLoses
  <2>2. QED
    BY <1>1, <1>3, <1>4, <2>1 DEF e
<1>6. CASE c + e < -Half
  <2>1. Wrap(c + e) = c + e + 2 * Half
    BY <1>1, <1>3, <1>4, <1>6, WrapAround
  <2>2. QED
    BY <1>1, <1>3, <1>4, <1>6, <2>1 DEF e
<1>7. QED
  BY <1>1, <1>3, <1>5, <1>6

(* A duration that is in range is not changed.                             *)
LEMMA WrapFits ==
  ASSUME NEW x \in Int, -Half <= x, x <= MaxInt64
  PROVE  Wrap(x) = x
<1>1. Half \in Nat /\ Half = MaxInt64 + 1 /\ MaxInt64 \in Nat
  BY TimesAreIntegers DEF Half
<1>2. Wrap(x) \in Int /\ Wrap(x) >= -MaxInt64 - 1
  BY WrapType
<1>3. Wrap(x) = x \/ Wrap(x) + 2 * Half <= x
  BY <1>1, WrapLoses
<1>4. QED
  BY <1>1, <1>2, <1>3

-----------------------------------------------------------------------------
(* Fixed block times.                                                      *)

(* Only advance_time and GetBlockTime change the offset.                   *)
LEMMA OnlyTimeSteps ==
  ASSUME Next, ~RequestAdvanceTime, ~\E t \in Threads : CallGetBlockTime(t)
  PROVE  UNCHANGED <<curOffset, advanced, lastBlockTimestamp>> /\ (ClockTick \/ UNCHANGED now)
<1>1. CASE \E t \in Threads : RunBlock(t)
  <2>1. PICK t \in Threads : RunBlock(t)
    BY Zenon, <1>1
  <2>2. CASE ReadLastBlockTime(t) \/ ReadProposer(t) \/ LockBlockMutex(t)
    BY <2>2, Zenon DEF ReadLastBlockTime, ReadProposer, LockBlockMutex, timeVars, inputVars
  <2>3. CASE CheckTxs(t) \/ DecideProposal(t)
    BY <2>3, Zenon DEF CheckTxs, DecideProposal, timeVars, inputVars
  <2>4. CASE ProcessProposal(t) \/ ExtendAndSignVote(t) \/ MakeExtendedCommit(t)
    BY <2>4, Zenon DEF ProcessProposal, ExtendAndSignVote, MakeExtendedCommit, timeVars, inputVars
  <2>5. CASE SendFinalizeBlock(t) \/ StoreBlock(t) \/ UpdateStateFromBlock(t)
    BY <2>5, Zenon DEF SendFinalizeBlock, StoreBlock, UpdateStateFromBlock, timeVars, inputVars
  <2>6. CASE FireEvents(t) \/ SendCommit(t) \/ FinishBlock(t)
    BY <2>6, Zenon DEF FireEvents, EventsFired, EventsPanic, SendCommit, FinishBlock, timeVars, inputVars
  <2>7. QED
    BY <2>1, <2>2, <2>3, <2>4, <2>5, <2>6, Zenon DEF RunBlock, BlockStep
<1>2. CASE Startup
  BY <1>2, Zenon DEF Startup, InitChain, RunFirstBlock, StartServer, ProduceBlock, StartRuns, timeVars,
     inputVars
<1>3. CASE ClockTick \/ SetSigningStatus
  BY <1>3, Zenon DEF ClockTick, Tick, SetSigningStatus, timeVars, inputVars
<1>4. CASE \E t \in Handlers : Request(t) \/ QueueTx(t)
  BY <1>4, Zenon DEF Request, AdvanceBlocks, CauseMisbehaviour, StartRuns, BroadcastTx, QueueTx, timeVars,
     inputVars
<1>5. QED
  BY <1>1, <1>2, <1>3, <1>4, Zenon DEF Next, Step, RunBlock

(* Time that has been added to a block is never taken back.                *)
LEMMA SpentGrows ==
  ASSUME StateTypeOK, ~UsesSystemClock, -Half <= curOffset, curOffset <= MaxInt64, Next
  PROVE  /\ -Half <= curOffset' /\ curOffset' <= MaxInt64
         /\ Spent \in Int /\ Spent' \in Int /\ Spent <= Spent'
<1>0. /\ curOffset \in Int /\ advanced \in Nat /\ Half \in Nat /\ Half = MaxInt64 + 1
      /\ MaxInt64 \in Nat
  BY TimesAreIntegers DEF StateTypeOK, ClientTypeOK, TimeTypeOK, EnvironmentTypeOK, Half
<1>1. CASE RequestAdvanceTime
  <2>1. PICK d \in Durations : /\ advanced' = advanced + d * Second
                               /\ curOffset' = Wrap(curOffset + Wrap(d * Second))
    BY <1>1, Zenon DEF RequestAdvanceTime, AdvanceTime
  <2>2. d * Second \in Nat
    BY TimesAreIntegers
  <2>3. curOffset + Wrap(d * Second) \in Int
    BY <1>0, <2>2, WrapType
  <2>4. curOffset' \in Int /\ -Half <= curOffset' /\ curOffset' <= MaxInt64
    BY <1>0, <2>1, <2>3, WrapType
  <2>5. curOffset' <= (IF curOffset > 0 THEN curOffset ELSE 0) + d * Second
    BY <1>0, <2>1, <2>2, OffsetGrows
  <2>6. QED
    BY <1>0, <2>1, <2>2, <2>4, <2>5 DEF Spent
<1>2. CASE \E t \in Threads : CallGetBlockTime(t)
  <2>1. curOffset' = 0 /\ UNCHANGED advanced
    BY <1>2, Zenon DEF CallGetBlockTime, GetBlockTime, inputVars
  <2>2. QED
    BY <1>0, <2>1 DEF Spent
<1>3. CASE UNCHANGED <<curOffset, advanced>>
  BY <1>0, <1>3 DEF Spent
<1>4. QED
  BY <1>1, <1>2, <1>3, OnlyTimeSteps, Zenon

(* The latest time that a height may have, given what is spent, grows with *)
(* both.                                                                   *)
Limit(height, spent) == FirstBlockTime + (height - 1) * BlockTime + spent

(* It grows with the height and with the durations spent.                  *)
LEMMA LimitGrows ==
  ASSUME ~UsesSystemClock, NEW h \in Nat, NEW k \in Nat, h <= k, NEW x \in Int, NEW y \in Int, x <= y
  PROVE  Limit(h, x) \in Int /\ Limit(k, y) \in Int /\ Limit(h, x) <= Limit(k, y)
<1>1. BlockTime \in Nat /\ FirstBlockTime \in Int
  BY TimesAreIntegers DEF UsesSystemClock, FirstBlockTime
<1>2. PICK d \in Nat : k = h + d
  OBVIOUS
<1>3. /\ (h - 1) * BlockTime \in Int /\ (k - 1) * BlockTime \in Int
      /\ d * BlockTime \in Nat
  BY <1>1
<1>4. (k - 1) * BlockTime = (h - 1) * BlockTime + d * BlockTime
  BY <1>1, <1>2
<1>5. QED
  BY <1>1, <1>3, <1>4 DEF Limit

(* What a step does to the time and the proposer that a goroutine works    *)
(* with: nothing, or it drops them, carries them on, or puts them into the *)
(* block and carries that.                                                 *)
Untimed == Labels \ {"getTime", "readProposer", "lock", "checkTxs", "propose", "process", "sign",
                     "finalize", "store"}
TimeStays(u) == /\ pc'[u] = pc[u] /\ blockTime'[u] = blockTime[u] /\ proposer'[u] = proposer[u]
                /\ pc[u] \in Critical => block' = block
TimeMoves(u) ==
  \/ TimeStays(u)
  \/ pc'[u] \in Untimed
  \/ /\ {pc[u], pc'[u]} \subseteq {"readProposer", "lock", "checkTxs", "propose"}
     /\ blockTime'[u] = blockTime[u]
     /\ \/ ReadProposer(u)
        \/ "readProposer" \notin {pc[u], pc'[u]} /\ proposer'[u] = proposer[u]
  \/ /\ pc[u] = "propose" /\ pc'[u] = "process"
     /\ block'.time = blockTime[u] /\ block'.proposer = proposer[u]
  \/ /\ {pc[u], pc'[u]} \subseteq {"process", "sign", "finalize", "store"}
     /\ block'.time = block.time /\ block'.proposer = block.proposer

(* A goroutine in RunBlock does not disturb the others.                    *)
LEMMA OtherTimesStay ==
  ASSUME StateTypeOK, StorageInv, NEW t \in Threads, NEW u \in Threads, u # t, RunBlock(t)
  PROVE  TimeStays(u)
<1>1. /\ pc \in [Threads -> Labels] /\ blockTime \in [Threads -> Int]
      /\ proposer \in [Threads -> Addresses \cup {NoAddress}]
  BY Zenon DEF StateTypeOK, GoroutineTypeOK
<1>2. pc[t] \in Critical => pc[u] \notin Critical
  BY Zenon DEF StorageInv, Locks
<1>3. ASSUME pc[t] \in Critical, NEW label, pc' = [pc EXCEPT ![t] = label],
             blockTime' = blockTime \/ \E x : blockTime' = [blockTime EXCEPT ![t] = x],
             proposer' = proposer \/ \E x : proposer' = [proposer EXCEPT ![t] = x]
      PROVE  TimeStays(u)
  BY <1>1, <1>2, <1>3, Zenon DEF TimeStays
<1>4. ASSUME pc[t] \in Critical, NEW outcome, Leave(t, outcome) PROVE TimeStays(u)
  BY <1>3, <1>4, Zenon DEF Leave, Goto
<1>5. ASSUME pc[t] \in Critical, NEW label, Continue(t, label) PROVE TimeStays(u)
  BY <1>3, <1>5, Zenon DEF Continue, Goto, argVars
<1>6. CASE ReadLastBlockTime(t) \/ CallGetBlockTime(t) \/ ReadProposer(t) \/ LockBlockMutex(t)
  BY <1>1, <1>6, Zenon DEF ReadLastBlockTime, CallGetBlockTime, ReadProposer, LockBlockMutex, Goto,
     helperVars, argVars, TimeStays
<1>7. CASE CheckTxs(t) \/ DecideProposal(t)
  BY <1>4, <1>5, <1>7, Zenon DEF CheckTxs, DecideProposal, At, Critical
<1>8. CASE ProcessProposal(t) \/ ExtendAndSignVote(t) \/ MakeExtendedCommit(t)
  BY <1>4, <1>5, <1>8, Zenon DEF ProcessProposal, ExtendAndSignVote, MakeExtendedCommit, At, Critical
<1>9. CASE SendFinalizeBlock(t) \/ StoreBlock(t) \/ UpdateStateFromBlock(t)
  BY <1>4, <1>5, <1>9, Zenon DEF SendFinalizeBlock, StoreBlock, UpdateStateFromBlock, At, Critical
<1>10. CASE FireEvents(t) \/ SendCommit(t) \/ FinishBlock(t)
  BY <1>4, <1>5, <1>10, Zenon DEF FireEvents, EventsFired, EventsPanic, SendCommit, FinishBlock, At, Critical
<1>11. QED
  BY <1>6, <1>7, <1>8, <1>9, <1>10, Zenon DEF RunBlock, BlockStep

(* It carries its own time into the block that it runs.                    *)
LEMMA OwnTimeMoves ==
  ASSUME StateTypeOK, NEW t \in Threads, RunBlock(t), ~ReadLastBlockTime(t), ~CallGetBlockTime(t)
  PROVE  TimeMoves(t)
<1>0. ASSUME pc'[t] \in Untimed PROVE TimeMoves(t)
  BY Zenon, <1>0 DEF TimeMoves
<1>1. /\ pc \in [Threads -> Labels] /\ blockTime \in [Threads -> Int]
      /\ proposer \in [Threads -> Addresses \cup {NoAddress}]
  BY Zenon DEF StateTypeOK, GoroutineTypeOK
<1>2. ASSUME NEW outcome, Leave(t, outcome) PROVE TimeMoves(t)
  BY <1>1, <1>2, Zenon DEF Leave, Goto, NextLabel, TimeMoves, Untimed, Labels
<1>3. ASSUME NEW label, Continue(t, label) PROVE pc'[t] = label /\ UNCHANGED <<blockTime, proposer>>
  BY <1>1, <1>3, Zenon DEF Continue, Goto, argVars
<1>4. CASE ReadProposer(t) \/ LockBlockMutex(t)
  <2>1. /\ {pc[t], pc'[t]} \subseteq {"readProposer", "lock", "checkTxs", "propose"}
        /\ blockTime'[t] = blockTime[t]
    BY <1>1, <1>4, Zenon DEF ReadProposer, LockBlockMutex, At, Goto, argVars
  <2>2. CASE LockBlockMutex(t)
    <3>1. "readProposer" \notin {pc[t], pc'[t]} /\ proposer'[t] = proposer[t]
      BY <1>1, <2>2, Zenon DEF LockBlockMutex, At, Goto, argVars
    <3>2. QED
      BY <2>1, <3>1, Zenon DEF TimeMoves
  <2>3. QED
    BY <1>4, <2>1, <2>2, Zenon DEF TimeMoves
<1>5. CASE CheckTxs(t)
  <2>1. CASE Continue(t, "propose")
    <3>1. /\ pc[t] = "checkTxs" /\ pc'[t] = "propose" /\ blockTime'[t] = blockTime[t]
          /\ proposer'[t] = proposer[t]
      BY <1>3, <1>5, <2>1, Zenon DEF CheckTxs, At
    <3>2. QED
      BY <3>1 DEF TimeMoves
  <2>2. QED
    BY <1>2, <1>5, <2>1, Zenon DEF CheckTxs
<1>6. CASE DecideProposal(t)
  <2>1. CASE \E outcome : Leave(t, outcome)
    BY <1>2, <2>1, Zenon
  <2>2. CASE Continue(t, "process") /\ \E txs : block' = CreateProposalBlock(t, txs)
    <3>1. PICK txs : block' = CreateProposalBlock(t, txs)
      BY Zenon, <2>2
    <3>2. block'.time = blockTime[t] /\ block'.proposer = proposer[t]
      BY <3>1 DEF CreateProposalBlock
    <3>3. QED
      BY <1>3, <1>6, <2>2, <3>2, Zenon DEF DecideProposal, At, TimeMoves
  <2>3. QED
    BY <1>6, <2>1, <2>2, Zenon DEF DecideProposal
<1>7. CASE ProcessProposal(t) \/ ExtendAndSignVote(t) \/ MakeExtendedCommit(t)
  BY <1>2, <1>3, <1>7, Zenon DEF ProcessProposal, ExtendAndSignVote, MakeExtendedCommit, At, helperVars,
     TimeMoves
<1>8. CASE SendFinalizeBlock(t)
  BY <1>2, <1>3, <1>8, Zenon DEF SendFinalizeBlock, At, TimeMoves
<1>9. CASE StoreBlock(t) \/ UpdateStateFromBlock(t)
  <2>1. (\E outcome : Leave(t, outcome)) \/ Continue(t, "updateState") \/ Continue(t, "fireEvents")
    BY <1>9, Zenon DEF StoreBlock, UpdateStateFromBlock
  <2>2. "updateState" \in Untimed /\ "fireEvents" \in Untimed
    BY DEF Untimed, Labels
  <2>3. QED
    BY <1>0, <1>2, <1>3, <2>1, <2>2, Zenon
<1>10. CASE FireEvents(t) \/ SendCommit(t) \/ FinishBlock(t)
  <2>1. (\E outcome : Leave(t, outcome)) \/ Continue(t, "commit")
    BY <1>10, Zenon DEF FireEvents, EventsFired, EventsPanic, SendCommit, FinishBlock
  <2>2. "commit" \in Untimed
    BY DEF Untimed, Labels
  <2>3. QED
    BY <1>0, <1>2, <1>3, <2>1, <2>2, Zenon
<1>11. QED
  BY <1>4, <1>5, <1>6, <1>7, <1>8, <1>9, <1>10, Zenon DEF RunBlock, BlockStep

(* Outside RunBlock only main's first block gets a time.                   *)
LEMMA OutsideTimesMove ==
  ASSUME StateTypeOK, Next, ~\E t \in Threads : RunBlock(t), NEW u \in Threads,
         ~(u = Main /\ RunFirstBlock)
  PROVE  TimeMoves(u)
<1>1. /\ pc \in [Threads -> Labels] /\ blockTime \in [Threads -> Int]
      /\ proposer \in [Threads -> Addresses \cup {NoAddress}]
  BY Zenon DEF StateTypeOK, GoroutineTypeOK
<1>2. CASE InitChain \/ StartServer
  BY <1>1, <1>2, Zenon DEF InitChain, StartServer, Goto, argVars, helperVars, TimeMoves, TimeStays, Untimed,
     Labels
<1>3. CASE RunFirstBlock
  BY <1>1, <1>3, Zenon DEF RunFirstBlock, Goto, helperVars, TimeMoves, TimeStays
<1>4. CASE ClockTick \/ RequestAdvanceTime \/ SetSigningStatus
  BY <1>4, Zenon DEF ClockTick, RequestAdvanceTime, SetSigningStatus, argVars, helperVars, TimeMoves,
     TimeStays
<1>5. ASSUME NEW t, NEW n, NEW m, StartRuns(t, n, m) PROVE TimeMoves(u)
  <2>1. pc' = [pc EXCEPT ![t] = "readTime"] /\ UNCHANGED <<blockTime, proposer, block>>
    BY <1>5, Zenon DEF StartRuns, Goto, helperVars
  <2>2. QED
    BY <1>1, <2>1, Zenon DEF TimeMoves, TimeStays, Untimed, Labels
<1>6. ASSUME NEW t \in Handlers, BroadcastTx(t) \/ QueueTx(t) PROVE TimeMoves(u)
  <2>1. UNCHANGED <<blockTime, proposer, block>>
    BY <1>6, Zenon DEF BroadcastTx, QueueTx, helperVars
  <2>2. pc'[u] = pc[u] \/ pc'[u] \in {"queueTx", "idle", "readTime"}
    <3>1. CASE \E label \in {"queueTx", "idle"} : Goto(t, label)
      BY <1>1, <3>1, Zenon DEF Goto
    <3>2. CASE \E g \in AutoRunners : pc' = [pc EXCEPT ![t] = "idle", ![g] = "readTime"]
      BY <1>1, <3>2
    <3>3. QED
      BY <1>6, <3>1, <3>2, Zenon DEF BroadcastTx, QueueTx
  <2>3. QED
    BY <2>1, <2>2, Zenon DEF TimeMoves, TimeStays, Untimed, Labels
<1>7. QED
  BY <1>2, <1>3, <1>4, <1>5, <1>6, Zenon DEF Next, Step, Startup, ProduceBlock, Request, AdvanceBlocks,
     CauseMisbehaviour, RunBlock

(* The limits on the times of the newest block and of the next one grow.   *)
LEMMA LimitsGrow ==
  ASSUME StateTypeOK, StateTypeOK', StorageInv, ~UsesSystemClock, Spent \in Int, Spent' \in Int,
         Spent <= Spent', Next
  PROVE  /\ LatestTime(LastBlock.height) \in Int /\ LatestTime(LastBlock.height)' \in Int
         /\ LatestTime(LastBlock.height) <= LatestTime(LastBlock.height)'
         /\ LatestTime(LastBlock.height + 1) \in Int /\ LatestTime(LastBlock.height + 1)' \in Int
         /\ LatestTime(LastBlock.height + 1) <= LatestTime(LastBlock.height + 1)'
<1> DEFINE h == LastBlock.height
           k == LastBlock'.height
<1>1. h \in Nat /\ k \in Nat
  BY Zenon DEF StateTypeOK, ClientTypeOK, IsBlock
<1>2. h <= k
  <2>1. CASE \E t \in Threads : StoreBlock(t)
    <3>1. LastBlock' = block /\ block.height = h + 1
      BY <2>1, StoreAppends, Zenon
    <3>2. QED
      BY <1>1, <3>1
  <2>2. CASE ~\E t \in Threads : StoreBlock(t)
    <3>1. UNCHANGED LastBlock
      BY <2>2, OnlyStoreBlockMovesTip, Zenon
    <3>2. QED
      BY <1>1, <3>1
  <2>3. QED
    BY Zenon, <2>1, <2>2
<1>3. /\ LatestTime(LastBlock.height) = Limit(h, Spent)
      /\ LatestTime(LastBlock.height + 1) = Limit(h + 1, Spent)
  BY Zenon DEF LatestTime, Limit
<1>4. /\ LatestTime(LastBlock.height)' = Limit(k, Spent')
      /\ LatestTime(LastBlock.height + 1)' = Limit(k + 1, Spent')
  BY Zenon DEF LatestTime, Limit, FirstBlockTime, UsesSystemClock
<1> HIDE DEF h, k
<1>5. h + 1 \in Nat /\ k + 1 \in Nat /\ h + 1 <= k + 1
  BY <1>1, <1>2
<1>6. /\ Limit(h, Spent) \in Int /\ Limit(k, Spent') \in Int /\ Limit(h, Spent) <= Limit(k, Spent')
      /\ Limit(h + 1, Spent) \in Int /\ Limit(k + 1, Spent') \in Int
      /\ Limit(h + 1, Spent) <= Limit(k + 1, Spent')
  BY <1>1, <1>2, <1>5, LimitGrows
<1>7. QED
  BY <1>3, <1>4, <1>6, Zenon

(* A time that is carried on stays below the limit.                        *)
LEMMA TimeStageMoves ==
  ASSUME StateTypeOK, StateTypeOK', StorageInv, ~UsesSystemClock, Spent \in Int, Spent' \in Int,
         Spent <= Spent', Next, NEW u \in Threads, TimeStage(u), TimeMoves(u)
  PROVE  TimeStage(u)'
<1>1. /\ LatestTime(LastBlock.height) \in Int /\ LatestTime(LastBlock.height)' \in Int
      /\ LatestTime(LastBlock.height) <= LatestTime(LastBlock.height)'
      /\ LatestTime(LastBlock.height + 1) \in Int /\ LatestTime(LastBlock.height + 1)' \in Int
      /\ LatestTime(LastBlock.height + 1) <= LatestTime(LastBlock.height + 1)'
  BY LimitsGrow, Zenon
<1>2. /\ blockTime[u] \in Int /\ blockTime'[u] \in Int /\ block.time \in Int /\ block'.time \in Int
  BY DEF StateTypeOK, GoroutineTypeOK, IsBlock
<1>3. CASE TimeStays(u)
  BY <1>1, <1>2, <1>3 DEF TimeStays, TimeStage, Critical
<1>4. CASE pc'[u] \in Untimed
  BY <1>4, Zenon DEF Untimed, TimeStage
<1>5. CASE /\ {pc[u], pc'[u]} \subseteq {"readProposer", "lock", "checkTxs", "propose"}
           /\ blockTime'[u] = blockTime[u]
  BY <1>1, <1>2, <1>5 DEF TimeStage
<1>6. CASE pc[u] = "propose" /\ pc'[u] = "process" /\ block'.time = blockTime[u]
  BY <1>1, <1>2, <1>6 DEF TimeStage
<1>7. CASE /\ {pc[u], pc'[u]} \subseteq {"process", "sign", "finalize", "store"}
           /\ block'.time = block.time
  BY <1>1, <1>2, <1>7 DEF TimeStage
<1>8. QED
  BY <1>3, <1>4, <1>5, <1>6, <1>7, Zenon DEF TimeMoves

(* RunBlock starts from the time of the newest block.                      *)
LEMMA TimeIsRead ==
  ASSUME StateTypeOK, StateTypeOK', StorageInv, TipInv, ~UsesSystemClock, Spent \in Int, Spent' \in Int,
         Spent <= Spent', Next, NEW u \in Threads, ReadLastBlockTime(u),
         \A h \in DOMAIN blocks : blocks[h].time <= LatestTime(h)
  PROVE  TimeStage(u)'
<1>1. /\ pc[u] = "readTime" /\ pc'[u] = "getTime" /\ blockTime'[u] = LastBlock.time
  BY Zenon DEF ReadLastBlockTime, At, Goto, StateTypeOK, GoroutineTypeOK
<1>2. LastBlock.height \in Nat /\ CurState.LastBlockHeight \in Nat /\ LastBlock.time \in Int
  BY Zenon DEF StateTypeOK, ClientTypeOK, IsBlock, State
<1>3. CurState.LastBlockHeight > 0
  BY <1>1, Zenon DEF TipInv, Unstarted
<1>4. LastBlock.height > 0
  BY <1>2, <1>3 DEF TipInv
<1>5. LastBlock.height \in DOMAIN blocks /\ blocks[LastBlock.height] = LastBlock
  BY <1>2, <1>4 DEF StorageInv, Stores, StoresAgree
<1>6. LastBlock.time <= LatestTime(LastBlock.height)
  BY <1>5, Zenon
<1>7. /\ LatestTime(LastBlock.height) \in Int /\ LatestTime(LastBlock.height)' \in Int
      /\ LatestTime(LastBlock.height) <= LatestTime(LastBlock.height)'
  BY LimitsGrow, Zenon
<1>8. LastBlock.time <= LatestTime(LastBlock.height)'
  BY <1>2, <1>6, <1>7
<1>9. QED
  BY <1>1, <1>8, Zenon DEF TimeStage

(* GetBlockTime adds the block time and what is left of the offset, which  *)
(* is spent from then on.                                                  *)
LEMMA TimeIsSpent ==
  ASSUME StateTypeOK, ~UsesSystemClock, -Half <= curOffset, curOffset <= MaxInt64,
         NEW u \in Threads, CallGetBlockTime(u), TimeStage(u)
  PROVE  TimeStage(u)'
<1>1. /\ pc[u] = "getTime" /\ pc'[u] = "readProposer" /\ blockTime'[u] = NextBlockTime(blockTime[u])
      /\ curOffset' = 0 /\ UNCHANGED <<LastBlock, advanced>>
  BY Zenon DEF CallGetBlockTime, GetBlockTime, At, Goto, chainVars, inputVars, StateTypeOK, GoroutineTypeOK
<1>2. /\ LastBlock.height \in Nat /\ blockTime[u] \in Int /\ curOffset \in Int /\ advanced \in Nat
      /\ FirstBlockTime \in Int /\ BlockTime \in Nat /\ Half \in Nat /\ MaxInt64 \in Nat
  BY TimesAreIntegers DEF StateTypeOK, GoroutineTypeOK, ClientTypeOK, TimeTypeOK, EnvironmentTypeOK,
     IsBlock, FirstBlockTime, UsesSystemClock, Half
<1>3. Wrap(BlockTime + curOffset) \in Int /\ Wrap(BlockTime + curOffset) <= BlockTime + curOffset
  <2>1. BlockTime + curOffset \in Int /\ BlockTime + curOffset >= -Half
    BY <1>2
  <2>2. QED
    BY <1>2, <2>1, WrapType, WrapLoses
<1> DEFINE base == (LastBlock.height - 1) * BlockTime
<1>4. base \in Int /\ ((LastBlock.height + 1) - 1) * BlockTime = base + BlockTime
  BY <1>2
<1>5. blockTime[u] <= FirstBlockTime + base + Spent
  BY <1>1, Zenon DEF TimeStage, LatestTime
<1>6. LatestTime(LastBlock.height + 1)' = FirstBlockTime + ((LastBlock.height + 1) - 1) * BlockTime + Spent'
  BY <1>1, Zenon DEF LatestTime, FirstBlockTime, UsesSystemClock
<1> HIDE DEF base
<1>7. Spent' = advanced
  BY <1>1, <1>2 DEF Spent
<1>8. blockTime'[u] <= LatestTime(LastBlock.height + 1)'
  BY <1>1, <1>2, <1>3, <1>4, <1>5, <1>6, <1>7 DEF NextBlockTime, Spent
<1>9. QED
  BY <1>1, <1>8, Zenon DEF TimeStage

(* The first block has the time that main gives it.                        *)
LEMMA FirstTime ==
  ASSUME StateTypeOK, ~UsesSystemClock, Spent \in Int, Spent >= 0, RunFirstBlock
  PROVE  TimeStage(Main)'
<1>1. /\ pc'[Main] = "lock" /\ blockTime'[Main] = FirstBlockTime
      /\ UNCHANGED <<LastBlock, curOffset, advanced>>
  BY Zenon DEF RunFirstBlock, Goto, chainVars, timeVars, inputVars, StateTypeOK, GoroutineTypeOK, Threads
<1>2. LastBlock.height \in Nat /\ BlockTime \in Nat /\ FirstBlockTime \in Int
  BY TimesAreIntegers DEF StateTypeOK, ClientTypeOK, IsBlock, FirstBlockTime, UsesSystemClock
<1>3. ((LastBlock.height + 1) - 1) * BlockTime \in Nat
  BY <1>2
<1>4. LatestTime(LastBlock.height + 1)' = FirstBlockTime + ((LastBlock.height + 1) - 1) * BlockTime + Spent
  BY <1>1, Zenon DEF LatestTime, Spent, FirstBlockTime, UsesSystemClock
<1>5. blockTime'[Main] <= LatestTime(LastBlock.height + 1)'
  BY <1>1, <1>2, <1>3, <1>4
<1>6. QED
  BY <1>1, <1>5, Zenon DEF TimeStage

(* Stored blocks stay below their limits, and so does the one on top.      *)
LEMMA StoredTimes ==
  ASSUME StateTypeOK, StateTypeOK', StorageInv, ~UsesSystemClock, Spent \in Int, Spent' \in Int,
         Spent <= Spent', Next, \A t \in Threads : TimeStage(t),
         \A h \in DOMAIN blocks : blocks[h].time <= LatestTime(h)
  PROVE  \A h \in DOMAIN blocks' : blocks'[h].time <= LatestTime(h)'
<1>1. ASSUME NEW h \in Nat, NEW x \in Int, x <= LatestTime(h) PROVE x <= LatestTime(h)'
  <2>1. LatestTime(h) = Limit(h, Spent)
    BY Zenon DEF LatestTime, Limit
  <2>2. LatestTime(h)' = Limit(h, Spent')
    BY Zenon DEF LatestTime, Limit, FirstBlockTime, UsesSystemClock
  <2>3. h <= h
    OBVIOUS
  <2>4. Limit(h, Spent) \in Int /\ Limit(h, Spent') \in Int /\ Limit(h, Spent) <= Limit(h, Spent')
    BY <2>3, LimitGrows, Zenon
  <2>5. QED
    BY <1>1, <2>1, <2>2, <2>4
<1>2. LastBlock.height \in Nat /\ DOMAIN blocks = 1..LastBlock.height
  BY Zenon DEF StateTypeOK, ClientTypeOK, IsBlock, StorageInv, Stores, StoresAgree
<1>3. ASSUME NEW h \in DOMAIN blocks PROVE blocks[h].time <= LatestTime(h)'
  <2>1. h \in Nat
    BY <1>2
  <2>2. blocks[h].time \in Int
    BY Zenon DEF StateTypeOK, StorageTypeOK, IsBlock
  <2>3. QED
    BY <1>1, <2>1, <2>2, Zenon
<1>4. CASE \E t \in Threads : StoreBlock(t)
  <2>1. PICK t \in Threads : StoreBlock(t)
    BY Zenon, <1>4
  <2>2. /\ DOMAIN blocks' = DOMAIN blocks \cup {LastBlock.height + 1}
        /\ blocks'[LastBlock.height + 1] = block
        /\ \A h \in DOMAIN blocks : blocks'[h] = blocks[h]
    BY <2>1, StoreAppends, Zenon
  <2>3. block.time <= LatestTime(LastBlock.height + 1)
    BY <2>1, Zenon DEF StoreBlock, At, TimeStage
  <2>4. LastBlock.height + 1 \in Nat /\ block.time \in Int
    BY <1>2 DEF StateTypeOK, GoroutineTypeOK, IsBlock
  <2>5. ASSUME NEW n \in Nat, n = LastBlock.height + 1 PROVE block.time <= LatestTime(n)'
    BY <1>1, <2>3, <2>4, <2>5, Zenon
  <2>6. ASSUME NEW h \in DOMAIN blocks' PROVE blocks'[h].time <= LatestTime(h)'
    <3>1. CASE h \in DOMAIN blocks
      BY <1>3, <2>2, <3>1, Zenon
    <3>2. CASE h = LastBlock.height + 1
      BY <2>2, <2>4, <2>5, <3>2, Zenon
    <3>3. QED
      BY <2>2, <2>6, <3>1, <3>2, Zenon
  <2>7. QED
    BY Zenon, <2>6
<1>5. CASE ~\E t \in Threads : StoreBlock(t)
  BY <1>3, <1>5, OnlyStoreBlockWrites, Zenon
<1>6. QED
  BY Zenon, <1>4, <1>5

(* Every step keeps the invariant of the times.                            *)
LEMMA StepTimes ==
  StateTypeOK /\ StateTypeOK' /\ StorageInv /\ TipInv /\ TimeInv /\ [Next]_vars => TimeInv'
<1>1. ASSUME StateTypeOK, StateTypeOK', StorageInv, TipInv, TimeInv, ~UsesSystemClock, Next
      PROVE  /\ -Half <= curOffset' /\ curOffset' <= MaxInt64 /\ Spent' >= 0
             /\ \A h \in DOMAIN blocks' : blocks'[h].time <= LatestTime(h)'
             /\ \A t \in Threads : TimeStage(t)'
  <2>0. /\ -Half <= curOffset /\ curOffset <= MaxInt64 /\ Spent >= 0
        /\ \A h \in DOMAIN blocks : blocks[h].time <= LatestTime(h)
        /\ \A t \in Threads : TimeStage(t)
    BY Zenon, <1>1 DEF TimeInv
  <2>1. /\ -Half <= curOffset' /\ curOffset' <= MaxInt64
        /\ Spent \in Int /\ Spent' \in Int /\ Spent <= Spent'
    BY Zenon, <1>1, <2>0, SpentGrows
  <2>2. Spent' >= 0
    BY <2>0, <2>1
  <2>3. \A h \in DOMAIN blocks' : blocks'[h].time <= LatestTime(h)'
    BY Zenon, <1>1, <2>0, <2>1, StoredTimes
  <2>4. ASSUME NEW u \in Threads PROVE TimeStage(u)'
    <3>1. CASE TimeMoves(u)
      BY Zenon, <1>1, <2>0, <2>1, <3>1, TimeStageMoves
    <3>2. CASE ReadLastBlockTime(u)
      BY Zenon, <1>1, <2>0, <2>1, <3>2, TimeIsRead
    <3>3. CASE CallGetBlockTime(u)
      BY Zenon, <1>1, <2>0, <3>3, TimeIsSpent
    <3>4. CASE u = Main /\ RunFirstBlock
      BY Zenon, <1>1, <2>0, <2>1, <3>4, FirstTime
    <3>5. ASSUME NEW t \in Threads, RunBlock(t)
          PROVE  TimeMoves(u) \/ ReadLastBlockTime(u) \/ CallGetBlockTime(u)
      BY <1>1, <3>5, OtherTimesStay, OwnTimeMoves, Zenon DEF TimeMoves
    <3>6. QED
      BY Zenon, <1>1, <3>1, <3>2, <3>3, <3>4, <3>5, OutsideTimesMove
  <2>5. QED
    BY Zenon, <2>1, <2>2, <2>3, <2>4
<1>2. ASSUME TimeInv, UNCHANGED vars PROVE TimeInv'
  <2>1. UNCHANGED <<pc, blockTime, block, LastBlock, curOffset, advanced, blocks>>
    BY <1>2, Zenon DEF vars, argVars, helperVars, chainVars, timeVars, inputVars, storageVars
  <2>2. Spent' = Spent /\ FirstBlockTime' = FirstBlockTime /\ UsesSystemClock' = UsesSystemClock
        /\ Half' = Half
    BY <2>1, Zenon DEF Spent, FirstBlockTime, UsesSystemClock, Half
  <2>3. QED
    BY <1>2, <2>1, <2>2, Zenon DEF TimeInv, TimeStage, LatestTime
<1>3. QED
  BY <1>1, <1>2, Zenon DEF TimeInv, UsesSystemClock, Half

(* What RunBlock reads of LastBlock and of the time handler without a lock *)
(* is never later than the heights and the spent durations allow.          *)
THEOREM TimeInvHolds == Spec => []TimeInv
<1>1. Init => TimeInv
  <2>1. SUFFICES ASSUME Init, ~UsesSystemClock PROVE TimeInv
    BY Zenon DEF TimeInv
  <2>2. curOffset = 0 /\ advanced = 0 /\ MaxInt64 \in Nat
    BY <2>1, TimesAreIntegers, Zenon DEF Init, TimeInit, InitialOffset
  <2>3. -Half <= curOffset /\ curOffset <= MaxInt64 /\ Spent >= 0
    BY <2>2 DEF Half, Spent
  <2>4. DOMAIN blocks = {} /\ pc = [t \in Threads |-> IF t = Main THEN "initChain" ELSE "idle"]
    BY <2>1 DEF Init, StorageInit
  <2>5. \A t \in Threads : TimeStage(t)
    BY <2>4, Zenon DEF TimeStage
  <2>6. QED
    BY <2>3, <2>4, <2>5, Zenon DEF TimeInv
<1>2. QED
  BY <1>1, StepTimes, TipInvHolds, InvHolds, StateTypeCorrect, PTL DEF Spec

(* With a fixed block time, no block is later than the block time and the  *)
(* spent durations of advance_time allow: whichever goroutines run blocks  *)
(* at once, none of them spends an offset that another one has spent, and  *)
(* an offset that overflows only loses time.                               *)
THEOREM TimeIsNeverGained == Spec => []NoTimeGained
<1>1. TimeInv => NoTimeGained
  BY Zenon DEF TimeInv, NoTimeGained
<1>2. QED
  BY <1>1, TimeInvHolds, PTL

-----------------------------------------------------------------------------
(* The start of the process: until the server is up only main runs, and    *)
(* before main's first block there is none.                                *)
MainFirst ==
  /\ ~serving => \A t \in Threads \ {Main} : pc[t] = "idle"
  /\ pc[Main] \in {"initChain", "firstBlock"} => ~serving /\ LastBlock.height = 0

(* RunBlock does not go back to the start.                                 *)
LEMMA RunBlockStarted ==
  ASSUME StateTypeOK, NEW t \in Threads, RunBlock(t)
  PROVE  {pc[t], pc'[t]} \cap {"initChain", "firstBlock"} = {}
<1>1. pc \in [Threads -> Labels]
  BY Zenon DEF StateTypeOK, GoroutineTypeOK
<1>2. pc[t] # "initChain" /\ pc'[t] # "initChain"
  BY <1>1, RunBlockMoves, Zenon
<1>3. ASSUME NEW outcome, Leave(t, outcome) PROVE pc'[t] # "firstBlock"
  BY <1>1, <1>3, Zenon DEF Leave, Goto, NextLabel
<1>4. ASSUME NEW label, label # "firstBlock", Continue(t, label) PROVE pc'[t] # "firstBlock"
  BY <1>1, <1>4, Zenon DEF Continue, Goto
<1>5. CASE ReadLastBlockTime(t) \/ CallGetBlockTime(t) \/ ReadProposer(t) \/ LockBlockMutex(t)
  BY <1>1, <1>2, <1>5, Zenon DEF ReadLastBlockTime, CallGetBlockTime, ReadProposer, LockBlockMutex, At, Goto
<1>6. CASE CheckTxs(t) \/ DecideProposal(t)
  BY <1>2, <1>3, <1>4, <1>6, Zenon DEF CheckTxs, DecideProposal, At
<1>7. CASE ProcessProposal(t) \/ ExtendAndSignVote(t) \/ MakeExtendedCommit(t)
  BY <1>2, <1>3, <1>4, <1>7, Zenon DEF ProcessProposal, ExtendAndSignVote, MakeExtendedCommit, At
<1>8. CASE SendFinalizeBlock(t) \/ StoreBlock(t) \/ UpdateStateFromBlock(t)
  BY <1>2, <1>3, <1>4, <1>8, Zenon DEF SendFinalizeBlock, StoreBlock, UpdateStateFromBlock, At
<1>9. CASE FireEvents(t) \/ SendCommit(t) \/ FinishBlock(t)
  BY <1>2, <1>3, <1>4, <1>9, Zenon DEF FireEvents, EventsFired, EventsPanic, SendCommit, FinishBlock, At
<1>10. QED
  BY <1>5, <1>6, <1>7, <1>8, <1>9, Zenon DEF RunBlock, BlockStep

(* Requests need the server, which main starts after its first block.      *)
LEMMA StepMainFirst ==
  ASSUME StateTypeOK, MainFirst, Next
  PROVE  MainFirst'
<1>0. /\ pc \in [Threads -> Labels] /\ Main \in Threads /\ Handlers \subseteq Threads
      /\ AutoRunners \subseteq Threads /\ Main \notin Handlers /\ Main \notin AutoRunners
  BY ThreadsAreDistinct, Zenon DEF StateTypeOK, GoroutineTypeOK, Threads
<1>1. CASE \E t \in Threads : RunBlock(t)
  <2>1. PICK t \in Threads : RunBlock(t)
    BY Zenon, <1>1
  <2>2. /\ pc[t] # "idle" /\ serving' = serving
        /\ \E label : pc' = [pc EXCEPT ![t] = label]
    BY <2>1, RunBlockMoves, Zenon
  <2>3. ~serving => t = Main
    BY <2>2, Zenon DEF MainFirst
  <2>4. ~serving' => \A u \in Threads \ {Main} : pc'[u] = "idle"
    BY <1>0, <2>2, <2>3, Zenon DEF MainFirst
  <2>5. CASE t = Main
    BY <2>1, <2>4, <2>5, RunBlockStarted DEF MainFirst
  <2>6. CASE t # Main /\ ~StoreBlock(t)
    <3>1. UNCHANGED LastBlock
      <4>1. CASE \E u \in Threads : StoreBlock(u)
        <5>1. PICK u \in Threads : StoreBlock(u)
          BY Zenon, <4>1
        <5>2. pc[u] = "store" /\ pc' = [pc EXCEPT ![u] = "updateState"]
          BY <5>1, Zenon DEF StoreBlock, At, Continue, Goto
        <5>3. QED
          BY <1>0, <2>1, <2>2, <2>6, <5>1, <5>2, Zenon
      <4>2. QED
        BY Zenon, <4>1, OnlyStoreBlockMovesTip
    <3>2. QED
      BY <1>0, <2>2, <2>4, <2>6, <3>1, Zenon DEF MainFirst
  <2>7. CASE t # Main /\ StoreBlock(t)
    BY <1>0, <2>2, <2>3, <2>4, <2>7, Zenon DEF MainFirst
  <2>8. QED
    BY Zenon, <2>5, <2>6, <2>7
<1>2. CASE ~\E t \in Threads : RunBlock(t)
  <2>0. UNCHANGED LastBlock
    BY <1>2, OnlyStoreBlockMovesTip, Zenon DEF RunBlock, BlockStep
  <2>1. CASE InitChain \/ RunFirstBlock \/ StartServer
    BY <1>0, <2>0, <2>1 DEF InitChain, RunFirstBlock, StartServer, At, Goto, processVars, MainFirst
  <2>2. CASE ClockTick \/ RequestAdvanceTime \/ SetSigningStatus
    <3>1. UNCHANGED <<pc, serving>>
      BY <2>2, Zenon DEF ClockTick, RequestAdvanceTime, SetSigningStatus, processVars
    <3>2. QED
      BY <2>0, <3>1 DEF MainFirst
  <2>3. ASSUME NEW t \in Threads, NEW n, NEW m, StartRuns(t, n, m) PROVE MainFirst'
    <3>1. serving /\ serving' = serving /\ pc' = [pc EXCEPT ![t] = "readTime"]
      BY <2>3, Zenon DEF StartRuns, Goto, processVars
    <3>2. QED
      BY <1>0, <2>0, <3>1, Zenon DEF MainFirst
  <2>4. ASSUME NEW t \in Handlers, BroadcastTx(t) \/ QueueTx(t) PROVE MainFirst'
    <3>1. serving /\ serving' = serving
      BY <1>0, <2>4, Zenon DEF BroadcastTx, QueueTx, At, processVars, MainFirst
    <3>2. pc'[Main] = pc[Main]
      BY <1>0, <2>4, Zenon DEF BroadcastTx, QueueTx, Goto
    <3>3. QED
      BY <2>0, <3>1, <3>2, Zenon DEF MainFirst
  <2>5. QED
    BY <1>0, <1>2, <2>1, <2>2, <2>3, <2>4, Zenon DEF Next, Step, RunBlock, Startup, ProduceBlock, Request,
       AdvanceBlocks, CauseMisbehaviour
<1>3. QED
  BY Zenon, <1>1, <1>2

(* So it is in every state that is reached.                                *)
LEMMA MainFirstHolds == Spec => []MainFirst
<1>1. Init => MainFirst
  BY DEF Init, MainFirst, EmptyBlock, Threads
<1>2. StateTypeOK /\ MainFirst /\ [Next]_vars => MainFirst'
  <2>1. ASSUME MainFirst, UNCHANGED vars PROVE MainFirst'
    BY <2>1, Zenon DEF vars, processVars, chainVars, MainFirst
  <2>2. QED
    BY <2>1, StepMainFirst, Zenon
<1>3. QED
  BY <1>1, <1>2, StateTypeCorrect, PTL DEF Spec

-----------------------------------------------------------------------------
(* The system clock.                                                       *)

(* The clock goes forward, and only advance_time changes the offset to it. *)
LEMMA ClockMoves ==
  ASSUME StateTypeOK, UsesSystemClock, Next
  PROVE  /\ now \in Int /\ now' \in Int /\ now <= now'
         /\ advanced \in Nat /\ curOffset \in Int
         /\ \E d \in Nat : /\ advanced' = advanced + d
                           /\ \/ curOffset' = Wrap(curOffset + Wrap(d))
                              \/ d = 0 /\ UNCHANGED curOffset
<1>0. now \in Int /\ curOffset \in Int /\ advanced \in Nat
  BY Zenon DEF StateTypeOK, ClientTypeOK, TimeTypeOK, EnvironmentTypeOK
<1>1. CASE RequestAdvanceTime
  <2>1. PICK d \in Durations : /\ advanced' = advanced + d * Second
                               /\ curOffset' = Wrap(curOffset + Wrap(d * Second))
                               /\ UNCHANGED now
    BY <1>1, Zenon DEF RequestAdvanceTime, AdvanceTime
  <2>2. d * Second \in Nat
    BY TimesAreIntegers
  <2>3. QED
    BY <1>0, <2>1, <2>2
<1>2. CASE UNCHANGED <<curOffset, advanced>> /\ (ClockTick \/ UNCHANGED now)
  <2>1. now' = now \/ now' = now + 1
    BY <1>2, Zenon DEF ClockTick, Tick
  <2>2. QED
    BY <1>0, <1>2, <2>1
<1>3. CASE \E t \in Threads : CallGetBlockTime(t)
  <2>1. UNCHANGED <<now, curOffset, advanced>>
    BY <1>3, Zenon DEF CallGetBlockTime, GetBlockTime, timeVars, inputVars
  <2>2. QED
    BY <1>0, <2>1
<1>4. QED
  BY <1>1, <1>2, <1>3, OnlyTimeSteps, Zenon

(* As long as nothing overflows, every duration is in the offset.          *)
LEMMA OffsetIsKept ==
  ASSUME StateTypeOK, UsesSystemClock, Next, OffsetFits',
         OffsetFits => curOffset = InitialOffset + advanced
  PROVE  OffsetFits /\ curOffset' = InitialOffset + advanced'
<1>1. /\ Half \in Nat /\ Half = MaxInt64 + 1 /\ MaxInt64 \in Nat /\ InitialOffset \in Int
  BY TimesAreIntegers DEF Half, InitialOffset
<1>2. /\ advanced \in Nat /\ curOffset \in Int
  BY ClockMoves, Zenon
<1>3. PICK d \in Nat : /\ advanced' = advanced + d
                       /\ \/ curOffset' = Wrap(curOffset + Wrap(d))
                          \/ d = 0 /\ UNCHANGED curOffset
  BY ClockMoves, Zenon
<1>4. /\ -Half <= InitialOffset /\ advanced' <= MaxInt64 /\ InitialOffset + advanced' <= MaxInt64
  BY Zenon DEF OffsetFits, Half, InitialOffset, UsesSystemClock
<1>5. OffsetFits
  BY <1>1, <1>2, <1>3, <1>4 DEF OffsetFits
<1>6. curOffset = InitialOffset + advanced
  BY Zenon, <1>5
<1>7. Wrap(d) = d
  BY <1>1, <1>2, <1>3, <1>4, WrapFits
<1>8. /\ curOffset + d \in Int /\ curOffset + d = InitialOffset + advanced'
      /\ -Half <= curOffset + d /\ curOffset + d <= MaxInt64
  BY <1>1, <1>2, <1>3, <1>4, <1>6
<1>9. Wrap(curOffset + d) = curOffset + d
  BY <1>8, WrapFits
<1>10. QED
  BY <1>1, <1>2, <1>3, <1>5, <1>6, <1>7, <1>8, <1>9

(* What the clock has shown stays something that it has shown.             *)
LEMMA ClockTimeGrows ==
  ASSUME StateTypeOK, UsesSystemClock, Next, NEW x \in Int, ClockTime(x)
  PROVE  ClockStart + InitialOffset <= x /\ x <= now' + InitialOffset + advanced'
<1>1. /\ now \in Int /\ now' \in Int /\ now <= now' /\ advanced \in Nat
      /\ \E d \in Nat : advanced' = advanced + d
  BY ClockMoves, Zenon
<1>2. advanced \in Int /\ advanced' \in Int /\ advanced <= advanced'
  BY <1>1
<1>3. ASSUME NEW n \in Int, NEW m \in Int, n <= m, NEW a \in Int, NEW b \in Int, a <= b,
             NEW o \in Int, x <= n + o + a
      PROVE  x <= m + o + b
  BY <1>3
<1>4. InitialOffset \in Int
  BY TimesAreIntegers DEF InitialOffset
<1>5. QED
  BY <1>1, <1>2, <1>3, <1>4, Zenon DEF ClockTime

(* Only main stores the first block.                                       *)
LEMMA FirstTip ==
  ASSUME StateTypeOK, StorageInv, TipInv, MainFirst, Next, NEW u \in Threads
  PROVE  /\ LastBlock.height = 0 => LastBlock'.height = 0 \/ pc'[u] \in Untimed
         /\ LastBlock.height # 0 => LastBlock'.height # 0
<1>1. LastBlock.height \in Nat /\ CurState.LastBlockHeight \in Nat /\ pc \in [Threads -> Labels]
  BY Zenon DEF StateTypeOK, ClientTypeOK, GoroutineTypeOK, IsBlock, State
<1>2. CASE \E t \in Threads : StoreBlock(t)
  <2>1. PICK t \in Threads : StoreBlock(t)
    BY Zenon, <1>2
  <2>2. LastBlock' = block /\ block.height = LastBlock.height + 1
    BY <2>1, StoreAppends, Zenon
  <2>3. pc[t] = "store" /\ pc' = [pc EXCEPT ![t] = "updateState"]
    BY <2>1, Zenon DEF StoreBlock, At, Continue, Goto
  <2>4. LastBlock.height = 0 => ~serving
    BY <1>1 DEF TipInv, Unstarted
  <2>5. LastBlock.height = 0 => t = Main
    BY <2>3, <2>4, Zenon DEF MainFirst
  <2>6. LastBlock.height = 0 => pc'[u] \in {"idle", "updateState"}
    BY <1>1, <2>3, <2>4, <2>5, Zenon DEF MainFirst
  <2>7. QED
    BY <1>1, <2>2, <2>6 DEF Untimed, Labels
<1>3. CASE ~\E t \in Threads : StoreBlock(t)
  BY <1>3, OnlyStoreBlockMovesTip, Zenon
<1>4. QED
  BY Zenon, <1>2, <1>3

(* A time that is carried on stays one that the clock has shown.           *)
LEMMA ClockStageMoves ==
  ASSUME StateTypeOK, StateTypeOK', StorageInv, TipInv, MainFirst, UsesSystemClock, Next,
         NEW u \in Threads, ClockStage(u), TimeMoves(u)
  PROVE  ClockStage(u)'
<1> DEFINE Fits(x) == IF LastBlock'.height = 0
                        THEN x = StartingTime
                        ELSE /\ ClockStart + InitialOffset <= x
                             /\ x <= now' + InitialOffset + advanced'
<1>1. /\ LastBlock.height = 0 => LastBlock'.height = 0 \/ pc'[u] \in Untimed
      /\ LastBlock.height # 0 => LastBlock'.height # 0
  BY FirstTip, Zenon
<1>2. blockTime[u] \in Int /\ block.time \in Int
  BY Zenon DEF StateTypeOK, GoroutineTypeOK, IsBlock
<1>3. ASSUME NEW x \in Int, NextClockTime(x), pc'[u] \notin Untimed PROVE Fits(x)
  <2>1. CASE LastBlock.height = 0
    BY <1>1, <1>3, <2>1, Zenon DEF NextClockTime
  <2>2. CASE LastBlock.height # 0
    BY <1>1, <1>3, <2>2, ClockTimeGrows, Zenon DEF NextClockTime
  <2>3. QED
    BY Zenon, <2>1, <2>2
<1>4. /\ Fits(blockTime'[u]) => NextClockTime(blockTime[u])'
      /\ Fits(block'.time) => NextClockTime(block.time)'
  BY Zenon DEF NextClockTime, ClockTime, InitialOffset, UsesSystemClock
<1> HIDE DEF Fits
<1>5. CASE pc'[u] \in Untimed
  BY <1>5, Zenon DEF Untimed, ClockStage
<1>6. CASE pc'[u] \notin Untimed
  <2>1. CASE TimeStays(u)
    BY <1>2, <1>3, <1>4, <1>6, <2>1 DEF TimeStays, ClockStage, Critical
  <2>2. CASE /\ {pc[u], pc'[u]} \subseteq {"readProposer", "lock", "checkTxs", "propose"}
             /\ blockTime'[u] = blockTime[u]
    BY <1>2, <1>3, <1>4, <1>6, <2>2 DEF ClockStage
  <2>3. CASE pc[u] = "propose" /\ pc'[u] = "process" /\ block'.time = blockTime[u]
    BY <1>2, <1>3, <1>4, <1>6, <2>3 DEF ClockStage
  <2>4. CASE /\ {pc[u], pc'[u]} \subseteq {"process", "sign", "finalize", "store"}
             /\ block'.time = block.time
    BY <1>2, <1>3, <1>4, <1>6, <2>4 DEF ClockStage
  <2>5. QED
    BY <1>6, <2>1, <2>2, <2>3, <2>4, Zenon DEF TimeMoves
<1>7. QED
  BY Zenon, <1>5, <1>6

(* GetBlockTime reads the clock.                                           *)
LEMMA ClockIsRead ==
  ASSUME StateTypeOK, TipInv, UsesSystemClock, NEW u \in Threads, CallGetBlockTime(u),
         ClockStart <= now, curOffset = InitialOffset + advanced
  PROVE  ClockStage(u)'
<1>1. /\ pc[u] = "getTime" /\ pc'[u] = "readProposer" /\ blockTime'[u] = now + curOffset
      /\ UNCHANGED <<now, curOffset, advanced, LastBlock>>
  BY Zenon DEF CallGetBlockTime, GetBlockTime, NextBlockTime, At, Goto, timeVars, chainVars, inputVars,
     StateTypeOK, GoroutineTypeOK
<1>2. /\ LastBlock.height \in Nat /\ CurState.LastBlockHeight \in Nat
      /\ now \in Int /\ advanced \in Nat
  BY Zenon DEF StateTypeOK, ClientTypeOK, EnvironmentTypeOK, TimeTypeOK, IsBlock, State
<1>3. CurState.LastBlockHeight > 0
  BY <1>1, Zenon DEF TipInv, Unstarted
<1>4. LastBlock.height # 0
  BY <1>2, <1>3 DEF TipInv
<1>5. InitialOffset \in Int /\ ClockStart \in Int
  BY TimesAreIntegers DEF InitialOffset
<1>6. /\ ClockStart + InitialOffset <= now + curOffset
      /\ now + curOffset <= now + InitialOffset + advanced
  BY <1>2, <1>5
<1>7. NextClockTime(blockTime[u])'
  BY <1>1, <1>4, <1>6, Zenon DEF NextClockTime, ClockTime, InitialOffset, UsesSystemClock
<1>8. QED
  BY <1>1, <1>7, Zenon DEF ClockStage

(* Main's first block has the starting time.                               *)
LEMMA FirstClockTime ==
  ASSUME StateTypeOK, MainFirst, UsesSystemClock, RunFirstBlock
  PROVE  ClockStage(Main)'
<1>1. /\ pc'[Main] = "lock" /\ blockTime'[Main] = StartingTime /\ LastBlock'.height = 0
  BY Zenon DEF RunFirstBlock, FirstBlockTime, MainFirst, At, Goto, chainVars, Threads, StateTypeOK,
     GoroutineTypeOK
<1>2. QED
  BY <1>1, Zenon DEF ClockStage, NextClockTime

(* The block that is stored has such a time.                               *)
LEMMA StoredClockTimes ==
  ASSUME StateTypeOK, StorageInv, UsesSystemClock, Next, \A t \in Threads : ClockStage(t),
         \A h \in DOMAIN blocks : IF h = 1 THEN blocks[h].time = StartingTime
                                          ELSE ClockTime(blocks[h].time)
  PROVE  (\A h \in DOMAIN blocks : IF h = 1 THEN blocks[h].time = StartingTime
                                           ELSE ClockTime(blocks[h].time))'
<1> DEFINE Fits(h, x) == IF h = 1 THEN x = StartingTime
                                  ELSE /\ ClockStart + InitialOffset <= x
                                       /\ x <= now' + InitialOffset + advanced'
<1>1. SUFFICES \A h \in DOMAIN blocks' : Fits(h, blocks'[h].time)
  BY <1>1, Zenon DEF ClockTime, InitialOffset, UsesSystemClock
<1>2. LastBlock.height \in Nat /\ block.time \in Int
  BY Zenon DEF StateTypeOK, ClientTypeOK, GoroutineTypeOK, IsBlock
<1>3. ASSUME NEW h \in DOMAIN blocks PROVE Fits(h, blocks[h].time)
  <2>1. blocks[h].time \in Int
    BY Zenon DEF StateTypeOK, StorageTypeOK, IsBlock
  <2>2. QED
    BY <2>1, ClockTimeGrows, Zenon
<1>4. CASE \E t \in Threads : StoreBlock(t)
  <2>1. PICK t \in Threads : StoreBlock(t)
    BY Zenon, <1>4
  <2>2. /\ DOMAIN blocks' = DOMAIN blocks \cup {LastBlock.height + 1}
        /\ blocks'[LastBlock.height + 1] = block
        /\ \A h \in DOMAIN blocks : blocks'[h] = blocks[h]
    BY <2>1, StoreAppends, Zenon
  <2>3. NextClockTime(block.time)
    BY <2>1, Zenon DEF StoreBlock, At, ClockStage
  <2>4. LastBlock.height + 1 = 1 <=> LastBlock.height = 0
    BY <1>2
  <2>5. Fits(LastBlock.height + 1, block.time)
    BY <1>2, <2>3, <2>4, ClockTimeGrows, Zenon DEF NextClockTime
  <2> HIDE DEF Fits
  <2>6. QED
    BY <1>3, <2>2, <2>5, Zenon
<1>5. CASE ~\E t \in Threads : StoreBlock(t)
  BY <1>3, <1>5, OnlyStoreBlockWrites, Zenon
<1>6. QED
  BY Zenon, <1>4, <1>5

(* Every step keeps the invariant of the clock.                            *)
LEMMA StepClock ==
  StateTypeOK /\ StateTypeOK' /\ StorageInv /\ TipInv /\ MainFirst /\ ClockInv /\ [Next]_vars => ClockInv'
<1>1. ASSUME StateTypeOK, StateTypeOK', StorageInv, TipInv, MainFirst, ClockInv, Next, UsesSystemClock,
             OffsetFits'
      PROVE  /\ ClockStart <= now' /\ curOffset' = InitialOffset + advanced'
             /\ (\A h \in DOMAIN blocks : IF h = 1 THEN blocks[h].time = StartingTime
                                                 ELSE ClockTime(blocks[h].time))'
             /\ \A t \in Threads : ClockStage(t)'
  <2>1. OffsetFits /\ curOffset' = InitialOffset + advanced'
    BY <1>1, OffsetIsKept, Zenon DEF ClockInv
  <2>2. /\ ClockStart <= now /\ curOffset = InitialOffset + advanced
        /\ \A h \in DOMAIN blocks : IF h = 1 THEN blocks[h].time = StartingTime
                                            ELSE ClockTime(blocks[h].time)
        /\ \A t \in Threads : ClockStage(t)
    BY <1>1, <2>1, Zenon DEF ClockInv
  <2>3. ClockStart <= now'
    <3>1. now \in Int /\ now' \in Int /\ now <= now'
      BY Zenon, <1>1, ClockMoves
    <3>2. QED
      BY <2>2, <3>1, TimesAreIntegers
  <2>4. (\A h \in DOMAIN blocks : IF h = 1 THEN blocks[h].time = StartingTime
                                         ELSE ClockTime(blocks[h].time))'
    BY Zenon, <1>1, <2>2, StoredClockTimes
  <2>5. ASSUME NEW u \in Threads PROVE ClockStage(u)'
    <3>1. CASE TimeMoves(u)
      BY Zenon, <1>1, <2>2, <3>1, ClockStageMoves
    <3>2. CASE ReadLastBlockTime(u)
      BY <1>1, <3>2, Zenon DEF ReadLastBlockTime, Goto, StateTypeOK, GoroutineTypeOK, ClockStage
    <3>3. CASE CallGetBlockTime(u)
      BY Zenon, <1>1, <2>2, <3>3, ClockIsRead
    <3>4. CASE u = Main /\ RunFirstBlock
      BY Zenon, <1>1, <3>4, FirstClockTime
    <3>5. ASSUME NEW t \in Threads, RunBlock(t)
          PROVE  TimeMoves(u) \/ ReadLastBlockTime(u) \/ CallGetBlockTime(u)
      BY <1>1, <3>5, OtherTimesStay, OwnTimeMoves, Zenon DEF TimeMoves
    <3>6. QED
      BY Zenon, <1>1, <3>1, <3>2, <3>3, <3>4, <3>5, OutsideTimesMove
  <2>6. QED
    BY Zenon, <2>1, <2>3, <2>4, <2>5
<1>2. ASSUME ClockInv, UNCHANGED vars PROVE ClockInv'
  <2>1. UNCHANGED <<pc, blockTime, block, LastBlock, now, curOffset, advanced, blocks>>
    BY <1>2, Zenon DEF vars, argVars, helperVars, chainVars, timeVars, inputVars, storageVars
  <2>2. QED
    BY <1>2, <2>1, Zenon DEF ClockInv, ClockStage, NextClockTime, ClockTime, OffsetFits, InitialOffset,
       UsesSystemClock, Half
<1>3. UsesSystemClock' = UsesSystemClock /\ InitialOffset' = InitialOffset
  BY Zenon DEF UsesSystemClock, InitialOffset
<1>4. QED
  BY <1>1, <1>2, <1>3, Zenon DEF ClockInv

(* With the system clock, every time that RunBlock carries or that is      *)
(* stored above the first block is one that GetBlockTime could return: it  *)
(* reads the clock once, and advance_time may come before or after it.     *)
THEOREM ClockInvHolds == Spec => []ClockInv
<1>1. Init => ClockInv
  <2>1. SUFFICES ASSUME Init PROVE ClockInv
    OBVIOUS
  <2>2. now = ClockStart /\ curOffset = InitialOffset /\ advanced = 0
    BY <2>1, Zenon DEF Init, TimeInit
  <2>3. InitialOffset \in Int /\ ClockStart \in Int
    BY TimesAreIntegers DEF InitialOffset
  <2>4. ClockStart <= now /\ curOffset = InitialOffset + advanced
    BY <2>2, <2>3
  <2>5. DOMAIN blocks = {} /\ pc = [t \in Threads |-> IF t = Main THEN "initChain" ELSE "idle"]
    BY <2>1 DEF Init, StorageInit
  <2>6. \A t \in Threads : ClockStage(t)
    BY <2>5, Zenon DEF ClockStage
  <2>7. QED
    BY <2>4, <2>5, <2>6, Zenon DEF ClockInv
<1>2. QED
  BY <1>1, StepClock, MainFirstHolds, TipInvHolds, InvHolds, StateTypeCorrect, PTL DEF Spec

(* With the system clock and no overflow, the times of one block and of    *)
(* the next are never further apart, forwards or backwards, than the       *)
(* system time that has passed and what advance_time has added, however    *)
(* many goroutines run blocks.  Only the second block can be, by twice the *)
(* distance of the starting timestamp from the clock.                      *)
THEOREM TimesFollowClock == Spec => []TimeFollowsClock
<1>1. ASSUME StateTypeOK, StorageInv, ClockInv PROVE TimeFollowsClock
  <2>1. SUFFICES ASSUME UsesSystemClock, OffsetFits, NEW h \in DOMAIN blocks, h >= 2
                 PROVE  LET step == blocks[h].time - blocks[h - 1].time
                            passed == (now - ClockStart) + advanced
                        IN  /\ h # 2 \/ ClockStart <= StartingTime => step <= passed
                            /\ h # 2 \/ ClockStart >= StartingTime => -step <= passed
    <3>1. \A h \in DOMAIN blocks : h \in Int
      BY <1>1 DEF StateTypeOK, ClientTypeOK, IsBlock, StorageInv, Stores, StoresAgree
    <3>2. \A h \in Int : /\ h > 2 => h >= 2 /\ h # 2
                         /\ h = 2 => h >= 2
      OBVIOUS
    <3>3. QED
      BY <2>1, <3>1, <3>2, Zenon DEF TimeFollowsClock
  <2>2. LastBlock.height \in Nat /\ DOMAIN blocks = 1..LastBlock.height
    BY <1>1, Zenon DEF StateTypeOK, ClientTypeOK, IsBlock, StorageInv, Stores, StoresAgree
  <2>3. h \in Int /\ h - 1 \in DOMAIN blocks /\ h # 1 /\ (h - 1 = 1 <=> h = 2)
    BY <2>1, <2>2
  <2>4. now \in Int /\ advanced \in Nat /\ blocks[h].time \in Int /\ blocks[h - 1].time \in Int
    BY <1>1, <2>1, <2>3, Zenon DEF StateTypeOK, StorageTypeOK, EnvironmentTypeOK, ClientTypeOK, TimeTypeOK,
       IsBlock
  <2>5. ClockTime(blocks[h].time)
    BY <1>1, <2>1, <2>3, Zenon DEF ClockInv
  <2>6. IF h = 2 THEN blocks[h - 1].time = StartingTime ELSE ClockTime(blocks[h - 1].time)
    BY <1>1, <2>1, <2>3, Zenon DEF ClockInv
  <2>7. /\ ClockStart \in Int /\ StartingTime \in Int /\ InitialOffset = ClockStart - StartingTime
        /\ InitialOffset \in Int
    BY <2>1, TimesAreIntegers DEF InitialOffset
  <2>8. CASE h = 2
    BY <2>1, <2>4, <2>5, <2>6, <2>7, <2>8 DEF ClockTime
  <2>9. CASE h # 2
    BY <2>4, <2>5, <2>6, <2>7, <2>9 DEF ClockTime
  <2>10. QED
    BY Zenon, <2>8, <2>9
<1>2. QED
  BY <1>1, ClockInvHolds, InvHolds, StateTypeCorrect, PTL

-----------------------------------------------------------------------------
(* What RunBlock reads before it locks.                                    *)

(* This time is that of a block, one block time and some of the durations. *)
After(x, base, given) ==
  ~UsesSystemClock /\ BlockTime + given <= MaxInt64 =>
    base + BlockTime <= x /\ x <= base + BlockTime + given

(* The proposer at height k, in this state and in the ones stored before.  *)
ProposerIn(state, stored, k) == IF k = state.LastBlockHeight + 1 THEN state.LastValidators.proposer
                                                                 ELSE stored[k].LastValidators.proposer

(* What ReadTime and ReadBoth say of the next state.                       *)
TimeReadNext(x) == LastBlock'.height > 0 =>
                     \E j \in 1..LastBlock'.height : After(x, blocks'[j].time, advanced')
BothReadNext(x, a) ==
  LastBlock'.height > 0 =>
    \E j \in 1..LastBlock'.height : \E k \in j..(CurState'.LastBlockHeight + 1) :
      After(x, blocks'[j].time, advanced') /\ a = ProposerIn(CurState', states', k)

(* They say it of what a goroutine has read, and of the block.             *)
LEMMA ReadsNext ==
  ASSUME NEW u \in Threads
  PROVE  /\ TimeReadNext(blockTime'[u]) => ReadTime(blockTime[u])'
         /\ BothReadNext(blockTime'[u], proposer'[u]) => ReadBoth(blockTime[u], proposer[u])'
         /\ BothReadNext(block'.time, block'.proposer) => ReadBoth(block.time, block.proposer)'
BY Zenon DEF TimeReadNext, BothReadNext, ReadTime, ReadBoth, TimeFrom, DurationsFit, ProposerOf,
   NextProposer, After, ProposerIn, UsesSystemClock

(* The durations only add up.                                              *)
LEMMA AdvancedGrows ==
  ASSUME StateTypeOK, Next
  PROVE  advanced \in Nat /\ advanced' \in Nat /\ advanced <= advanced'
<1>0. advanced \in Nat
  BY Zenon DEF StateTypeOK, EnvironmentTypeOK
<1>1. CASE RequestAdvanceTime
  <2>1. PICK d \in Durations : advanced' = advanced + d * Second
    BY <1>1, Zenon DEF RequestAdvanceTime
  <2>2. d * Second \in Nat
    BY TimesAreIntegers
  <2>3. QED
    BY <1>0, <2>1, <2>2
<1>2. CASE UNCHANGED advanced
  BY <1>0, <1>2
<1>3. QED
  BY <1>1, <1>2, OnlyTimeSteps, Zenon DEF CallGetBlockTime, inputVars

(* While the durations fit, the offset is made of them.                    *)
LEMMA OffsetInRange ==
  ASSUME StateTypeOK, Next, ~UsesSystemClock, DurationsFit', DurationsFit => curOffset \in 0..advanced
  PROVE  curOffset' \in 0..advanced'
<1>0. /\ BlockTime \in Nat /\ MaxInt64 \in Nat /\ Half \in Nat
  BY TimesAreIntegers DEF UsesSystemClock, Half
<1>1. advanced \in Nat /\ advanced' \in Nat /\ advanced <= advanced'
  BY AdvancedGrows, Zenon
<1>2. BlockTime + advanced' <= MaxInt64
  BY Zenon DEF DurationsFit
<1>3. BlockTime + advanced <= MaxInt64
  <2>1. ASSUME NEW b \in Nat, NEW m \in Nat, NEW x \in Nat, NEW y \in Nat, x <= y, b + y <= m
        PROVE  b + x <= m
    BY <2>1
  <2>2. QED
    BY <1>0, <1>1, <1>2, <2>1, Zenon
<1>4. curOffset \in 0..advanced
  BY <1>3, Zenon DEF DurationsFit
<1>5. CASE RequestAdvanceTime
  <2>1. PICK d \in Durations : /\ advanced' = advanced + d * Second
                               /\ curOffset' = Wrap(curOffset + Wrap(d * Second))
    BY <1>5, Zenon DEF RequestAdvanceTime, AdvanceTime
  <2>2. d * Second \in Nat
    BY TimesAreIntegers
  <2>3. Wrap(d * Second) = d * Second
    BY <1>0, <1>1, <1>2, <2>1, <2>2, WrapFits
  <2>4. /\ curOffset + d * Second \in Int /\ -Half <= curOffset + d * Second
        /\ curOffset + d * Second <= MaxInt64
    BY <1>0, <1>1, <1>2, <1>4, <2>1, <2>2
  <2>5. curOffset' = curOffset + d * Second
    BY <2>1, <2>3, <2>4, WrapFits
  <2>6. QED
    BY <1>1, <1>4, <2>1, <2>2, <2>5
<1>6. CASE \E t \in Threads : CallGetBlockTime(t)
  <2>1. curOffset' = 0
    BY <1>6, Zenon DEF CallGetBlockTime, GetBlockTime
  <2>2. QED
    BY <1>1, <2>1
<1>7. CASE UNCHANGED <<curOffset, advanced>>
  BY <1>4, <1>7, Zenon
<1>8. QED
  BY <1>5, <1>6, <1>7, OnlyTimeSteps, Zenon

(* Only UpdateState, and InitChain before any block, change the proposer.  *)
LEMMA OnlyUpdateMovesProposer ==
  ASSUME StateTypeOK, Next, ~InitChain, ~\E t \in Threads : UpdateStateFromBlock(t) /\ UpdateAllowed
  PROVE  CurState'.LastValidators = CurState.LastValidators
<1>1. CASE \E t \in Threads : RunBlock(t)
  <2>1. PICK t \in Threads : RunBlock(t)
    BY Zenon, <1>1
  <2>2. CASE FinishBlock(t)
    BY <2>2, Zenon DEF FinishBlock, StateTypeOK, ClientTypeOK, State
  <2>3. CASE ReadLastBlockTime(t) \/ CallGetBlockTime(t) \/ ReadProposer(t) \/ LockBlockMutex(t)
    BY <2>3, Zenon DEF ReadLastBlockTime, CallGetBlockTime, ReadProposer, LockBlockMutex, chainVars
  <2>4. CASE CheckTxs(t) \/ DecideProposal(t)
    BY <2>4, Zenon DEF CheckTxs, DecideProposal, chainVars
  <2>5. CASE ProcessProposal(t) \/ ExtendAndSignVote(t) \/ MakeExtendedCommit(t)
    BY <2>5, Zenon DEF ProcessProposal, ExtendAndSignVote, MakeExtendedCommit, chainVars
  <2>6. CASE SendFinalizeBlock(t) \/ StoreBlock(t) \/ UpdateStateFromBlock(t)
    BY <2>1, <2>6, Zenon DEF SendFinalizeBlock, StoreBlock, UpdateStateFromBlock, chainVars
  <2>7. CASE FireEvents(t) \/ SendCommit(t)
    BY <2>7, Zenon DEF FireEvents, EventsFired, EventsPanic, SendCommit, chainVars
  <2>8. QED
    BY <2>1, <2>2, <2>3, <2>4, <2>5, <2>6, <2>7, Zenon DEF RunBlock, BlockStep
<1>2. CASE UNCHANGED guardedVars
  BY <1>2, Zenon DEF guardedVars
<1>3. QED
  BY <1>1, <1>2, OutsideSteps, Zenon DEF Next, Step, RunBlock, Startup

(* The proposer at a height up to the next one stays the same: UpdateState *)
(* moves CurState to the next height, and what it named is stored below.   *)
LEMMA ProposersStay ==
  ASSUME StateTypeOK, StorageInv, TipInv, MainFirst, StartsFromStored, Next, StoresKept,
         LastBlock.height > 0, NEW k \in 1..(CurState.LastBlockHeight + 1)
  PROVE  /\ k \in 1..(CurState'.LastBlockHeight + 1)
         /\ ProposerIn(CurState', states', k) = ProposerIn(CurState, states, k)
<1> DEFINE C == CurState.LastBlockHeight
           D == CurState'.LastBlockHeight
           H == LastBlock.height
<1>1. C \in Nat /\ D \in Nat /\ C <= D /\ H \in Nat
  BY StateGrows, Zenon DEF StateTypeOK, ClientTypeOK, IsBlock
<1>2. H \in {C, C + 1} /\ DOMAIN blocks = 1..H
  BY Zenon DEF TipInv, StorageInv, Stores, StoresAgree
<1>3. \A h \in 1..H : states'[h] = states[h]
  BY <1>2, Zenon DEF StoresKept
<1> HIDE DEF C, D, H
<1>4. k \in 1..(D + 1) /\ k \in 1..(C + 1)
  BY <1>1 DEF C
<1>5. k # C + 1 => k \in 1..H
  BY <1>1, <1>2, <1>4
<1>6. CASE \E t \in Threads : UpdateStateFromBlock(t) /\ UpdateAllowed
  <2>1. PICK t \in Threads : UpdateStateFromBlock(t) /\ UpdateAllowed
    BY Zenon, <1>6
  <2>2. pc[t] = "updateState" /\ \E next : CurState' = UpdateState(next)
    BY <2>1, Zenon DEF UpdateStateFromBlock, At
  <2>3. CurState'.LastBlockHeight = block.height
    BY <2>2 DEF UpdateState
  <2>4. /\ block.height = CurState.LastBlockHeight + 1 /\ block = LastBlock
        /\ CurState = states[LastBlock.height]
    BY <2>2, Zenon DEF StorageInv, Stages, Stage, StartsFromStored
  <2>5. D = C + 1 /\ H = C + 1 /\ CurState = states[H]
    BY <2>3, <2>4, Zenon DEF C, D, H
  <2>6. k # D + 1 /\ k \in 1..H
    BY <1>1, <1>4, <2>5
  <2>7. ProposerIn(CurState', states', k) = states[k].LastValidators.proposer
    BY <1>3, <2>6, Zenon DEF ProposerIn, D
  <2>8. k = C + 1 => CurState = states[k]
    BY <2>5, Zenon
  <2>9. ProposerIn(CurState, states, k) = states[k].LastValidators.proposer
    BY <2>8, Zenon DEF ProposerIn, C
  <2>10. QED
    BY <1>4, <2>7, <2>9, Zenon DEF D
<1>7. CASE ~\E t \in Threads : UpdateStateFromBlock(t) /\ UpdateAllowed
  <2>1. ~InitChain
    <3>1. InitChain => H = 0
      BY Zenon DEF InitChain, At, MainFirst, H
    <3>2. H # 0
      BY <1>1 DEF H
    <3>3. QED
      BY Zenon, <3>1, <3>2
  <2>2. D = C /\ CurState'.LastValidators = CurState.LastValidators
    BY <1>7, <2>1, OnlyUpdateMovesState, OnlyUpdateMovesProposer, Zenon DEF C, D
  <2>3. k # C + 1 => states'[k] = states[k]
    BY <1>3, <1>5, Zenon
  <2>4. QED
    BY <1>4, <2>2, <2>3, Zenon DEF ProposerIn, C, D
<1>8. QED
  BY Zenon, <1>6, <1>7

(* Blocks are only added.                                                  *)
LEMMA TipGrows ==
  ASSUME StateTypeOK, StateTypeOK', StorageInv, Next
  PROVE  /\ LastBlock.height \in Nat /\ LastBlock'.height \in Nat /\ LastBlock.height <= LastBlock'.height
         /\ DOMAIN blocks = 1..LastBlock.height /\ DOMAIN states = DOMAIN blocks
<1>1. LastBlock.height \in Nat /\ LastBlock'.height \in Nat
  BY Zenon DEF StateTypeOK, ClientTypeOK, IsBlock
<1>2. CASE \E t \in Threads : StoreBlock(t)
  <2>1. LastBlock'.height = LastBlock.height + 1
    BY <1>2, StoreAppends, Zenon
  <2>2. LastBlock.height <= LastBlock'.height
    BY <1>1, <2>1
  <2>3. QED
    BY <1>1, <2>2, Zenon DEF StorageInv, Stores, StoresAgree
<1>3. CASE ~\E t \in Threads : StoreBlock(t)
  <2>1. LastBlock'.height = LastBlock.height
    BY <1>3, OnlyStoreBlockMovesTip, Zenon
  <2>2. LastBlock.height <= LastBlock'.height
    BY <1>1, <2>1
  <2>3. QED
    BY <1>1, <2>2, Zenon DEF StorageInv, Stores, StoresAgree
<1>4. QED
  BY Zenon, <1>2, <1>3

(* A time that comes from a block still does when durations are added.     *)
LEMMA TimeStaysFrom ==
  ASSUME StateTypeOK, Next, StoresKept, NEW x \in Int, NEW j \in DOMAIN blocks, TimeFrom(x, j)
  PROVE  After(x, blocks'[j].time, advanced')
<1>1. BlockTime \in Int /\ MaxInt64 \in Nat
  BY TimesAreIntegers
<1>2. advanced \in Nat /\ advanced' \in Nat /\ advanced <= advanced'
  BY AdvancedGrows, Zenon
<1>3. blocks'[j] = blocks[j] /\ blocks[j].time \in Int
  BY Zenon DEF StoresKept, StateTypeOK, StorageTypeOK, IsBlock
<1>4. ASSUME NEW b \in Int, NEW m \in Nat, NEW c \in Nat, NEW d \in Nat, c <= d, NEW y \in Int,
             b + c <= m => y + b <= x /\ x <= y + b + c
      PROVE  b + d <= m => y + b <= x /\ x <= y + b + d
  BY <1>4
<1>5. ~UsesSystemClock =>
        (BlockTime + advanced <= MaxInt64 =>
           blocks[j].time + BlockTime <= x /\ x <= blocks[j].time + BlockTime + advanced)
  BY Zenon DEF TimeFrom, DurationsFit
<1>6. QED
  BY <1>1, <1>2, <1>3, <1>4, <1>5, Zenon DEF After

(* What has been read stays what may have been read.                       *)
LEMMA ReadsStay ==
  ASSUME StateTypeOK, StateTypeOK', StorageInv, TipInv, MainFirst, StartsFromStored, Next, StoresKept,
         LastBlock.height > 0, NEW x \in Int
  PROVE  /\ ReadTime(x) => TimeReadNext(x)
         /\ \A a : ReadBoth(x, a) => BothReadNext(x, a)
<1>1. /\ LastBlock.height \in Nat /\ LastBlock'.height \in Nat /\ LastBlock.height <= LastBlock'.height
      /\ DOMAIN blocks = 1..LastBlock.height
  BY TipGrows, Zenon
<1>2. CurState.LastBlockHeight \in Nat /\ CurState'.LastBlockHeight \in Nat
  BY Zenon DEF StateTypeOK, ClientTypeOK, State
<1>3. ASSUME NEW j \in 1..LastBlock.height, TimeFrom(x, j)
      PROVE  j \in 1..LastBlock'.height /\ After(x, blocks'[j].time, advanced')
  <2>1. After(x, blocks'[j].time, advanced')
    BY <1>1, <1>3, TimeStaysFrom, Zenon
  <2>2. QED
    BY <1>1, <2>1
<1>4. ASSUME ReadTime(x) PROVE TimeReadNext(x)
  BY <1>3, <1>4, Zenon DEF ReadTime, TimeReadNext
<1>5. ASSUME NEW a, ReadBoth(x, a) PROVE BothReadNext(x, a)
  <2>1. PICK j \in 1..LastBlock.height : \E k \in j..(CurState.LastBlockHeight + 1) :
               TimeFrom(x, j) /\ a = ProposerOf(k)
    BY <1>5, Zenon DEF ReadBoth
  <2>2. PICK k \in j..(CurState.LastBlockHeight + 1) : TimeFrom(x, j) /\ a = ProposerOf(k)
    BY Zenon, <2>1
  <2>3. k \in 1..(CurState.LastBlockHeight + 1)
    BY <1>1, <1>2
  <2>4. /\ k \in 1..(CurState'.LastBlockHeight + 1)
        /\ ProposerIn(CurState', states', k) = ProposerIn(CurState, states, k)
    BY <2>3, ProposersStay, Zenon
  <2>5. a = ProposerIn(CurState, states, k)
    BY <2>2, Zenon DEF ProposerOf, NextProposer, ProposerIn
  <2>6. k \in j..(CurState'.LastBlockHeight + 1)
    BY <1>1, <1>2, <2>4
  <2>7. QED
    BY <1>3, <2>2, <2>4, <2>5, <2>6, Zenon DEF BothReadNext
<1>6. QED
  BY Zenon, <1>4, <1>5

(* StoreBlock stores CurState, and only UpdateState takes it further.      *)
LEMMA StoredStateStays ==
  ASSUME StateTypeOK, StorageInv, StartsFromStored, Next
  PROVE  StartsFromStored'
<1>0. pc \in [Threads -> Labels] /\ Main \in Threads
  BY Zenon DEF StateTypeOK, GoroutineTypeOK, Threads
<1>1. CASE \E t \in Threads : StoreBlock(t)
  <2>1. PICK t \in Threads : StoreBlock(t)
    BY Zenon, <1>1
  <2>2. /\ LastBlock'.height = LastBlock.height + 1 /\ CurState' = CurState
        /\ CurState.LastBlockHeight = LastBlock.height
    BY <2>1, StoreAppends, Zenon
  <2>3. states' = Insert(states, CurState.LastBlockHeight + 1, CurState)
    BY <2>1, Zenon DEF StoreBlock, UpdateStores
  <2>4. states'[CurState.LastBlockHeight + 1] = CurState
    BY <2>3 DEF Insert
  <2>5. QED
    BY <2>2, <2>4, Zenon DEF StartsFromStored
<1>2. CASE ~\E t \in Threads : StoreBlock(t)
  <2>1. UNCHANGED <<LastBlock, states>>
    BY <1>2, OnlyStoreBlockMovesTip, OnlyStoreBlockWrites, Zenon
  <2>2. SUFFICES ASSUME NEW u \in Threads, pc'[u] = "updateState"
                 PROVE  pc[u] = "updateState" /\ CurState' = CurState
    BY <2>1, <2>2, Zenon DEF StartsFromStored
  <2>3. CASE \E t \in Threads : RunBlock(t)
    <3>1. PICK t \in Threads : RunBlock(t)
      BY Zenon, <2>3
    <3>2. ASSUME NEW outcome, Leave(t, outcome) PROVE pc'[t] # "updateState"
      BY <1>0, <3>2, Zenon DEF Leave, Goto, NextLabel
    <3>3. ASSUME NEW label, label # "updateState", Continue(t, label) PROVE pc'[t] # "updateState"
      BY <1>0, <3>3, Zenon DEF Continue, Goto
    <3>4. pc'[t] # "updateState" /\ (CurState' = CurState \/ pc[t] \in Critical)
      <4>1. CASE ReadLastBlockTime(t) \/ CallGetBlockTime(t) \/ ReadProposer(t) \/ LockBlockMutex(t)
        BY <1>0, <4>1, Zenon DEF ReadLastBlockTime, CallGetBlockTime, ReadProposer, LockBlockMutex, At, Goto,
           chainVars
      <4>2. CASE CheckTxs(t) \/ DecideProposal(t)
        BY <3>2, <3>3, <4>2, Zenon DEF CheckTxs, DecideProposal, At, Critical
      <4>3. CASE ProcessProposal(t) \/ ExtendAndSignVote(t) \/ MakeExtendedCommit(t)
        BY <3>2, <3>3, <4>3, Zenon DEF ProcessProposal, ExtendAndSignVote, MakeExtendedCommit, At, Critical
      <4>4. CASE SendFinalizeBlock(t) \/ UpdateStateFromBlock(t)
        BY <3>2, <3>3, <4>4, Zenon DEF SendFinalizeBlock, UpdateStateFromBlock, At, Critical
      <4>5. CASE FireEvents(t) \/ SendCommit(t) \/ FinishBlock(t)
        BY <3>2, <3>3, <4>5, Zenon DEF FireEvents, EventsFired, EventsPanic, SendCommit, FinishBlock, At,
           Critical
      <4>6. QED
        BY <1>2, <3>1, <4>1, <4>2, <4>3, <4>4, <4>5, Zenon DEF RunBlock, BlockStep
    <3>5. u # t /\ pc[u] = pc'[u]
      BY <1>0, <2>2, <3>1, <3>4, RunBlockMoves, Zenon
    <3>6. pc[t] \notin Critical
      BY <2>2, <3>5, Zenon DEF StorageInv, Locks, Critical
    <3>7. QED
      BY <2>2, <3>4, <3>5, <3>6, Zenon
  <2>4. CASE InitChain
    BY <1>0, <2>2, <2>4, Zenon DEF InitChain, At, Goto, StorageInv, Starting
  <2>5. CASE MovesOutside /\ UNCHANGED guardedVars
    BY <2>2, <2>5, Zenon DEF MovesOutside, guardedVars, Critical
  <2>6. QED
    BY <2>3, <2>4, <2>5, OutsideSteps, Zenon DEF Next, Step, RunBlock, Startup
<1>3. QED
  BY Zenon, <1>1, <1>2

(* What is carried on was read from a stored block and a known state.      *)
LEMMA ReadStageMoves ==
  ASSUME StateTypeOK, StateTypeOK', StorageInv, TipInv, MainFirst, StartsFromStored, Next, StoresKept,
         NEW u \in Threads, ReadStage(u), TimeMoves(u), ~ReadProposer(u)
  PROVE  ReadStage(u)'
<1>1. /\ LastBlock.height = 0 => LastBlock'.height = 0 \/ pc'[u] \in Untimed
      /\ LastBlock.height # 0 => LastBlock'.height # 0
  BY FirstTip, Zenon
<1>2. /\ LastBlock.height \in Nat /\ LastBlock'.height \in Nat /\ LastBlock.height <= LastBlock'.height
      /\ DOMAIN blocks = 1..LastBlock.height
  BY TipGrows, Zenon
<1>3. blockTime[u] \in Int /\ block.time \in Int
  BY Zenon DEF StateTypeOK, GoroutineTypeOK, IsBlock
<1>4. ASSUME NEW x \in Int, pc'[u] \notin Untimed
      PROVE  /\ ReadTime(x) => TimeReadNext(x)
             /\ \A a : ReadBoth(x, a) => BothReadNext(x, a)
  <2>1. CASE LastBlock.height = 0
    <3>1. ~(LastBlock'.height > 0)
      BY <1>1, <1>4, <2>1
    <3>2. QED
      BY <3>1, Zenon DEF TimeReadNext, BothReadNext
  <2>2. CASE LastBlock.height > 0
    BY <2>2, ReadsStay, Zenon
  <2>3. QED
    BY <1>2, <2>1, <2>2
<1>5. ASSUME \E j \in 1..LastBlock.height : blockTime[u] = blocks[j].time
      PROVE  \E j \in 1..LastBlock'.height : blockTime[u] = blocks'[j].time
  <2>1. PICK j \in 1..LastBlock.height : blockTime[u] = blocks[j].time
    BY Zenon, <1>5
  <2>2. blocks'[j] = blocks[j]
    BY <1>2, Zenon DEF StoresKept
  <2>3. j \in 1..LastBlock'.height
    BY <1>2
  <2>4. QED
    BY <2>1, <2>2, <2>3, Zenon
<1>6. /\ TimeReadNext(blockTime'[u]) => ReadTime(blockTime[u])'
      /\ BothReadNext(blockTime'[u], proposer'[u]) => ReadBoth(blockTime[u], proposer[u])'
      /\ BothReadNext(block'.time, block'.proposer) => ReadBoth(block.time, block.proposer)'
  BY ReadsNext, Zenon
<1>7. CASE pc'[u] \in Untimed
  BY <1>7, Zenon DEF Untimed, ReadStage
<1>8. CASE pc'[u] \notin Untimed
  <2>1. CASE TimeStays(u)
    <3>1. /\ pc'[u] = pc[u] /\ blockTime'[u] = blockTime[u] /\ proposer'[u] = proposer[u]
          /\ pc[u] \in {"process", "sign", "finalize", "store"} => block' = block
      BY <2>1, Zenon DEF TimeStays, Critical
    <3>2. pc'[u] = "getTime" => \E j \in 1..LastBlock'.height : blockTime'[u] = blocks'[j].time
      BY <1>5, <3>1, Zenon DEF ReadStage
    <3>3. pc'[u] = "readProposer" => ReadTime(blockTime[u])'
      BY <1>3, <1>4, <1>6, <1>8, <3>1, Zenon DEF ReadStage
    <3>4. pc'[u] \in {"lock", "checkTxs", "propose"} => ReadBoth(blockTime[u], proposer[u])'
      BY <1>3, <1>4, <1>6, <1>8, <3>1, Zenon DEF ReadStage
    <3>5. pc'[u] \in {"process", "sign", "finalize", "store"} => ReadBoth(block.time, block.proposer)'
      BY <1>3, <1>4, <1>6, <1>8, <3>1, Zenon DEF ReadStage
    <3>6. QED
      BY <3>2, <3>3, <3>4, <3>5, Zenon DEF ReadStage
  <2>2. CASE /\ {pc[u], pc'[u]} \subseteq {"lock", "checkTxs", "propose"}
             /\ blockTime'[u] = blockTime[u] /\ proposer'[u] = proposer[u]
    <3>1. ReadBoth(blockTime[u], proposer[u])'
      BY <1>3, <1>4, <1>6, <1>8, <2>2, Zenon DEF ReadStage
    <3>2. QED
      BY <2>2, <3>1, Zenon DEF ReadStage
  <2>3. CASE /\ pc[u] = "propose" /\ pc'[u] = "process"
             /\ block'.time = blockTime[u] /\ block'.proposer = proposer[u]
    <3>1. ReadBoth(block.time, block.proposer)'
      BY <1>3, <1>4, <1>6, <1>8, <2>3, Zenon DEF ReadStage
    <3>2. QED
      BY <2>3, <3>1, Zenon DEF ReadStage
  <2>4. CASE /\ {pc[u], pc'[u]} \subseteq {"process", "sign", "finalize", "store"}
             /\ block'.time = block.time /\ block'.proposer = block.proposer
    <3>1. ReadBoth(block.time, block.proposer)'
      BY <1>3, <1>4, <1>6, <1>8, <2>4, Zenon DEF ReadStage
    <3>2. QED
      BY <2>4, <3>1, Zenon DEF ReadStage
  <2>5. QED
    BY <1>8, <2>1, <2>2, <2>3, <2>4, Zenon DEF TimeMoves
<1>9. QED
  BY Zenon, <1>7, <1>8

(* RunBlock reads the time of the newest block.                            *)
LEMMA LastTimeIsRead ==
  ASSUME StateTypeOK, StorageInv, TipInv, NEW u \in Threads, ReadLastBlockTime(u)
  PROVE  ReadStage(u)'
<1>1. /\ pc[u] = "readTime" /\ pc'[u] = "getTime" /\ blockTime'[u] = LastBlock.time
      /\ UNCHANGED <<LastBlock, blocks>>
  BY Zenon DEF ReadLastBlockTime, At, Goto, chainVars, storageVars, StateTypeOK, GoroutineTypeOK
<1>2. LastBlock.height \in Nat /\ CurState.LastBlockHeight \in Nat
  BY Zenon DEF StateTypeOK, ClientTypeOK, IsBlock, State
<1>3. CurState.LastBlockHeight > 0
  BY <1>1, Zenon DEF TipInv, Unstarted
<1>4. LastBlock.height > 0
  BY <1>2, <1>3 DEF TipInv
<1>5. LastBlock.height \in 1..LastBlock.height
  BY <1>2, <1>4
<1>6. blockTime'[u] = blocks'[LastBlock.height].time
  BY <1>1, <1>4, Zenon DEF StorageInv, Stores, StoresAgree
<1>7. QED
  BY <1>1, <1>5, <1>6, Zenon DEF ReadStage

(* GetBlockTime adds the block time and the offset to it.                  *)
LEMMA NextTimeIsRead ==
  ASSUME StateTypeOK, StorageInv, NEW u \in Threads, CallGetBlockTime(u), ReadStage(u),
         ~UsesSystemClock /\ DurationsFit => curOffset \in 0..advanced
  PROVE  ReadStage(u)'
<1>1. /\ pc[u] = "getTime" /\ pc'[u] = "readProposer" /\ blockTime'[u] = NextBlockTime(blockTime[u])
      /\ UNCHANGED <<LastBlock, advanced, blocks>>
  BY Zenon DEF CallGetBlockTime, At, Goto, chainVars, inputVars, storageVars, StateTypeOK, GoroutineTypeOK
<1>2. PICK j \in 1..LastBlock.height : blockTime[u] = blocks[j].time
  BY <1>1, Zenon DEF ReadStage
<1>3. /\ advanced \in Nat /\ BlockTime \in Int /\ MaxInt64 \in Nat /\ Half \in Nat /\ blockTime[u] \in Int
      /\ BlockTime < 0 <=> UsesSystemClock
  BY TimesAreIntegers DEF StateTypeOK, EnvironmentTypeOK, GoroutineTypeOK, Half, UsesSystemClock
<1>4. ASSUME ~UsesSystemClock, BlockTime + advanced <= MaxInt64
      PROVE  /\ blockTime[u] + BlockTime <= blockTime'[u]
             /\ blockTime'[u] <= blockTime[u] + BlockTime + advanced
  <2>1. curOffset \in 0..advanced
    BY <1>4, Zenon DEF DurationsFit
  <2>2. /\ BlockTime + curOffset \in Int /\ -Half <= BlockTime + curOffset
        /\ BlockTime + curOffset <= MaxInt64
    BY <1>3, <1>4, <2>1
  <2>3. Wrap(BlockTime + curOffset) = BlockTime + curOffset
    BY <2>2, WrapFits
  <2>4. blockTime'[u] = blockTime[u] + (BlockTime + curOffset)
    BY <1>1, <1>4, <2>3, Zenon DEF NextBlockTime
  <2>5. QED
    BY <1>3, <2>1, <2>4
<1>5. After(blockTime'[u], blocks'[j].time, advanced')
  BY <1>1, <1>2, <1>4, Zenon DEF After
<1>6. TimeReadNext(blockTime'[u])
  BY <1>1, <1>2, <1>5, Zenon DEF TimeReadNext
<1>7. ReadTime(blockTime[u])'
  BY <1>6, ReadsNext, Zenon
<1>8. QED
  BY <1>1, <1>7, Zenon DEF ReadStage

(* The proposer is read last, from CurState.                               *)
LEMMA ProposerIsRead ==
  ASSUME StateTypeOK, TipInv, NEW u \in Threads, ReadProposer(u), ReadStage(u)
  PROVE  ReadStage(u)'
<1>1. /\ pc[u] = "readProposer" /\ pc'[u] = "lock" /\ blockTime'[u] = blockTime[u]
      /\ proposer'[u] = NextProposer
      /\ UNCHANGED <<LastBlock, CurState, advanced, blocks, states>>
  BY Zenon DEF ReadProposer, At, Goto, chainVars, inputVars, storageVars, StateTypeOK, GoroutineTypeOK
<1>2. LastBlock.height \in Nat /\ CurState.LastBlockHeight \in Nat
  BY Zenon DEF StateTypeOK, ClientTypeOK, IsBlock, State
<1> DEFINE k == CurState.LastBlockHeight + 1
<1>3. \A j \in 1..LastBlock.height : k \in j..k
  BY <1>2 DEF TipInv
<1>4. proposer'[u] = ProposerIn(CurState', states', k)
  BY <1>1, Zenon DEF ProposerIn, NextProposer
<1>5. ASSUME NEW j, TimeFrom(blockTime[u], j) PROVE After(blockTime'[u], blocks'[j].time, advanced')
  BY <1>1, <1>5, Zenon DEF TimeFrom, DurationsFit, After
<1>6. LastBlock.height > 0 => \E j \in 1..LastBlock.height : TimeFrom(blockTime[u], j)
  BY <1>1, Zenon DEF ReadStage, ReadTime
<1>7. BothReadNext(blockTime'[u], proposer'[u])
  BY <1>1, <1>3, <1>4, <1>5, <1>6, Zenon DEF BothReadNext
<1>8. ReadBoth(blockTime[u], proposer[u])'
  BY <1>7, ReadsNext, Zenon
<1>9. QED
  BY <1>1, <1>8, Zenon DEF ReadStage

(* Before the first block there is nothing to read.                        *)
LEMMA FirstRead ==
  ASSUME StateTypeOK, MainFirst, RunFirstBlock
  PROVE  ReadStage(Main)'
<1>1. pc'[Main] = "lock" /\ LastBlock'.height = 0
  BY Zenon DEF RunFirstBlock, MainFirst, At, Goto, chainVars, Threads, StateTypeOK, GoroutineTypeOK
<1>2. ~(LastBlock'.height > 0)
  BY <1>1
<1>3. QED
  BY <1>1, <1>2, Zenon DEF ReadStage, ReadBoth

(* The block that is stored has a time and a proposer that were read in    *)
(* order, and the blocks below keep theirs.                                *)
LEMMA StoredReads ==
  ASSUME StateTypeOK, StateTypeOK', StorageInv, Next, StoresKept, ReadsInOrder,
         \A t \in Threads : ReadStage(t)
  PROVE  ReadsInOrder'
<1> DEFINE Ordered(h, x, a) ==
             h > 1 => \E j \in 1..(h - 1) : \E k \in j..h :
                        /\ After(x, blocks'[j].time, advanced')
                        /\ a = states'[k].LastValidators.proposer
<1>1. SUFFICES \A h \in DOMAIN blocks' : Ordered(h, blocks'[h].time, blocks'[h].proposer)
  BY <1>1, Zenon DEF ReadsInOrder, TimeFrom, DurationsFit, After, UsesSystemClock
<1>2. LastBlock.height \in Nat /\ DOMAIN blocks = 1..LastBlock.height
  BY TipGrows, Zenon
<1>3. \A k \in 1..LastBlock.height : states'[k] = states[k]
  BY <1>2, Zenon DEF StoresKept
<1>4. ASSUME NEW h \in DOMAIN blocks PROVE Ordered(h, blocks[h].time, blocks[h].proposer)
  <2>1. SUFFICES ASSUME h > 1
                 PROVE  \E j \in 1..(h - 1) : \E k \in j..h :
                          /\ After(blocks[h].time, blocks'[j].time, advanced')
                          /\ blocks[h].proposer = states'[k].LastValidators.proposer
    BY Zenon
  <2>2. PICK j \in 1..(h - 1) : \E k \in j..h :
               /\ TimeFrom(blocks[h].time, j)
               /\ blocks[h].proposer = states[k].LastValidators.proposer
    BY <2>1, Zenon DEF ReadsInOrder
  <2>3. PICK k \in j..h : /\ TimeFrom(blocks[h].time, j)
                          /\ blocks[h].proposer = states[k].LastValidators.proposer
    BY Zenon, <2>2
  <2>4. j \in DOMAIN blocks /\ k \in 1..LastBlock.height
    BY <1>2
  <2>5. blocks[h].time \in Int
    BY Zenon DEF StateTypeOK, StorageTypeOK, IsBlock
  <2>6. After(blocks[h].time, blocks'[j].time, advanced')
    BY <2>3, <2>4, <2>5, TimeStaysFrom, Zenon
  <2>7. QED
    BY <1>3, <2>3, <2>4, <2>6, Zenon
<1>5. CASE \E t \in Threads : StoreBlock(t)
  <2>1. PICK t \in Threads : StoreBlock(t)
    BY Zenon, <1>5
  <2>2. /\ DOMAIN blocks' = DOMAIN blocks \cup {LastBlock.height + 1}
        /\ blocks'[LastBlock.height + 1] = block /\ CurState.LastBlockHeight = LastBlock.height
        /\ \A h \in DOMAIN blocks : blocks'[h] = blocks[h]
    BY <2>1, StoreAppends, Zenon
  <2>3. states' = Insert(states, CurState.LastBlockHeight + 1, CurState)
    BY <2>1, Zenon DEF StoreBlock, UpdateStores
  <2>4. states'[LastBlock.height + 1] = CurState
    BY <2>2, <2>3 DEF Insert
  <2>5. ReadBoth(block.time, block.proposer)
    BY <2>1, Zenon DEF StoreBlock, At, ReadStage
  <2>6. ASSUME LastBlock.height > 0
        PROVE  \E j \in 1..LastBlock.height : \E k \in j..(LastBlock.height + 1) :
                 /\ After(block.time, blocks'[j].time, advanced')
                 /\ block.proposer = states'[k].LastValidators.proposer
    <3>1. PICK j \in 1..LastBlock.height : \E k \in j..(LastBlock.height + 1) :
                 TimeFrom(block.time, j) /\ block.proposer = ProposerOf(k)
      BY <2>2, <2>5, <2>6, Zenon DEF ReadBoth
    <3>2. PICK k \in j..(LastBlock.height + 1) : TimeFrom(block.time, j) /\ block.proposer = ProposerOf(k)
      BY Zenon, <3>1
    <3>3. k # LastBlock.height + 1 => k \in 1..LastBlock.height
      BY <1>2
    <3>4. block.proposer = states'[k].LastValidators.proposer
      BY <1>3, <2>2, <2>4, <3>2, <3>3, Zenon DEF ProposerOf, NextProposer
    <3>5. block.time \in Int
      BY Zenon DEF StateTypeOK, GoroutineTypeOK, IsBlock
    <3>6. After(block.time, blocks'[j].time, advanced')
      BY <1>2, <3>2, <3>5, TimeStaysFrom, Zenon
    <3>7. QED
      BY <3>4, <3>6, Zenon
  <2>7. /\ (LastBlock.height + 1) - 1 = LastBlock.height
        /\ LastBlock.height + 1 > 1 => LastBlock.height > 0
    BY <1>2
  <2>8. Ordered(LastBlock.height + 1, block.time, block.proposer)
    BY <2>6, <2>7, Zenon
  <2> HIDE DEF Ordered
  <2>9. QED
    BY <1>4, <2>2, <2>8, Zenon
<1>6. CASE ~\E t \in Threads : StoreBlock(t)
  <2>1. blocks' = blocks
    BY <1>6, OnlyStoreBlockWrites, Zenon
  <2> HIDE DEF Ordered
  <2>2. QED
    BY <1>4, <2>1, Zenon
<1>7. QED
  BY Zenon, <1>5, <1>6

(* Every step keeps the invariant of what is read.                         *)
LEMMA StepReads ==
  /\ StateTypeOK /\ StateTypeOK' /\ StorageInv /\ TipInv /\ MainFirst /\ ReadInv
  /\ [Next]_vars /\ [StoresKept]_vars
  => ReadInv'
<1>1. ASSUME StateTypeOK, StateTypeOK', StorageInv, TipInv, MainFirst, ReadInv, Next, StoresKept
      PROVE  ReadInv'
  <2>0. /\ ~UsesSystemClock /\ DurationsFit => curOffset \in 0..advanced
        /\ ReadsInOrder /\ StartsFromStored /\ \A t \in Threads : ReadStage(t)
    BY Zenon, <1>1 DEF ReadInv
  <2>1. ~UsesSystemClock /\ DurationsFit' => curOffset' \in 0..advanced'
    BY Zenon, <1>1, <2>0, OffsetInRange
  <2>2. ReadsInOrder' /\ StartsFromStored'
    BY Zenon, <1>1, <2>0, StoredReads, StoredStateStays
  <2>3. ASSUME NEW u \in Threads PROVE ReadStage(u)'
    <3>1. CASE TimeMoves(u) /\ ~ReadProposer(u)
      BY Zenon, <1>1, <2>0, <3>1, ReadStageMoves
    <3>2. CASE ReadLastBlockTime(u)
      BY Zenon, <1>1, <3>2, LastTimeIsRead
    <3>3. CASE CallGetBlockTime(u)
      BY Zenon, <1>1, <2>0, <3>3, NextTimeIsRead
    <3>4. CASE ReadProposer(u)
      BY Zenon, <1>1, <2>0, <3>4, ProposerIsRead
    <3>5. CASE u = Main /\ RunFirstBlock
      BY Zenon, <1>1, <3>5, FirstRead
    <3>6. ASSUME NEW t \in Threads, RunBlock(t)
          PROVE  TimeMoves(u) \/ ReadLastBlockTime(u) \/ CallGetBlockTime(u)
      BY <1>1, <3>6, OtherTimesStay, OwnTimeMoves, Zenon DEF TimeMoves
    <3>7. QED
      BY Zenon, <1>1, <3>1, <3>2, <3>3, <3>4, <3>5, <3>6, OutsideTimesMove
  <2>4. UsesSystemClock' = UsesSystemClock
    BY Zenon DEF UsesSystemClock
  <2>5. QED
    BY Zenon, <2>1, <2>2, <2>3, <2>4 DEF ReadInv
<1>2. ASSUME ReadInv, UNCHANGED vars PROVE ReadInv'
  <2>1. UNCHANGED <<pc, blockTime, proposer, block, LastBlock, CurState, curOffset, advanced, blocks, states>>
    BY <1>2, Zenon DEF vars, argVars, helperVars, chainVars, timeVars, inputVars, storageVars
  <2>2. /\ UsesSystemClock' = UsesSystemClock /\ DurationsFit' = DurationsFit
        /\ ReadsInOrder' <=> ReadsInOrder
    BY <2>1, Zenon DEF ReadsInOrder, TimeFrom, DurationsFit, UsesSystemClock
  <2>3. ASSUME NEW u \in Threads
        PROVE  /\ ReadTime(blockTime[u])' <=> ReadTime(blockTime[u])
               /\ ReadBoth(blockTime[u], proposer[u])' <=> ReadBoth(blockTime[u], proposer[u])
               /\ ReadBoth(block.time, block.proposer)' <=> ReadBoth(block.time, block.proposer)
    BY <2>1, Zenon DEF ReadTime, ReadBoth, TimeFrom, DurationsFit, ProposerOf, NextProposer, UsesSystemClock
  <2>4. ASSUME NEW u \in Threads PROVE ReadStage(u)'
    BY <1>2, <2>1, <2>3, Zenon DEF ReadInv, ReadStage
  <2>5. QED
    BY <1>2, <2>1, <2>2, <2>4, Zenon DEF ReadInv, StartsFromStored
<1>3. QED
  BY <1>1, <1>2, Zenon

(* Whatever each goroutine has read before it gets blockMutex comes from a *)
(* stored block and from a state that is not older than this block, and    *)
(* the durations of advance_time in its offset are among those given.      *)
THEOREM ReadInvHolds == Spec => []ReadInv
<1>1. Init => ReadInv
  <2>1. SUFFICES ASSUME Init PROVE ReadInv
    OBVIOUS
  <2>2. ~UsesSystemClock => curOffset = 0 /\ advanced = 0
    BY <2>1, Zenon DEF Init, TimeInit, InitialOffset
  <2>3. ~UsesSystemClock => curOffset \in 0..advanced
    BY <2>2
  <2>4. DOMAIN blocks = {} /\ pc = [t \in Threads |-> IF t = Main THEN "initChain" ELSE "idle"]
    BY <2>1 DEF Init, StorageInit
  <2>5. \A t \in Threads : ReadStage(t) /\ pc[t] # "updateState"
    BY <2>4, Zenon DEF ReadStage
  <2>6. QED
    BY <2>3, <2>4, <2>5, Zenon DEF ReadInv, ReadsInOrder, StartsFromStored
<1>2. QED
  BY <1>1, StepReads, MainFirstHolds, TipInvHolds, InvHolds, StateTypeCorrect, StoresAreKept, PTL DEF Spec

(* However many goroutines run blocks, and whatever fails, each block is   *)
(* out of date in one way only: it comes one block time, and some of the   *)
(* durations given, after an earlier block, and its proposer is named by a *)
(* state that is not older than that block.                                *)
THEOREM ReadsAreInOrder == Spec => []ReadsInOrder
<1>1. ReadInv => ReadsInOrder
  BY Zenon DEF ReadInv
<1>2. QED
  BY <1>1, ReadInvHolds, PTL
=============================================================================
