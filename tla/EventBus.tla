------------------------------ MODULE EventBus ------------------------------
(***************************************************************************)
(* The events of a block: fireEvents (abci_client/client.go) publishes     *)
(* them on the event bus while the storage is locked, and Subscribe        *)
(* (rpc_server/websocket.go) starts a goroutine per subscription that      *)
(* writes them to a websocket.  The loop of the bus and the indexer        *)
(* service are CometBFT's: the loop takes one command at a time, blocks    *)
(* on the indexer's unbuffered subscriptions, and cancels a buffered one   *)
(* that is full.                                                           *)
(***************************************************************************)
EXTENDS AbciClientProps

CONSTANTS Subscriptions,   \* calls of Subscribe, each with a query of its own
          RemoteAddr,      \* the websocket connection of each
          Query,           \* the types of event that its query matches
          BufferSize,      \* SubscriptionBufferSize
          Indexer          \* the indexer service, as a receiver of events

ASSUME BusConstantsHaveTypes == /\ BufferSize \in Nat \ {0}
                                /\ Indexer \notin Subscriptions
                                /\ DOMAIN RemoteAddr = Subscriptions
                                /\ DOMAIN Query = Subscriptions

VARIABLES
  fired,       \* how many events of the current block fireEvents has published
  inHand,      \* <<the event the loop is delivering>>, or <<>> if it is idle
  waiting,     \* the receivers it still has to hand that event to
  log,         \* every event the loop has taken
  batch,       \* <<the block the indexer is working on>>, or <<>>
  blockIndex,  \* BlockIndex: the heights in it
  txIndex,     \* TxIndex: the place of each transaction in it
  subs         \* the subscriptions and their goroutines

indexVars == <<batch, blockIndex, txIndex>>
busVars == <<fired, inHand, waiting, log, indexVars, subs>>

BusInit ==
  /\ fired = 0 /\ inHand = <<>> /\ waiting = {} /\ log = <<>>
  /\ batch = <<>> /\ blockIndex = {} /\ txIndex = <<>>
  /\ subs = [s \in Subscriptions |-> [state |-> "none", since |-> 0, queue |-> <<>>,
                                      hand |-> <<>>, taken |-> <<>>]]

-----------------------------------------------------------------------------
(* fireEvents.                                                             *)

(* n is NumTxs of NewBlockEvents and Index of Tx.                          *)
Event(type, height, n, x) == [type |-> type, height |-> height, n |-> n, tx |-> x]

EventsOf(b, r, numTxs, first) ==
  <<Event("NewBlock", b.height, 0, NoTx), Event("NewBlockHeader", b.height, 0, NoTx),
    Event("NewBlockEvents", b.height, numTxs, NoTx)>>
  \o (IF b.evidence = NoMisbehaviour THEN <<>>
                                     ELSE <<Event("NewEvidence", b.height, 0, NoTx)>>)
  \o [i \in 1..Len(b.txs) |-> Event("Tx", b.height, first + i - 1, b.txs[i])]
  \o (IF Updated(r.updates) = {} THEN <<>>
                                 ELSE <<Event("ValidatorSetUpdates", b.height, 0, NoTx)>>)

(* Faulty variants: transactions are counted from 1, or one too many is    *)
(* announced.                                                              *)
EventsCountedFromOne(b, r) == EventsOf(b, r, Len(b.txs), 1)
EventsAnnouncingTooMany(b, r) == EventsOf(b, r, Len(b.txs) + 1, 0)

(* Faulty variants: a block without transactions announces nothing, or the *)
(* first transaction has no event.                                         *)
EventsOfFullBlocks(b, r) ==
  LET events == EventsOf(b, r, Len(b.txs), 0)
  IN  Kept(events, {i \in DOMAIN events : events[i].type = "NewBlockEvents" => events[i].n > 0})
EventsWithoutFirstTx(b, r) ==
  LET events == EventsOf(b, r, Len(b.txs), 0)
  IN  Kept(events, {i \in DOMAIN events : events[i].type = "Tx" => events[i].n > 0})

(* The events of a block with the response r, in the order of publication. *)
fireEvents(b, r) == EventsOf(b, r, Len(b.txs), 0)

(* Faulty variant: a cancelled subscription still gets events.             *)
ReceiversEver(e) ==
  {s \in Subscriptions : subs[s].state # "none" /\ e.type \in Query[s]}
    \cup (IF e.type \in {"NewBlockEvents", "Tx"} THEN {Indexer} ELSE {})

Receivers(e) ==
  {s \in Subscriptions : subs[s].state = "open" /\ e.type \in Query[s]}
    \cup (IF e.type \in {"NewBlockEvents", "Tx"} THEN {Indexer} ELSE {})

(* A Publish call returns when the loop has taken the event.               *)
PublishEvent(t) ==
  LET e == fireEvents(block, res)[fired + 1]
  IN  /\ At(t, "fireEvents")
      /\ inHand = <<>> /\ fired < Len(fireEvents(block, res))
      /\ fired' = fired + 1
      /\ log' = Append(log, e)
      /\ inHand' = IF Receivers(e) = {} THEN <<>> ELSE <<e>>
      /\ waiting' = Receivers(e)
      /\ UNCHANGED <<indexVars, subs, vars>>

(* fireEvents returns without waiting for the delivery of the last event.  *)
ReturnFromFireEvents(t) ==
  /\ fired = Len(fireEvents(block, res))
  /\ EventsFired(t)
  /\ fired' = 0
  /\ UNCHANGED <<inHand, waiting, log, indexVars, subs>>

(* The result of a transaction that is about to be published is missing.   *)
PanicInFireEvents(t) ==
  /\ fired < Len(fireEvents(block, res)) /\ fireEvents(block, res)[fired + 1].type = "Tx"
  /\ EventsPanic(t)
  /\ fired' = 0
  /\ UNCHANGED <<inHand, waiting, log, indexVars, subs>>

-----------------------------------------------------------------------------
(* The loop of the bus, and the indexer.                                   *)

Delivered(receiver) == /\ waiting' = waiting \ {receiver}
                       /\ inHand' = IF waiting = {receiver} THEN <<>> ELSE inHand

(* The channel to the indexer has no buffer: it takes NewBlockEvents when  *)
(* it is done with the last block, and then as many Tx as were announced.  *)
DeliverToIndexer ==
  LET e == Head(inHand)
  IN  /\ Indexer \in waiting
      /\ \/ /\ e.type = "NewBlockEvents" /\ batch = <<>>
            /\ batch' = <<[height |-> e.height, numTxs |-> e.n, txs |-> <<>>]>>
         \/ /\ e.type = "Tx" /\ batch # <<>>
            /\ Len(batch[1].txs) < batch[1].numTxs
            /\ batch' = <<[batch[1] EXCEPT !.txs = Append(@, e)]>>
      /\ Delivered(Indexer)
      /\ UNCHANGED <<fired, log, blockIndex, txIndex, subs>>

BatchIsComplete == batch # <<>> /\ Len(batch[1].txs) = batch[1].numTxs

(* BlockIndex.Index, then TxIndex.AddBatch: of several copies of a         *)
(* transaction the last one stays.                                         *)
IndexBlock ==
  /\ BatchIsComplete /\ batch[1].height \notin blockIndex
  /\ blockIndex' = blockIndex \cup {batch[1].height}
  /\ UNCHANGED <<fired, inHand, waiting, log, batch, txIndex, subs>>

IndexTxs ==
  LET txs == batch[1].txs
      Last(x) == CHOOSE i \in DOMAIN txs :
                   txs[i].tx = x /\ \A j \in DOMAIN txs : txs[j].tx = x => j <= i
      new == {txs[i].tx : i \in DOMAIN txs}
  IN  /\ BatchIsComplete /\ batch[1].height \in blockIndex
      /\ txIndex' = [x \in DOMAIN txIndex \cup new |->
                       IF x \in new THEN [height |-> txs[Last(x)].height, index |-> txs[Last(x)].n]
                                    ELSE txIndex[x]]
      /\ batch' = <<>>
      /\ UNCHANGED <<fired, inHand, waiting, log, blockIndex, subs>>

(* The channel to a subscription has a buffer: if it is full, the          *)
(* subscription is cancelled.                                              *)
DeliverToSubscription(s) ==
  /\ s \in waiting
  /\ subs' = [subs EXCEPT ![s] =
                IF Len(subs[s].queue) < BufferSize
                  THEN [subs[s] EXCEPT !.queue = Append(subs[s].queue, Head(inHand))]
                  ELSE [subs[s] EXCEPT !.state = "outOfCapacity"]]
  /\ Delivered(s)
  /\ UNCHANGED <<fired, log, indexVars>>

Loop == ~crashed /\ (DeliverToIndexer \/ \E s \in Subscriptions : DeliverToSubscription(s))

Indexing == ~crashed /\ (IndexBlock \/ IndexTxs)

-----------------------------------------------------------------------------
(* Requests on a websocket.  The loop takes them when it is idle.          *)

Subscribe(s) ==
  /\ serving /\ ~crashed /\ inHand = <<>> /\ subs[s].state = "none"
  /\ subs' = [subs EXCEPT ![s].state = "open", ![s].since = Len(log)]
  /\ UNCHANGED <<fired, inHand, waiting, log, indexVars>>

Cancelled(S) == [s \in Subscriptions |-> IF s \in S /\ subs[s].state = "open"
                                           THEN [subs[s] EXCEPT !.state = "unsubscribed"]
                                           ELSE subs[s]]

Unsubscribe(s) ==
  /\ serving /\ ~crashed /\ inHand = <<>> /\ subs[s].state = "open"
  /\ subs' = Cancelled({s})
  /\ UNCHANGED <<fired, inHand, waiting, log, indexVars>>

UnsubscribeAll(addr) ==
  /\ serving /\ ~crashed /\ inHand = <<>>
  /\ \E s \in Subscriptions : RemoteAddr[s] = addr /\ subs[s].state = "open"
  /\ subs' = Cancelled({s \in Subscriptions : RemoteAddr[s] = addr})
  /\ UNCHANGED <<fired, inHand, waiting, log, indexVars>>

-----------------------------------------------------------------------------
(* The goroutine that Subscribe starts.  Its select may take an event as   *)
(* long as there is one, also after the subscription was cancelled.        *)

(* Faulty variant: the goroutine ends when a write fails, and the           *)
(* subscription stays.                                                     *)
RunningUntilSlow(s) == /\ subs[s].state \notin {"none", "ended"}
                       /\ \A i \in DOMAIN subs[s].taken : subs[s].taken[i].written

Running(s) == subs[s].state \notin {"none", "ended"}

TakeEvent(s) ==
  /\ Running(s) /\ subs[s].hand = <<>> /\ subs[s].queue # <<>>
  /\ subs' = [subs EXCEPT ![s].hand = <<Head(subs[s].queue)>>, ![s].queue = Tail(@)]
  /\ UNCHANGED <<fired, inHand, waiting, log, indexVars>>

(* Faulty variant: an event that could not be written is tried again       *)
(* after the others.                                                       *)
Requeued(s, written) ==
  [subs[s] EXCEPT !.hand = <<>>,
                  !.queue = IF written THEN @ ELSE Append(@, Head(subs[s].hand)),
                  !.taken = IF written THEN Append(@, [event |-> Head(subs[s].hand), written |-> TRUE])
                                       ELSE @]

(* A write that times out is logged, and the event dropped: closeIfSlow is *)
(* false.                                                                  *)
AfterWrite(s, written) ==
  [subs[s] EXCEPT !.hand = <<>>,
                  !.taken = Append(@, [event |-> Head(subs[s].hand), written |-> written])]

WriteRPCResponse(s) ==
  /\ Running(s) /\ subs[s].hand # <<>>
  /\ \E written \in BOOLEAN : subs' = [subs EXCEPT ![s] = AfterWrite(s, written)]
  /\ UNCHANGED <<fired, inHand, waiting, log, indexVars>>

(* The cancellation is seen: what is still queued is given up.             *)
SeeCanceled(s) ==
  /\ Running(s) /\ subs[s].state # "open" /\ subs[s].hand = <<>>
  /\ subs' = [subs EXCEPT ![s].state = "ended", ![s].queue = <<>>]
  /\ UNCHANGED <<fired, inHand, waiting, log, indexVars>>

Writer(s) == ~crashed /\ (TakeEvent(s) \/ WriteRPCResponse(s) \/ SeeCanceled(s))

-----------------------------------------------------------------------------
(* Block production with its event bus.                                    *)

FiringStep(t) == PublishEvent(t) \/ ReturnFromFireEvents(t) \/ PanicInFireEvents(t)

BusStep ==
  \/ Loop \/ Indexing
  \/ \E s \in Subscriptions : Subscribe(s) \/ Unsubscribe(s) \/ Writer(s)
  \/ \E s \in Subscriptions : UnsubscribeAll(RemoteAddr[s])

BusNext ==
  \/ Step /\ UNCHANGED busVars
  \/ \E t \in Threads : FiringStep(t)
  \/ BusStep /\ UNCHANGED vars

BusSpec == Init /\ BusInit /\ [][BusNext]_<<vars, busVars>>

-----------------------------------------------------------------------------
(* Properties.                                                             *)

(* The index only knows what is stored: an indexed height is one of a      *)
(* stored block, and the place it gives for a transaction is where the     *)
(* stored block has it, which is what Tx and TxSearch prove inclusion of.  *)
IndexMatchesStores ==
  /\ blockIndex \subseteq DOMAIN blocks
  /\ \A x \in DOMAIN txIndex :
       /\ txIndex[x].height \in blockIndex
       /\ txIndex[x].index + 1 \in DOMAIN blocks[txIndex[x].height].txs
       /\ blocks[txIndex[x].height].txs[txIndex[x].index + 1] = x

(* fireEvents does not wait for the index, but the index never falls more  *)
(* than two blocks behind what the RPC server reads from the storage: the  *)
(* bus does not take the events of a block before the indexer has taken    *)
(* those of the block before.                                              *)
IndexLagsTwoBlocks ==
  ~crashed /\ StoresReadable =>
    \A h \in 1..(LastBlock.height - 2) :
      /\ h \in blockIndex
      /\ Range(blocks[h].txs) \subseteq DOMAIN txIndex

Matching(s) == Kept(log, {i \in subs[s].since + 1..Len(log) : log[i].type \in Query[s]})

OnTheWay(s) == [i \in DOMAIN subs[s].taken |-> subs[s].taken[i].event]
                 \o subs[s].hand \o subs[s].queue \o (IF s \in waiting THEN inHand ELSE <<>>)

(* A subscription takes the events that match its query since Subscribe    *)
(* returned, in the order of publication and each once, as long as it is   *)
(* open; once it is cancelled, it has taken a prefix of them.  What it has *)
(* taken reaches the client unless the write times out.                    *)
NothingSkipped ==
  \A s \in Subscriptions :
    subs[s].state # "none" =>
      /\ \E k \in 0..Len(Matching(s)) : OnTheWay(s) = SubSeq(Matching(s), 1, k)
      /\ subs[s].state = "open" => OnTheWay(s) = Matching(s)

-----------------------------------------------------------------------------
(* The inductive invariant behind the properties of the index.             *)

Firing == \E t \in Threads : pc[t] = "fireEvents"

(* The height of the last NewBlockEvents that was published: it is the     *)
(* third event of a block.                                                 *)
Announced == IF Firing /\ fired < 3 THEN CurState.LastBlockHeight - 1 ELSE CurState.LastBlockHeight

Offered(type) == Indexer \in waiting /\ Head(inHand).type = type

(* The height of the last NewBlockEvents that the indexer has taken.       *)
Indexed == IF Offered("NewBlockEvents") THEN Announced - 1 ELSE Announced

TxEvent(h, i) == Event("Tx", h, i - 1, blocks[h].txs[i])

(* The events of a block before its transactions, and how many of its      *)
(* transactions have been published.                                       *)
EventsBeforeTxs(b) == IF b.evidence = NoMisbehaviour THEN 3 ELSE 4
TxsPublished ==
  LET before == EventsBeforeTxs(block)
  IN  IF fired <= before THEN 0
      ELSE IF fired >= before + Len(block.txs) THEN Len(block.txs) ELSE fired - before

TxsTaken == IF Offered("NewBlockEvents") THEN 0
            ELSE IF batch = <<>> THEN Len(block.txs) ELSE Len(batch[1].txs)

(* What the loop has in hand for the indexer is what comes next: the       *)
(* number of transactions of the next block, or the next transaction of    *)
(* the block that the indexer is working on.                               *)
InHandOK ==
  /\ inHand = <<>> <=> waiting = {}
  /\ inHand # <<>> => inHand = <<Head(inHand)>>
  /\ Indexer \in waiting => Head(inHand).type \in {"NewBlockEvents", "Tx"}
  /\ Offered("NewBlockEvents") =>
       /\ Announced > 0
       /\ Head(inHand) = Event("NewBlockEvents", Announced, Len(blocks[Announced].txs), NoTx)
  /\ Offered("Tx") => /\ batch # <<>>
                      /\ Len(batch[1].txs) < Len(blocks[Indexed].txs)
                      /\ Head(inHand) = TxEvent(Indexed, Len(batch[1].txs) + 1)

(* The block that the indexer is working on.                               *)
BatchOK ==
  batch # <<>> =>
    /\ Indexed > 0 /\ Len(batch[1].txs) \in 0..Len(blocks[Indexed].txs)
    /\ batch = <<[height |-> Indexed, numTxs |-> Len(blocks[Indexed].txs),
                  txs |-> [i \in 1..Len(batch[1].txs) |-> TxEvent(Indexed, i)]]>>

(* While fireEvents publishes transactions, the indexer has taken all of   *)
(* them, except the one that the loop has in hand.                         *)
FiringOK ==
  /\ fired \in 0..Len(fireEvents(block, res))
  /\ ~Firing => fired = 0
  /\ Firing /\ fired >= 3 => TxsPublished = TxsTaken + (IF Offered("Tx") THEN 1 ELSE 0)

(* Nothing is missing below the block that the indexer is working on.      *)
IndexOK ==
  /\ blockIndex \subseteq 1..Indexed
  /\ \A h \in 1..Indexed : h < Indexed \/ batch = <<>> =>
       h \in blockIndex /\ Range(blocks[h].txs) \subseteq DOMAIN txIndex

(* The indexer has taken the events of all blocks up to the one that is    *)
(* being fired, in their order, or all but the event in hand; and all that *)
(* it is done with is in the index, at its place.                          *)
BusInv == InHandOK /\ BatchOK /\ FiringOK /\ IndexOK /\ IndexMatchesStores

-----------------------------------------------------------------------------
(* The inductive invariant behind NothingSkipped.                          *)

EventTypes == {"NewBlock", "NewBlockHeader", "NewBlockEvents", "NewEvidence", "Tx",
               "ValidatorSetUpdates"}
EventSet == [type : EventTypes, height : Int, n : Nat, tx : Txs \cup {NoTx}]

BusTypeOK ==
  /\ log \in Seq(EventSet) /\ inHand \in Seq(EventSet)
  /\ waiting \subseteq Subscriptions \cup {Indexer}
  /\ subs \in [Subscriptions -> [state : {"none", "open", "unsubscribed", "outOfCapacity", "ended"},
                                 since : Nat, queue : Seq(EventSet), hand : Seq(EventSet),
                                 taken : Seq([event : EventSet, written : BOOLEAN])]]

(* The loop waits for open subscriptions only, and a goroutine writes one  *)
(* event at a time.                                                        *)
SubscriptionOK(s) ==
  /\ subs[s].since <= Len(log)
  /\ s \in waiting => subs[s].state = "open"
  /\ subs[s].hand # <<>> => subs[s].hand = <<Head(subs[s].hand)>>
  /\ subs[s].state = "none" => OnTheWay(s) = <<>>

(* What was published for a subscription is, in this order, what its       *)
(* goroutine took, what it writes, what is queued and what the loop has in *)
(* hand.                                                                   *)
DeliveryInv == BusTypeOK /\ (\A s \in Subscriptions : SubscriptionOK(s)) /\ NothingSkipped

-----------------------------------------------------------------------------
(* Liveness.  The loop of the bus and the indexer never stop; nothing is   *)
(* assumed of the websocket clients, nor of the goroutines that serve them.*)
busSteps == <<vars, busVars>>

BusFairness ==
  /\ WF_vars(InitChain) /\ WF_vars(RunFirstBlock) /\ WF_vars(StartServer)
  /\ \A t \in Threads : /\ WF_vars(BlockStep(t)) /\ SF_vars(LockBlockMutex(t))
                        /\ WF_busSteps(FiringStep(t))
  /\ \A t \in Handlers : SF_vars(QueueTx(t))
  /\ WF_busVars(Loop) /\ WF_busVars(Indexing)

FairBusSpec == BusSpec /\ BusFairness

(* A transaction in a stored block that can be read can be found by its    *)
(* hash, in the end, even if a later block leaves a lock behind.           *)
TxsAreIndexed ==
  \A x \in Txs : x \in StoredTxs /\ StoresReadable ~> (crashed \/ x \in DOMAIN txIndex)

(* If its goroutine runs, an open subscription takes every event that      *)
(* matches from its buffer, whatever writes time out on the way.           *)
EventsAreDelivered ==
  \A s \in Subscriptions :
    WF_busVars(Writer(s)) =>
      []<>(crashed \/ subs[s].state # "open" \/ Len(subs[s].taken) = Len(Matching(s)))
=============================================================================
