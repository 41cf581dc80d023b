------------------------------ MODULE RpcServer ------------------------------
(***************************************************************************)
(* The RPC requests that read (rpc_server/routes.go), each served by a     *)
(* goroutine of its own while blocks are being run.  They read LastBlock   *)
(* and CurState without a lock, the storage through getters that lock it   *)
(* for one entry at a time, the index, and the applications one by one.    *)
(***************************************************************************)
EXTENDS EventBus, Pagination

CONSTANTS Readers,        \* goroutines that serve requests
          Kinds,          \* the requests they serve
          HeightParams,   \* heights that are asked for
          PageParams,     \* <<page, per_page>> that are asked for
          OrderParams,    \* order_by
          QueriesFail,    \* whether Query and Info may fail
          MaxReads        \* bound on the number of requests

HeightKinds == {"block", "commit", "validators", "consensus_params", "block_results"}
SearchKinds == {"block_search", "tx", "tx_search"}
AppKinds == {"abci_query", "abci_info"}

ASSUME RpcConstantsHaveTypes ==
  /\ Kinds \subseteq HeightKinds \cup SearchKinds \cup AppKinds \cup {"status"}
  /\ HeightParams \subseteq Int \cup {NoParam}
  /\ PageParams \subseteq (Int \cup {NoParam}) \X (Int \cup {NoParam})
  /\ QueriesFail \in BOOLEAN /\ MaxReads \in Nat

VARIABLES calls,   \* the request each reader serves, or has answered
          reads,   \* number of requests
          seen     \* the largest height in an answer

rpcVars == <<calls, reads, seen>>

(* The heights in the events that have reached a websocket.                *)
EventHeights == UNION {{subs[s].taken[i].event.height :
                          i \in {j \in DOMAIN subs[s].taken : subs[s].taken[j].written}}
                       : s \in Subscriptions}
Largest(S) == CHOOSE n \in S \cup {0} : \A m \in S \cup {0} : m <= n

NoPage == <<NoParam, NoParam>>

(* What a request still has to read and what it has got so far, and what   *)
(* was known when it began: heights in events and in answers.              *)
Call(kind, want, height, todo) ==
  [kind |-> kind, want |-> want, height |-> height, page |-> NoPage,
   todo |-> todo, got |-> <<>>, asked |-> {}, agreed |-> {},
   events |-> Largest(EventHeights), before |-> seen, outcome |-> "pending"]

RpcInit == /\ reads = 0 /\ seen = 0
           /\ calls = [r \in Readers |-> [Call("status", NoParam, 0, <<>>) EXCEPT !.outcome = "none"]]

(* The request is served from here on as c; an answer tells its height.    *)
Serve(r, c) == /\ calls' = [calls EXCEPT ![r] = c]
               /\ seen' = IF c.outcome = "ok" THEN Largest({seen, c.height}) ELSE seen

Begin(r, c) == /\ serving /\ reads < MaxReads
               /\ calls[r].outcome # "pending"
               /\ Serve(r, c)
               /\ reads' = reads + 1

Pending(r, kinds) == calls[r].outcome = "pending" /\ calls[r].kind \in kinds
Proceed(r, c) == Serve(r, c) /\ UNCHANGED reads
End(c, outcome) == [c EXCEPT !.outcome = outcome]
Fail(kind, outcome) == End(Call(kind, NoParam, 0, <<>>), outcome)

-----------------------------------------------------------------------------
(* Requests for a height.                                                  *)

(* Faulty variant: the height of the state, which is updated later.        *)
HeightOfState == CurState.LastBlockHeight

LatestHeight == LastBlock.height

(* Faulty variant: the height of the block to come is accepted.            *)
HeightOrNext(want) == want = NoParam \/ want \in 1..(LatestHeight + 1)

(* Whether getHeight returns a height, and which.                          *)
HeightIsValid(want) == want = NoParam \/ want \in 1..LatestHeight
getHeight(want) == IF want = NoParam THEN LatestHeight ELSE want

(* The getters of the storage that a request calls.                        *)
Getters(kind, height) ==
  CASE kind = "block" -> <<<<"blocks", height>>>>
    [] kind = "commit" -> <<<<"commits", height>>, <<"blocks", height>>>>
    [] kind \in {"validators", "consensus_params"} -> <<<<"states", height>>>>
    [] kind = "block_results" -> <<<<"responses", height>>>>

BeginAtHeight(r) ==
  \E kind \in Kinds \cap HeightKinds, want \in HeightParams :
    \E page \in IF kind = "validators" THEN PageParams ELSE {NoPage} :
      LET height == getHeight(want)
          c == [Call(kind, want, height, Getters(kind, height)) EXCEPT !.page = page]
      IN  Begin(r, IF HeightIsValid(want) THEN c ELSE Fail(kind, "error"))

Map(name) == CASE name = "blocks" -> blocks [] name = "commits" -> commits
               [] name = "states" -> states [] name = "responses" -> responses

(* ValidatorSet.Validators as a list.                                      *)
ValidatorList(power) ==
  [i \in 1..Cardinality(Members(power)) |->
     CHOOSE a \in Members(power) : Position(power, a) = i]

(* The end of Validators: the page that is asked for.                      *)
PageOfValidators(c) ==
  LET list == ValidatorList(c.got[1].Validators.power)
      perPage == validatePerPage(c.page[2])
  IN  IF PageExists(c.page[1], perPage, Len(list))
        THEN End([c EXCEPT !.got = Page(list, PageNumber(c.page[1]), perPage)], "ok")
        ELSE Fail("validators", "error")

(* Faulty variant: the latest height is read again for the block.          *)
HeightReadAgain(c) == IF c.kind = "commit" /\ c.want = NoParam THEN LatestHeight ELSE c.todo[1][2]

GetterHeight(c) == c.todo[1][2]

(* A getter finds its entry or the request fails.                          *)
CallGetter(r) ==
  LET c == calls[r]
      map == Map(c.todo[1][1])
      height == GetterHeight(c)
      read == [c EXCEPT !.got = Append(@, map[height]), !.todo = Tail(@)]
  IN  /\ Pending(r, HeightKinds \cup SearchKinds) /\ c.todo # <<>>
      /\ StoresReadable
      /\ Proceed(r, IF height \notin DOMAIN map THEN Fail(c.kind, "notFound")
                    ELSE IF read.todo # <<>> THEN read
                    ELSE IF c.kind = "validators" THEN PageOfValidators(read)
                    ELSE End(read, "ok"))

-----------------------------------------------------------------------------
(* BlockSearch, Tx and TxSearch: the index first, then the storage.        *)

FoundTx(x) == [height |-> txIndex[x].height, index |-> txIndex[x].index, tx |-> x]

(* The results of a query that matches everything.                         *)
Found(kind) == IF kind = "block_search"
                 THEN {[height |-> h, index |-> 0, tx |-> NoTx] : h \in blockIndex}
                 ELSE {FoundTx(x) : x \in DOMAIN txIndex}

Below(a, b) == \/ a.height < b.height
               \/ a.height = b.height /\ a.index < b.index

Descending(kind, order) == order = "desc" \/ (order = "" /\ kind = "block_search")

(* The results in the order that is asked for.                             *)
Sorted(found, descending) ==
  {results \in [1..Cardinality(found) -> found] :
     \A i, j \in DOMAIN results :
       i < j => IF descending THEN Below(results[j], results[i]) ELSE Below(results[i], results[j])}

(* What is left to do with the results: BlockSearch returns the blocks,    *)
(* and a proof of inclusion needs the block of the transaction.            *)
WithBlocks(kind, results, prove) ==
  LET height == Largest({results[i].height : i \in DOMAIN results})
      c == Call(kind, NoParam, height, <<>>)
  IN  IF prove /\ results # <<>>
        THEN [c EXCEPT !.todo = [i \in DOMAIN results |-> <<"blocks", results[i].height>>]]
        ELSE End([c EXCEPT !.got = results], "ok")

BeginSearch(r) ==
  \E kind \in Kinds \cap {"block_search", "tx_search"}, order \in OrderParams, page \in PageParams :
    \E prove \in IF kind = "block_search" THEN {TRUE} ELSE BOOLEAN,
       results \in Sorted(Found(kind), Descending(kind, order)) :
      LET perPage == validatePerPage(page[2])
      IN  Begin(r, IF order \in {"", "asc", "desc"} /\ PageExists(page[1], perPage, Len(results))
                     THEN WithBlocks(kind, Page(results, PageNumber(page[1]), perPage), prove)
                     ELSE Fail(kind, "error"))

BeginTx(r) ==
  /\ "tx" \in Kinds
  /\ \E x \in Txs, prove \in BOOLEAN :
       Begin(r, IF x \in DOMAIN txIndex THEN WithBlocks("tx", <<FoundTx(x)>>, prove)
                                        ELSE Fail("tx", "error"))

-----------------------------------------------------------------------------
(* Status reads one field after the other, without any lock.               *)

(* Faulty variant: the height is read first.                               *)
HeightFirst == <<"validator", "height", "hash", "appHash", "time">>

StatusFields == <<"validator", "hash", "appHash", "height", "time">>

Field(name) == CASE name = "validator" -> ValidatorList(CurState.Validators.power)[1]
                 [] name = "hash" -> LastBlock.hash
                 [] name = "appHash" -> LastBlock.appHash
                 [] name = "height" -> LastBlock.height
                 [] name = "time" -> CurState.LastBlockTime

BeginStatus(r) == "status" \in Kinds /\ Begin(r, Call("status", NoParam, 0, StatusFields))

ReadField(r) ==
  LET c == calls[r]
      read == [c EXCEPT !.got = Append(@, Field(c.todo[1])), !.todo = Tail(@),
                        !.height = IF c.todo[1] = "height" THEN LastBlock.height ELSE @]
  IN  /\ Pending(r, {"status"})
      /\ Proceed(r, IF read.todo = <<>> THEN End(read, "ok") ELSE read)

-----------------------------------------------------------------------------
(* SendAbciQuery and SendAbciInfo ask the applications in any order for    *)
(* what they have committed.                                               *)

(* The block that all applications have committed, if there is one.        *)
Agreed == {id \in {apps[c].committed : c \in Clients} : \A c \in Clients : apps[c].committed = id}

BeginAppCall(r) ==
  \E kind \in Kinds \cap AppKinds : Begin(r, [Call(kind, NoParam, 0, <<>>) EXCEPT !.agreed = Agreed])

(* Faulty variant: the answers are not compared.                           *)
AnyAnswers(got) == TRUE

AllEqual(got) == \A i \in DOMAIN got : got[i] = got[1]

(* ABCIInfo dereferences the response although there is none.              *)
FailedCall(kind) == IF kind = "abci_info" THEN "panic" ELSE "error"

AskClient(r) ==
  /\ Pending(r, AppKinds)
  /\ \E client \in Clients \ calls[r].asked :
       LET c == calls[r]
           read == [c EXCEPT !.asked = @ \cup {client}, !.got = Append(@, apps[client].committed)]
       IN  \/ Proceed(r, IF read.asked # Clients THEN read
                         ELSE IF AllEqual(read.got) THEN End([read EXCEPT !.height = read.got[1].height], "ok")
                         ELSE Fail(c.kind, FailedCall(c.kind)))
           \/ QueriesFail /\ Proceed(r, Fail(c.kind, FailedCall(c.kind)))

(* Queries in progress take note of the blocks the applications agree on.  *)
NoteAgreement ==
  calls' = [r \in Readers |-> IF Pending(r, AppKinds) THEN [calls[r] EXCEPT !.agreed = @ \cup Agreed']
                                                      ELSE calls[r]]

-----------------------------------------------------------------------------
ReadStep(r) == ~crashed /\ (CallGetter(r) \/ ReadField(r) \/ AskClient(r))
NewRequest(r) == ~crashed /\ \/ BeginAtHeight(r) \/ BeginSearch(r) \/ BeginTx(r)
                             \/ BeginStatus(r) \/ BeginAppCall(r)

RpcNext ==
  \/ BusNext /\ NoteAgreement /\ UNCHANGED <<reads, seen>>
  \/ /\ \E r \in Readers : NewRequest(r) \/ ReadStep(r)
     /\ UNCHANGED <<vars, busVars>>

RpcSpec == Init /\ BusInit /\ RpcInit /\ [][RpcNext]_<<vars, busVars, rpcVars>>
-----------------------------------------------------------------------------
(* Properties.                                                             *)

Answered(r, kinds) == calls[r].outcome = "ok" /\ calls[r].kind \in kinds

(* A request for an existing height, for the latest height, or for what    *)
(* the index knows finds its entries in the storage, although LastBlock is *)
(* read without the lock: it is assigned after the storage is locked.      *)
AnswersFound == \A r \in Readers : calls[r].outcome # "notFound"

(* Commit locks the storage twice, once for the commit and once for the    *)
(* block, and blocks may be stored in between: the two belong together,    *)
(* and to the height that was asked for.                                   *)
CommitAnswersMatch ==
  \A r \in Readers :
    Answered(r, {"commit"}) => /\ calls[r].got[1].hash = calls[r].got[2].hash
                               /\ calls[r].got[2].height = calls[r].height

(* A request for the latest height never answers with less than an answer  *)
(* to anybody had told when it began, whichever of the stores, the index,  *)
(* the applications and LastBlock that answer came from.                   *)
ReadsGoForward ==
  \A r \in Readers :
    Answered(r, HeightKinds \cup {"status"}) /\ calls[r].want = NoParam =>
      calls[r].height >= calls[r].before

(* SendAbciQuery asks one application after the other while SendCommit     *)
(* reaches them one after the other.  An answer is one that all of them    *)
(* would have given at one moment since the request began.                 *)
QueryAnswersAreSnapshots ==
  \A r \in Readers : Answered(r, AppKinds) => calls[r].got[1] \in calls[r].agreed

Reads(c, name) == c.got[CHOOSE i \in DOMAIN StatusFields : StatusFields[i] = name]

(* A status may mix several blocks, but only in one direction: its height  *)
(* is not below that of the block whose hash it gives, and its time is not *)
(* older than that of the block below.                                     *)
StatusGoesForward ==
  \A r \in Readers :
    Answered(r, {"status"}) =>
      \E hash, time \in DOMAIN blocks :
        /\ blocks[hash].hash = Reads(calls[r], "hash") /\ hash <= calls[r].height
        /\ blocks[time].time = Reads(calls[r], "time") /\ time + 1 >= calls[r].height

(* Whatever the size of a page, the pages of the validators, of the        *)
(* indexed blocks and of the indexed transactions cover each entry once.   *)
PagesPartition ==
  \A total \in {Cardinality(CurrentValidators), Cardinality(blockIndex), Cardinality(DOMAIN txIndex)},
     perPage \in 1..MaxPerPage : Partitioned(total, perPage)

-----------------------------------------------------------------------------
(* Liveness.  The goroutine that holds the lock of the storage and the     *)
(* readers run, and a reader that waits for the lock gets it when it is    *)
(* released.  Block production may stop anywhere else, such as in a call   *)
(* of an application that never returns: ExtendVote has no timeout.        *)
RpcFairness ==
  /\ \A t \in Threads : WF_vars(UpdateStateFromBlock(t)) /\ WF_busSteps(FiringStep(t))
  /\ WF_busVars(Loop) /\ WF_busVars(Indexing)
  /\ \A r \in Readers : SF_rpcVars(ReadStep(r))

FairRpcSpec == RpcSpec /\ RpcFairness

(* Every request is answered, even if no block is ever completed again,    *)
(* unless a refused update or a recovered panic has left the storage       *)
(* locked.                                                                 *)
ReadsReturn ==
  \A r \in Readers :
    calls[r].outcome = "pending" ~>
      (crashed \/ stateUpdateMutex = Leaked \/ calls[r].outcome # "pending")

-----------------------------------------------------------------------------
(* What a comment of the source says and the code does not do.             *)

(* Events are fired after everything else: who has got an event of a block *)
(* and then queries the applications gets an answer from that block on.    *)
EventsComeLast ==
  \A r \in Readers : Answered(r, {"abci_query"}) => calls[r].height >= calls[r].events
=============================================================================
