----------------------------- MODULE RpcProofs ------------------------------
(***************************************************************************)
(* Readers change nothing of what block production and its event bus do,   *)
(* so that what was proved of them still holds; and what readers get holds *)
(* together, although they read without a common lock while blocks are     *)
(* stored, applied and committed.                                          *)
(***************************************************************************)
EXTENDS RpcServer, EventProofs

(* A reader takes no part in block production or in the event bus.         *)
LEMMA RpcStepIsBusStep == [RpcNext]_<<vars, busVars, rpcVars>> => [BusNext]_<<vars, busVars>>
BY Zenon DEF RpcNext

(* So every step of the whole is one of block production or leaves its     *)
(* state alone.                                                            *)
LEMMA RpcStepIsStep == [RpcNext]_<<vars, busVars, rpcVars>> => [Next]_vars
BY RpcStepIsBusStep, BusStepIsStep, Zenon

(* Reads change nothing of what block production, the event bus, the       *)
(* indexer and the subscriptions do: all that is proved of them holds of   *)
(* the whole.                                                              *)
THEOREM ReadersDoNotDisturb == RpcSpec => BusSpec
BY RpcStepIsBusStep, PTL DEF RpcSpec, BusSpec

(* The same, down to block production alone.                               *)
LEMMA RpcIsProduction == RpcSpec => Spec
BY ReadersDoNotDisturb, EventsDoNotDisturb, PTL

-----------------------------------------------------------------------------
(* Requests for a height.                                                  *)

Fields == {"kind", "want", "height", "page", "todo", "got", "asked", "agreed", "events",
           "before", "outcome"}

(* A request is a record with these fields.                                *)
IsCall(c) == c = [f \in Fields |-> c[f]]

(* What a request for a height has left to read is stored, and what it has *)
(* got of a commit is what is stored: for every kind of request but Commit *)
(* there is one getter to call.                                            *)
HeightRead(c) ==
  /\ c.outcome # "notFound"
  /\ c.outcome = "pending" =>
       /\ c.height \in 1..LastBlock.height
       /\ \/ c.todo = Getters(c.kind, c.height) /\ c.got = <<>>
          \/ /\ c.kind = "commit" /\ c.todo = <<<<"blocks", c.height>>>>
             /\ c.got = <<commits[c.height]>>
  /\ c.outcome = "ok" /\ c.kind = "commit" =>
       /\ c.height \in 1..LastBlock.height
       /\ c.got = <<commits[c.height], blocks[c.height]>>

ReadOK(c) == IsCall(c) /\ (c.kind \in HeightKinds => HeightRead(c))

RpcInv == calls = [r \in Readers |-> calls[r]] /\ \A r \in Readers : ReadOK(calls[r])

(* Storing further blocks leaves what requests have read as it is.         *)
LEMMA ReadStaysOK ==
  ASSUME StoresAgree, StoresAgree', NEW c, ReadOK(c),
         \A h \in DOMAIN blocks : /\ h \in DOMAIN blocks' /\ blocks'[h] = blocks[h]
                                  /\ h \in DOMAIN commits' /\ commits'[h] = commits[h]
  PROVE  ReadOK(c)'
<1>1. \A h \in 1..LastBlock.height : h \in 1..LastBlock'.height /\ blocks'[h] = blocks[h] /\ commits'[h] = commits[h]
  BY Zenon DEF StoresAgree
<1>2. QED
  BY <1>1, Zenon DEF ReadOK, IsCall, HeightRead, Getters

(* Requests that are refused, and those of other kinds.                    *)
LEMMA RefusedIsOK ==
  ASSUME NEW kind, NEW outcome, outcome \notin {"pending", "ok"},
         outcome = "notFound" => kind \notin HeightKinds
  PROVE  ReadOK(Fail(kind, outcome))
<1> DEFINE c == Call(kind, NoParam, 0, <<>>)
<1>1. IsCall(c) /\ c.kind = kind
  BY DEF Call, IsCall, Fields
<1> HIDE DEF c
<1>2. IsCall(End(c, outcome)) /\ End(c, outcome).kind = kind /\ End(c, outcome).outcome = outcome
  BY <1>1 DEF End, IsCall, Fields
<1>3. QED
  BY <1>2, Zenon DEF Fail, c, ReadOK, HeightRead

(* Sequences of at most two elements.                                      *)
LEMMA ShortSequences ==
  ASSUME NEW a, NEW b
  PROVE  /\ Tail(<<a>>) = <<>> /\ Tail(<<a, b>>) = <<b>>
         /\ Append(<<>>, a) = <<a>> /\ Append(<<a>>, b) = <<a, b>>
<1> DEFINE t == Append(<<a>>, b)
<1>1. <<a>> \in Seq({a, b}) /\ Len(<<a>>) = 1
  OBVIOUS
<1>2. t \in Seq({a, b}) /\ Len(t) = 2 /\ t[1] = a /\ t[2] = b
  BY <1>1
<1> HIDE DEF t
<1>3. t = [i \in 1..2 |-> t[i]]
  BY <1>2
<1>4. t = <<a, b>>
  BY <1>2, <1>3
<1>5. Tail(<<a>>) = <<>>
  OBVIOUS
<1>6. Tail(<<a, b>>) = <<b>>
  OBVIOUS
<1>7. Append(<<>>, a) = <<a>>
  OBVIOUS
<1>8. QED
  BY <1>4, <1>5, <1>6, <1>7, Zenon DEF t

(* A getter of a request for a height finds its entry.                     *)
LEMMA GetterFinds ==
  ASSUME StoresAgree, NEW r \in Readers, ReadOK(calls[r]), calls[r].kind \in HeightKinds, CallGetter(r)
  PROVE  \E c : calls' = [calls EXCEPT ![r] = c] /\ ReadOK(c)
<1> DEFINE c == calls[r]
           map == Map(c.todo[1][1])
           height == GetterHeight(c)
           read == [c EXCEPT !.got = Append(@, map[height]), !.todo = Tail(@)]
           next == IF height \notin DOMAIN map THEN Fail(c.kind, "notFound")
                   ELSE IF read.todo # <<>> THEN read
                   ELSE IF c.kind = "validators" THEN PageOfValidators(read)
                   ELSE End(read, "ok")
<1>1. calls' = [calls EXCEPT ![r] = next] /\ c.outcome = "pending"
  BY Zenon DEF CallGetter, Proceed, Serve, Pending
<1>2. IsCall(c) /\ HeightRead(c)
  BY Zenon DEF ReadOK
<1>3. /\ read.kind = c.kind /\ read.height = c.height /\ read.outcome = "pending"
      /\ read.todo = Tail(c.todo) /\ read.got = Append(c.got, map[height]) /\ IsCall(read)
  BY <1>1, <1>2 DEF IsCall, Fields
<1>4. ASSUME NEW name \in {"blocks", "commits", "states", "responses"}, c.todo[1] = <<name, c.height>>
      PROVE  height = c.height /\ height \in DOMAIN map /\ map = Map(name)
  <2>1. height = c.height /\ map = Map(name)
    BY <1>4 DEF GetterHeight
  <2>2. DOMAIN Map(name) = 1..LastBlock.height
    BY <1>4 DEF Map, StoresAgree
  <2>3. QED
    BY <1>1, <1>2, <2>1, <2>2, Zenon DEF HeightRead
<1> HIDE DEF read, map, height
<1>5. CASE c.kind = "commit" /\ c.todo = Getters(c.kind, c.height) /\ c.got = <<>>
  <2>1. c.todo = <<<<"commits", c.height>>, <<"blocks", c.height>>>>
    BY <1>5 DEF Getters
  <2>2. height = c.height /\ height \in DOMAIN map /\ map = commits
    BY <1>4, <2>1 DEF Map
  <2>3. read.todo = <<<<"blocks", c.height>>>> /\ read.got = <<commits[c.height]>>
    <3>1. Tail(c.todo) = <<<<"blocks", c.height>>>>
      BY <2>1, ShortSequences
    <3>2. Append(c.got, map[height]) = <<commits[c.height]>>
      BY <1>5, <2>2, ShortSequences, Zenon
    <3>3. QED
      BY <1>3, <3>1, <3>2, Zenon
  <2>4. ReadOK(read)
    BY <1>1, <1>2, <1>3, <1>5, <2>3 DEF ReadOK, HeightRead
  <2>5. next = read
    BY <2>2, <2>3
  <2>6. QED
    BY <1>1, <2>4, <2>5, Zenon
<1>6. CASE c.kind = "commit" /\ c.todo = <<<<"blocks", c.height>>>> /\ c.got = <<commits[c.height]>>
  <2>2. height = c.height /\ height \in DOMAIN map /\ map = blocks
    BY <1>4, <1>6 DEF Map
  <2>3. read.todo = <<>> /\ read.got = <<commits[c.height], blocks[c.height]>>
    <3>1. Tail(c.todo) = <<>>
      BY <1>6, ShortSequences, Zenon
    <3>2. Append(c.got, map[height]) = <<commits[c.height], blocks[c.height]>>
      BY <1>6, <2>2, ShortSequences, Zenon
    <3>3. QED
      BY <1>3, <3>1, <3>2, Zenon
  <2>4. ReadOK(End(read, "ok"))
    BY <1>1, <1>2, <1>3, <1>6, <2>3 DEF ReadOK, HeightRead, IsCall, Fields, End
  <2>5. next = End(read, "ok")
    BY <1>6, <2>2, <2>3
  <2>6. QED
    BY <1>1, <2>4, <2>5, Zenon
<1>7. CASE c.kind # "commit"
  <2>1. PICK name \in {"blocks", "commits", "states", "responses"} : c.todo = <<<<name, c.height>>>>
    BY <1>1, <1>2, <1>7 DEF HeightRead, Getters, HeightKinds
  <2>2. height \in DOMAIN map
    BY <1>4, <2>1
  <2>3. read.todo = <<>>
    BY <1>3, <2>1
  <2>4. ReadOK(End(read, "ok"))
    BY <1>3, <1>7 DEF ReadOK, HeightRead, IsCall, Fields, End
  <2>5. \A list : read.kind = "validators" => ReadOK(End([read EXCEPT !.got = list], "ok"))
    BY <1>3 DEF ReadOK, HeightRead, IsCall, Fields, End
  <2>6. c.kind = "validators" => ReadOK(PageOfValidators(read))
    BY <1>3, <2>5, RefusedIsOK, Zenon DEF PageOfValidators
  <2>7. ReadOK(next)
    BY <2>2, <2>3, <2>4, <2>6, Zenon
  <2>8. QED
    BY <1>1, <2>7, Zenon
<1>8. QED
  BY <1>1, <1>2, <1>5, <1>6, <1>7, Zenon DEF HeightRead

-----------------------------------------------------------------------------
(* The steps of readers.                                                   *)

(* Changing fields of a request other than its kind leaves a request.      *)
LEMMA OtherKindIsOK ==
  ASSUME NEW c, IsCall(c), c.kind \notin HeightKinds,
         NEW todo, NEW got, NEW height, NEW asked, NEW agreed, NEW outcome
  PROVE  /\ ReadOK(c)
         /\ ReadOK([c EXCEPT !.todo = todo])
         /\ ReadOK([c EXCEPT !.agreed = agreed])
         /\ ReadOK([c EXCEPT !.got = got, !.todo = todo])
         /\ ReadOK([c EXCEPT !.got = got, !.todo = todo, !.height = height])
         /\ ReadOK([c EXCEPT !.asked = asked, !.got = got])
         /\ ReadOK([c EXCEPT !.height = height])
         /\ ReadOK([c EXCEPT !.got = got])
         /\ ReadOK(End(c, outcome))
BY DEF ReadOK, IsCall, Fields, End

(* A new request.                                                          *)
LEMMA CallIsCall ==
  ASSUME NEW kind, NEW want, NEW height, NEW todo
  PROVE  /\ IsCall(Call(kind, want, height, todo))
         /\ Call(kind, want, height, todo).kind = kind
         /\ Call(kind, want, height, todo).height = height
         /\ Call(kind, want, height, todo).todo = todo
         /\ Call(kind, want, height, todo).got = <<>>
         /\ Call(kind, want, height, todo).outcome = "pending"
BY DEF Call, IsCall, Fields

(* Every step of a reader leaves it with such a request.                   *)
LEMMA ReadStepOK ==
  ASSUME StoresAgree, NEW r \in Readers, ReadOK(calls[r]), ReadStep(r)
  PROVE  \E c : calls' = [calls EXCEPT ![r] = c] /\ ReadOK(c)
<1> DEFINE c == calls[r]
<1>0. IsCall(c)
  BY Zenon DEF ReadOK
<1>1. CASE CallGetter(r)
  <2>1. CASE c.kind \in HeightKinds
    BY <1>1, <2>1, GetterFinds, Zenon
  <2>2. CASE c.kind \notin HeightKinds
    <3> DEFINE map == Map(c.todo[1][1])
               height == GetterHeight(c)
               read == [c EXCEPT !.got = Append(@, map[height]), !.todo = Tail(@)]
               next == IF height \notin DOMAIN map THEN Fail(c.kind, "notFound")
                       ELSE IF read.todo # <<>> THEN read
                       ELSE IF c.kind = "validators" THEN PageOfValidators(read)
                       ELSE End(read, "ok")
    <3>1. calls' = [calls EXCEPT ![r] = next]
      BY <1>1, Zenon DEF CallGetter, Proceed, Serve
    <3>2. ReadOK(read) /\ read.kind = c.kind
      BY <1>0, <2>2 DEF ReadOK, IsCall, Fields
    <3>3. ReadOK(End(read, "ok"))
      BY <2>2, <3>2, OtherKindIsOK, Zenon DEF ReadOK
    <3>4. c.kind # "validators" /\ ReadOK(Fail(c.kind, "notFound"))
      BY <2>2, RefusedIsOK DEF HeightKinds
    <3>5. ReadOK(next)
      BY <3>2, <3>3, <3>4, Zenon
    <3>6. QED
      BY <3>1, <3>5, Zenon
  <2>3. QED
    BY <2>1, <2>2, Zenon
<1>2. CASE ReadField(r)
  <2> DEFINE read == [c EXCEPT !.got = Append(@, Field(c.todo[1])), !.todo = Tail(@),
                               !.height = IF c.todo[1] = "height" THEN LastBlock.height ELSE @]
             next == IF read.todo = <<>> THEN End(read, "ok") ELSE read
  <2>1. calls' = [calls EXCEPT ![r] = next] /\ c.kind = "status"
    BY <1>2, Zenon DEF ReadField, Proceed, Serve, Pending
  <2>2. ReadOK(read) /\ read.kind \notin HeightKinds
    BY <1>0, <2>1 DEF ReadOK, IsCall, Fields, HeightKinds
  <2>3. ReadOK(next)
    BY <2>2, OtherKindIsOK, Zenon DEF ReadOK
  <2>4. QED
    BY <2>1, <2>3, Zenon
<1>3. CASE AskClient(r)
  <2>1. PICK client \in Clients \ calls[r].asked :
          LET read == [c EXCEPT !.asked = @ \cup {client}, !.got = Append(@, apps[client].committed)]
          IN  \/ Proceed(r, IF read.asked # Clients THEN read
                            ELSE IF AllEqual(read.got) THEN End([read EXCEPT !.height = read.got[1].height], "ok")
                            ELSE Fail(c.kind, FailedCall(c.kind)))
              \/ QueriesFail /\ Proceed(r, Fail(c.kind, FailedCall(c.kind)))
    BY <1>3, Zenon DEF AskClient
  <2> DEFINE read == [c EXCEPT !.asked = @ \cup {client}, !.got = Append(@, apps[client].committed)]
             last == [read EXCEPT !.height = read.got[1].height]
  <2>2. c.kind \in AppKinds
    BY <1>3, Zenon DEF AskClient, Pending
  <2>3. c.kind \notin HeightKinds
    BY <2>2 DEF AppKinds, HeightKinds
  <2>4. IsCall(read) /\ read.kind = c.kind
    BY <1>0 DEF IsCall, Fields
  <2>5. IsCall(last) /\ last.kind = c.kind
    BY <2>4 DEF IsCall, Fields
  <2>6. ReadOK(read) /\ ReadOK(End(last, "ok"))
    BY <2>3, <2>4, <2>5, OtherKindIsOK, Zenon
  <2>7. FailedCall(c.kind) \notin {"pending", "ok", "notFound"}
    BY DEF FailedCall
  <2>8. ReadOK(Fail(c.kind, FailedCall(c.kind)))
    BY <2>3, <2>7, RefusedIsOK, Zenon
  <2>9. QED
    BY <2>1, <2>6, <2>8, Zenon DEF Proceed, Serve
<1>4. QED
  BY <1>1, <1>2, <1>3, Zenon DEF ReadStep

(* So does every new request: a request for a height is accepted only if   *)
(* the height is stored, and the server is up only if there is one.        *)
LEMMA NewRequestOK ==
  ASSUME StateTypeOK, TipInv, NEW r \in Readers, NewRequest(r)
  PROVE  \E c : calls' = [calls EXCEPT ![r] = c] /\ ReadOK(c)
<1>0. \A c : Begin(r, c) => serving /\ calls' = [calls EXCEPT ![r] = c]
  BY Zenon DEF Begin, Serve
<1>1. CASE BeginAtHeight(r)
  <2>1. PICK kind \in HeightKinds, want \in HeightParams, page \in PageParams \cup {NoPage} :
          LET height == getHeight(want)
              c == [Call(kind, want, height, Getters(kind, height)) EXCEPT !.page = page]
          IN  Begin(r, IF HeightIsValid(want) THEN c ELSE Fail(kind, "error"))
    BY <1>1, Zenon DEF BeginAtHeight
  <2> DEFINE height == getHeight(want)
             new == Call(kind, want, height, Getters(kind, height))
             c == [new EXCEPT !.page = page]
  <2>2. serving /\ calls' = [calls EXCEPT ![r] = IF HeightIsValid(want) THEN c ELSE Fail(kind, "error")]
    BY <1>0, <2>1, Zenon
  <2>3. LastBlock.height \in Nat /\ LastBlock.height > 0
    <3>1. LastBlock.height \in Nat /\ CurState.LastBlockHeight \in Nat
      BY Zenon DEF StateTypeOK, ClientTypeOK, IsBlock, State
    <3>2. CurState.LastBlockHeight > 0
      BY <2>2, Zenon DEF TipInv, Unstarted
    <3>3. QED
      BY <3>1, <3>2 DEF TipInv
  <2>4. HeightIsValid(want) => height \in 1..LastBlock.height
    BY <2>3 DEF HeightIsValid, getHeight, LatestHeight
  <2>5. /\ IsCall(new) /\ new.kind = kind /\ new.height = height
        /\ new.todo = Getters(kind, height) /\ new.got = <<>> /\ new.outcome = "pending"
    BY CallIsCall
  <2> HIDE DEF new, height
  <2>6. /\ IsCall(c) /\ c.kind = kind /\ c.height = height
        /\ c.todo = Getters(kind, height) /\ c.got = <<>> /\ c.outcome = "pending"
    BY <2>5 DEF IsCall, Fields
  <2> HIDE DEF c
  <2>7. HeightIsValid(want) => ReadOK(c)
    BY <2>4, <2>6 DEF ReadOK, HeightRead
  <2>8. ReadOK(Fail(kind, "error"))
    BY RefusedIsOK
  <2>9. QED
    BY <2>2, <2>7, <2>8, Zenon
<1>2. ASSUME NEW kind \in SearchKinds, NEW results, NEW prove
      PROVE  ReadOK(WithBlocks(kind, results, prove))
  <2> DEFINE height == Largest({results[i].height : i \in DOMAIN results})
             c == Call(kind, NoParam, height, <<>>)
             d == [c EXCEPT !.got = results]
  <2>1. IsCall(c) /\ c.kind = kind /\ kind \notin HeightKinds
    BY <1>2, CallIsCall DEF SearchKinds, HeightKinds
  <2> HIDE DEF c
  <2>2. IsCall(d) /\ d.kind = kind
    BY <2>1 DEF IsCall, Fields
  <2>3. \A todo : ReadOK([c EXCEPT !.todo = todo])
    BY <2>1, OtherKindIsOK, Zenon
  <2>4. ReadOK(End(d, "ok"))
    BY <2>1, <2>2, OtherKindIsOK, Zenon
  <2>5. QED
    BY <2>3, <2>4, Zenon DEF WithBlocks, c
<1>3. \A kind : ReadOK(Fail(kind, "error"))
  BY RefusedIsOK
<1>4. CASE BeginSearch(r)
  <2>1. PICK kind \in {"block_search", "tx_search"} :
          \E b, results, prove :
            Begin(r, IF b THEN WithBlocks(kind, results, prove) ELSE Fail(kind, "error"))
    BY <1>4, Zenon DEF BeginSearch
  <2>2. PICK b, results, prove :
          Begin(r, IF b THEN WithBlocks(kind, results, prove) ELSE Fail(kind, "error"))
    BY <2>1, Zenon
  <2>3. ReadOK(WithBlocks(kind, results, prove))
    BY <1>2 DEF SearchKinds
  <2>4. QED
    BY <1>0, <1>3, <2>2, <2>3, Zenon
<1>5. CASE BeginTx(r)
  <2>1. PICK x, prove : Begin(r, IF x \in DOMAIN txIndex THEN WithBlocks("tx", <<FoundTx(x)>>, prove)
                                                         ELSE Fail("tx", "error"))
    BY <1>5, Zenon DEF BeginTx
  <2>2. ReadOK(WithBlocks("tx", <<FoundTx(x)>>, prove))
    BY <1>2 DEF SearchKinds
  <2>3. QED
    BY <1>0, <1>3, <2>1, <2>2, Zenon
<1>6. ASSUME NEW kind, kind \notin HeightKinds, NEW todo
      PROVE  ReadOK(Call(kind, NoParam, 0, todo))
  BY <1>6, CallIsCall DEF ReadOK
<1>7. CASE BeginStatus(r)
  <2>1. "status" \notin HeightKinds
    BY DEF HeightKinds
  <2>2. QED
    BY <1>0, <1>6, <1>7, <2>1 DEF BeginStatus
<1>8. CASE BeginAppCall(r)
  <2>1. PICK kind \in AppKinds : Begin(r, [Call(kind, NoParam, 0, <<>>) EXCEPT !.agreed = Agreed])
    BY <1>8, Zenon DEF BeginAppCall
  <2> DEFINE c == Call(kind, NoParam, 0, <<>>)
  <2>2. kind \notin HeightKinds
    BY DEF AppKinds, HeightKinds
  <2>3. IsCall(c) /\ c.kind = kind
    BY CallIsCall
  <2>4. ReadOK([c EXCEPT !.agreed = Agreed])
    BY <2>2, <2>3, OtherKindIsOK, Zenon
  <2>5. QED
    BY <1>0, <2>1, <2>4, Zenon
<1>9. QED
  BY <1>1, <1>4, <1>5, <1>7, <1>8, Zenon DEF NewRequest

-----------------------------------------------------------------------------
(* The invariant of the requests, relative to those of the storage.        *)

(* No request is served at first.                                          *)
LEMMA InitRpc == RpcInit => RpcInv
<1> DEFINE c == Call("status", NoParam, 0, <<>>)
<1>1. IsCall(c) /\ c.kind = "status" /\ "status" \notin HeightKinds
  BY CallIsCall DEF HeightKinds
<1>2. ReadOK(End(c, "none"))
  BY <1>1, OtherKindIsOK, Zenon
<1>3. RpcInit => calls = [r \in Readers |-> End(c, "none")]
  BY Zenon DEF RpcInit, End
<1> HIDE DEF c
<1>4. QED
  BY <1>2, <1>3, Zenon DEF RpcInv

(* Block production stores blocks while requests are served, and readers   *)
(* take steps while blocks are stored.                                     *)
LEMMA StepRpc ==
  ASSUME StateTypeOK, StoresAgree, StoresAgree', TipInv, RpcInv, [StoresKept]_vars,
         [RpcNext]_<<vars, busVars, rpcVars>>
  PROVE  RpcInv'
<1>0. calls = [r \in Readers |-> calls[r]] /\ \A r \in Readers : ReadOK(calls[r])
  BY Zenon DEF RpcInv
<1>1. \A h \in DOMAIN blocks : /\ h \in DOMAIN blocks' /\ blocks'[h] = blocks[h]
                              /\ h \in DOMAIN commits' /\ commits'[h] = commits[h]
  BY Zenon DEF StoresKept, vars, storageVars, StoresAgree
<1>2. ASSUME NEW c, ReadOK(c) PROVE ReadOK(c)'
  BY <1>1, <1>2, ReadStaysOK, Zenon
<1>3. ASSUME NEW r, NEW c, calls'[r] = c, ReadOK(c)' PROVE ReadOK(calls[r])'
  BY <1>3 DEF ReadOK, IsCall, Fields, HeightRead, Getters
<1>4. CASE BusNext /\ NoteAgreement
  <2>1. calls' = [r \in Readers |-> IF Pending(r, AppKinds)
                                     THEN [calls[r] EXCEPT !.agreed = @ \cup Agreed'] ELSE calls[r]]
    BY <1>4, Zenon DEF NoteAgreement
  <2>2. ASSUME NEW r \in Readers PROVE \E c : calls'[r] = c /\ ReadOK(c)
    <3>1. CASE Pending(r, AppKinds)
      <4>1. IsCall(calls[r]) /\ calls[r].kind \in AppKinds
        BY <1>0, <3>1, Zenon DEF ReadOK, Pending
      <4>2. calls[r].kind \notin HeightKinds
        BY <4>1 DEF AppKinds, HeightKinds
      <4>3. ReadOK([calls[r] EXCEPT !.agreed = calls[r].agreed \cup Agreed'])
        BY <4>1, <4>2, OtherKindIsOK, Zenon
      <4>4. QED
        BY <2>1, <3>1, <4>3, Zenon
    <3>2. CASE ~Pending(r, AppKinds)
      BY <1>0, <2>1, <3>2, Zenon
    <3>3. QED
      BY <3>1, <3>2, Zenon
  <2>3. \A r \in Readers : ReadOK(calls[r])'
    BY <1>2, <1>3, <2>2, Zenon
  <2>4. calls' = [r \in Readers |-> calls'[r]]
    BY <2>1, Zenon
  <2>5. QED
    BY <2>3, <2>4, Zenon DEF RpcInv
<1>5. ASSUME NEW r \in Readers, NewRequest(r) \/ ReadStep(r) PROVE RpcInv'
  <2>1. PICK c : calls' = [calls EXCEPT ![r] = c] /\ ReadOK(c)
    BY <1>0, <1>5, NewRequestOK, ReadStepOK, Zenon
  <2>2. calls' = [s \in Readers |-> IF s = r THEN c ELSE calls[s]]
    BY <1>0, <2>1
  <2>3. \A s \in Readers : \E d : calls'[s] = d /\ ReadOK(d)
    BY <1>0, <2>1, <2>2, Zenon
  <2>4. \A s \in Readers : ReadOK(calls[s])'
    BY <1>2, <1>3, <2>3, Zenon
  <2>5. calls' = [s \in Readers |-> calls'[s]]
    BY <2>2, Zenon
  <2>6. QED
    BY <2>4, <2>5, Zenon DEF RpcInv
<1>6. CASE UNCHANGED <<vars, busVars, rpcVars>>
  <2>1. calls' = calls
    BY <1>6, Zenon DEF rpcVars
  <2>2. \A s \in Readers : ReadOK(calls[s])'
    BY <1>0, <1>2, <1>3, <2>1, Zenon
  <2>3. QED
    BY <1>0, <2>1, <2>2, Zenon DEF RpcInv
<1>7. QED
  BY <1>4, <1>5, <1>6, Zenon DEF RpcNext

(* Whatever is being stored, a request for a height has read, and will     *)
(* read, what is stored at that height.                                    *)
LEMMA RpcInvHolds == RpcSpec => []RpcInv
<1>1. RpcSpec => Spec
  BY RpcIsProduction
<1>2. Spec => [][StoresKept]_vars
  BY StoresAreKept
<1>3. QED
  BY <1>1, <1>2, InitRpc, StepRpc, StateTypeCorrect, StorageIsConsistent, TipInvHolds, PTL DEF RpcSpec

(* The two reads of Commit, each under a lock of its own, return a block   *)
(* and the commit for it, at the height that was asked for.                *)
THEOREM CommitsMatchBlocks == RpcSpec => []CommitAnswersMatch
<1>1. ASSUME RpcInv, StoresAgree, NEW r \in Readers, Answered(r, {"commit"})
      PROVE  /\ calls[r].got[1].hash = calls[r].got[2].hash
             /\ calls[r].got[2].height = calls[r].height
  <2> DEFINE h == calls[r].height
  <2>1. calls[r].outcome = "ok" /\ calls[r].kind = "commit"
    BY <1>1 DEF Answered
  <2>2. h \in 1..LastBlock.height /\ calls[r].got = <<commits[h], blocks[h]>>
    BY <1>1, <2>1 DEF RpcInv, ReadOK, HeightRead, HeightKinds
  <2>3. commits[h].hash = blocks[h].hash /\ blocks[h].height = h
    BY <1>1, <2>2, Zenon DEF StoresAgree
  <2>4. QED
    BY <2>2, <2>3
<1>2. RpcInv /\ StoresAgree => CommitAnswersMatch
  BY <1>1, Zenon DEF CommitAnswersMatch
<1>3. QED
  BY <1>2, RpcInvHolds, RpcIsProduction, StorageIsConsistent, PTL

-----------------------------------------------------------------------------
(* Status, and requests to the applications.                               *)

(* A reader that does not serve one of them has a request of another kind, *)
(* or keeps what it has.                                                   *)
LEMMA OtherReaders ==
  ASSUME RpcInv, RpcNext, ~(BusNext /\ NoteAgreement), NEW s \in Readers
  PROVE  \/ calls'[s] = calls[s]
         \/ BeginStatus(s) \/ ReadField(s) \/ BeginAppCall(s) \/ AskClient(s)
         \/ calls'[s].kind \in HeightKinds \cup SearchKinds
<1>1. PICK r \in Readers : NewRequest(r) \/ ReadStep(r)
  BY Zenon DEF RpcNext
<1>2. calls = [q \in Readers |-> calls[q]] /\ IsCall(calls[r])
  BY Zenon DEF RpcInv, ReadOK
<1>3. ASSUME NEW c, Serve(r, c), c.kind \in HeightKinds \cup SearchKinds
      PROVE  calls'[s] = calls[s] \/ calls'[s].kind \in HeightKinds \cup SearchKinds
  <2>1. calls' = [q \in Readers |-> IF q = r THEN c ELSE calls[q]]
    BY <1>2, <1>3 DEF Serve
  <2>2. QED
    BY <1>3, <2>1, Zenon
<1>4. ASSUME NEW c, Serve(r, c), s # r PROVE calls'[s] = calls[s]
  <2>1. calls' = [q \in Readers |-> IF q = r THEN c ELSE calls[q]]
    BY <1>2, <1>4 DEF Serve
  <2>2. QED
    BY <1>4, <2>1, Zenon
<1>5. \A kind, outcome : Fail(kind, outcome).kind = kind
  BY DEF Fail, End, Call
<1>6. CASE CallGetter(r)
  <2> DEFINE c == calls[r]
             map == Map(c.todo[1][1])
             height == GetterHeight(c)
             read == [c EXCEPT !.got = Append(@, map[height]), !.todo = Tail(@)]
             next == IF height \notin DOMAIN map THEN Fail(c.kind, "notFound")
                     ELSE IF read.todo # <<>> THEN read
                     ELSE IF c.kind = "validators" THEN PageOfValidators(read)
                     ELSE End(read, "ok")
  <2>1. Serve(r, next) /\ c.kind \in HeightKinds \cup SearchKinds
    BY <1>6, Zenon DEF CallGetter, Proceed, Pending
  <2>2. IsCall(read) /\ read.kind = c.kind
    BY <1>2 DEF IsCall, Fields
  <2> HIDE DEF read
  <2>3. End(read, "ok").kind = c.kind /\ \A list : End([read EXCEPT !.got = list], "ok").kind = c.kind
    BY <2>2 DEF IsCall, Fields, End
  <2>4. PageOfValidators(read).kind \in {c.kind, "validators"}
    BY <1>5, <2>3, Zenon DEF PageOfValidators
  <2>5. next.kind \in HeightKinds \cup SearchKinds
    BY <1>5, <2>1, <2>2, <2>3, <2>4, Zenon
  <2>6. QED
    BY <1>3, <2>1, <2>5, Zenon
<1>7. CASE BeginAtHeight(r)
  <2>1. PICK kind \in HeightKinds : \E want, height, todo, page :
          Begin(r, IF HeightIsValid(want) THEN [Call(kind, want, height, todo) EXCEPT !.page = page]
                                          ELSE Fail(kind, "error"))
    BY <1>7, Zenon DEF BeginAtHeight
  <2>2. PICK want, height, todo, page :
          Begin(r, IF HeightIsValid(want) THEN [Call(kind, want, height, todo) EXCEPT !.page = page]
                                          ELSE Fail(kind, "error"))
    BY <2>1, Zenon
  <2> DEFINE valid == [Call(kind, want, height, todo) EXCEPT !.page = page]
             c == IF HeightIsValid(want) THEN valid ELSE Fail(kind, "error")
  <2>3. Serve(r, c)
    BY <2>2, Zenon DEF Begin
  <2>4. valid.kind = kind
    BY DEF Call
  <2> HIDE DEF valid
  <2>5. c.kind = kind
    BY <1>5, <2>4, Zenon
  <2> HIDE DEF c
  <2>6. QED
    BY <1>3, <2>3, <2>5, Zenon
<1>8. ASSUME NEW kind \in SearchKinds, NEW results, NEW prove PROVE WithBlocks(kind, results, prove).kind = kind
  <2>1. \A height, todo : [Call(kind, NoParam, height, <<>>) EXCEPT !.todo = todo].kind = kind
    BY DEF Call
  <2>2. \A height, got : End([Call(kind, NoParam, height, <<>>) EXCEPT !.got = got], "ok").kind = kind
    BY DEF Call, End
  <2>3. QED
    BY <2>1, <2>2, Zenon DEF WithBlocks
<1>9. CASE BeginSearch(r)
  <2>1. PICK kind \in {"block_search", "tx_search"} :
          \E b, results, prove :
            Begin(r, IF b THEN WithBlocks(kind, results, prove) ELSE Fail(kind, "error"))
    BY <1>9, Zenon DEF BeginSearch
  <2>2. kind \in SearchKinds
    BY DEF SearchKinds
  <2>3. PICK b, results, prove :
          Begin(r, IF b THEN WithBlocks(kind, results, prove) ELSE Fail(kind, "error"))
    BY <2>1, Zenon
  <2> DEFINE c == IF b THEN WithBlocks(kind, results, prove) ELSE Fail(kind, "error")
  <2>4. c.kind = kind
    BY <1>5, <1>8, <2>2, Zenon
  <2>5. Serve(r, c)
    BY <2>3, Zenon DEF Begin
  <2> HIDE DEF c
  <2>6. QED
    BY <1>3, <2>2, <2>4, <2>5, Zenon
<1>10. CASE BeginTx(r)
  <2>1. PICK x, prove : Begin(r, IF x \in DOMAIN txIndex THEN WithBlocks("tx", <<FoundTx(x)>>, prove)
                                                         ELSE Fail("tx", "error"))
    BY <1>10, Zenon DEF BeginTx
  <2>2. "tx" \in SearchKinds
    BY DEF SearchKinds
  <2> DEFINE c == IF x \in DOMAIN txIndex THEN WithBlocks("tx", <<FoundTx(x)>>, prove) ELSE Fail("tx", "error")
  <2>3. c.kind = "tx"
    BY <1>5, <1>8, <2>2, Zenon
  <2>4. Serve(r, c)
    BY <2>1, Zenon DEF Begin
  <2> HIDE DEF c
  <2>5. QED
    BY <1>3, <2>2, <2>3, <2>4, Zenon
<1>11. CASE BeginStatus(r) \/ ReadField(r) \/ BeginAppCall(r) \/ AskClient(r)
  <2>1. \E c : Serve(r, c)
    BY <1>11, Zenon DEF BeginStatus, ReadField, BeginAppCall, AskClient, Begin, Proceed
  <2>2. QED
    BY <1>4, <1>11, <2>1, Zenon
<1>12. QED
  BY <1>1, <1>6, <1>7, <1>9, <1>10, <1>11, Zenon DEF NewRequest, ReadStep

(* What a status has read so far: the hash of a stored block, a height not *)
(* below it, and at last the time of a block that is at most one below.    *)
StatusRead(c) ==
  /\ c.outcome = "pending" =>
       /\ CurState.LastBlockHeight > 0
       /\ \/ c.todo = StatusFields /\ c.got = <<>>
          \/ c.todo = <<"hash", "appHash", "height", "time">> /\ \E v : c.got = <<v>>
          \/ /\ c.todo = <<"appHash", "height", "time">>
             /\ \E v, h : h \in DOMAIN blocks /\ c.got = <<v, blocks[h].hash>>
          \/ /\ c.todo = <<"height", "time">>
             /\ \E v, h, a : h \in DOMAIN blocks /\ c.got = <<v, blocks[h].hash, a>>
          \/ /\ c.todo = <<"time">>
             /\ c.height \in Nat /\ c.height <= CurState.LastBlockHeight + 1
             /\ \E v, h, a : /\ h \in DOMAIN blocks /\ h <= c.height
                             /\ c.got = <<v, blocks[h].hash, a, c.height>>
  /\ c.outcome = "ok" =>
       \E v, h, a, k : /\ h \in DOMAIN blocks /\ k \in DOMAIN blocks /\ h <= c.height /\ c.height <= k + 1
                      /\ c.got = <<v, blocks[h].hash, a, c.height, blocks[k].time>>

StatusOK(c) == c.kind = "status" => StatusRead(c)
StatusInv == \A r \in Readers : StatusOK(calls[r])

(* What has been read stays right while blocks are stored and applied.     *)
LEMMA StatusStaysOK ==
  ASSUME NEW c, StatusOK(c), CurState.LastBlockHeight \in Nat, CurState'.LastBlockHeight \in Nat,
         CurState.LastBlockHeight <= CurState'.LastBlockHeight,
         \A h \in DOMAIN blocks : h \in DOMAIN blocks' /\ blocks'[h] = blocks[h]
  PROVE  StatusOK(c)'
<1>1. CurState.LastBlockHeight > 0 => CurState'.LastBlockHeight > 0
  OBVIOUS
<1>2. ASSUME NEW n \in Nat, n <= CurState.LastBlockHeight + 1 PROVE n <= CurState'.LastBlockHeight + 1
  BY <1>2
<1>3. ASSUME c.kind = "status", c.outcome = "ok" PROVE StatusRead(c)'
  <2>1. PICK v, h, a, k :
          /\ h \in DOMAIN blocks /\ k \in DOMAIN blocks /\ h <= c.height /\ c.height <= k + 1
          /\ c.got = <<v, blocks[h].hash, a, c.height, blocks[k].time>>
    BY <1>3, Zenon DEF StatusOK, StatusRead
  <2>2. /\ h \in DOMAIN blocks' /\ k \in DOMAIN blocks'
        /\ c.got = <<v, blocks'[h].hash, a, c.height, blocks'[k].time>>
    BY <2>1, Zenon
  <2>3. c.outcome # "pending"
    BY <1>3
  <2>4. QED
    BY <2>1, <2>2, <2>3, Zenon DEF StatusRead
<1>4. ASSUME c.kind = "status", c.outcome = "pending" PROVE StatusRead(c)'
  <2>1. CurState.LastBlockHeight > 0 /\ c.outcome # "ok"
    BY <1>4 DEF StatusOK, StatusRead
  <2>2. CASE (c.todo = StatusFields /\ c.got = <<>>)
             \/ (c.todo = <<"hash", "appHash", "height", "time">> /\ \E v : c.got = <<v>>)
    BY <1>1, <2>1, <2>2, Zenon DEF StatusRead, StatusFields
  <2>3. CASE /\ c.todo = <<"appHash", "height", "time">>
             /\ \E v, h : h \in DOMAIN blocks /\ c.got = <<v, blocks[h].hash>>
    <3>1. \E v, h : h \in DOMAIN blocks' /\ c.got = <<v, blocks'[h].hash>>
      BY <2>3, Zenon
    <3>2. QED
      BY <1>1, <2>1, <2>3, <3>1, Zenon DEF StatusRead
  <2>4. CASE /\ c.todo = <<"height", "time">>
             /\ \E v, h, a : h \in DOMAIN blocks /\ c.got = <<v, blocks[h].hash, a>>
    <3>1. \E v, h, a : h \in DOMAIN blocks' /\ c.got = <<v, blocks'[h].hash, a>>
      BY <2>4, Zenon
    <3>2. QED
      BY <1>1, <2>1, <2>4, <3>1, Zenon DEF StatusRead
  <2>5. CASE /\ c.todo = <<"time">>
             /\ c.height \in Nat /\ c.height <= CurState.LastBlockHeight + 1
             /\ \E v, h, a : /\ h \in DOMAIN blocks /\ h <= c.height
                             /\ c.got = <<v, blocks[h].hash, a, c.height>>
    <3>1. \E v, h, a : /\ h \in DOMAIN blocks' /\ h <= c.height
                      /\ c.got = <<v, blocks'[h].hash, a, c.height>>
      BY <2>5, Zenon
    <3>2. c.height <= CurState'.LastBlockHeight + 1
      BY <1>2, <2>5, Zenon
    <3>3. QED
      BY <1>1, <2>1, <2>5, <3>1, <3>2, Zenon DEF StatusRead
  <2>6. QED
    BY <1>4, <2>2, <2>3, <2>4, <2>5, Zenon DEF StatusOK, StatusRead
<1>5. ASSUME c.outcome \notin {"pending", "ok"} PROVE StatusRead(c)'
  BY <1>5, Zenon DEF StatusRead
<1>6. QED
  BY <1>3, <1>4, <1>5, Zenon DEF StatusOK

(* Longer sequences.                                                       *)
LEMMA LongerSequences ==
  /\ \A a, b, c : Append(<<a, b>>, c) = <<a, b, c>>
  /\ \A a, b, c, d : Append(<<a, b, c>>, d) = <<a, b, c, d>>
  /\ \A a, b, c, d, e : Append(<<a, b, c, d>>, e) = <<a, b, c, d, e>>
<1>1. ASSUME NEW S, NEW s \in Seq(S), NEW t \in Seq(S), Len(s) = Len(t), \A i \in 1..Len(s) : s[i] = t[i]
      PROVE  s = t
  <2>1. s = [i \in 1..Len(s) |-> s[i]] /\ t = [i \in 1..Len(t) |-> t[i]]
    OBVIOUS
  <2>2. QED
    BY <1>1, <2>1
<1>2. ASSUME NEW a, NEW b, NEW c PROVE Append(<<a, b>>, c) = <<a, b, c>>
  <2>1. <<a, b>> \in Seq({a, b, c}) /\ <<a, b, c>> \in Seq({a, b, c})
    OBVIOUS
  <2>2. Append(<<a, b>>, c) \in Seq({a, b, c}) /\ Len(Append(<<a, b>>, c)) = 3
        /\ \A i \in 1..3 : Append(<<a, b>>, c)[i] = <<a, b, c>>[i]
    BY <2>1
  <2>3. QED
    BY <1>1, <2>1, <2>2
<1>3. ASSUME NEW a, NEW b, NEW c, NEW d PROVE Append(<<a, b, c>>, d) = <<a, b, c, d>>
  <2>1. <<a, b, c>> \in Seq({a, b, c, d}) /\ <<a, b, c, d>> \in Seq({a, b, c, d})
    OBVIOUS
  <2>2. Append(<<a, b, c>>, d) \in Seq({a, b, c, d}) /\ Len(Append(<<a, b, c>>, d)) = 4
        /\ \A i \in 1..4 : Append(<<a, b, c>>, d)[i] = <<a, b, c, d>>[i]
    BY <2>1
  <2>3. QED
    BY <1>1, <2>1, <2>2
<1>4. ASSUME NEW a, NEW b, NEW c, NEW d, NEW e PROVE Append(<<a, b, c, d>>, e) = <<a, b, c, d, e>>
  <2>1. <<a, b, c, d>> \in Seq({a, b, c, d, e}) /\ <<a, b, c, d, e>> \in Seq({a, b, c, d, e})
    OBVIOUS
  <2>2. Append(<<a, b, c, d>>, e) \in Seq({a, b, c, d, e}) /\ Len(Append(<<a, b, c, d>>, e)) = 5
        /\ \A i \in 1..5 : Append(<<a, b, c, d>>, e)[i] = <<a, b, c, d, e>>[i]
    BY <2>1
  <2>3. QED
    BY <1>1, <2>1, <2>2
<1>5. QED
  BY <1>2, <1>3, <1>4, Zenon

(* The next field of a status.                                             *)
LEMMA FieldRead ==
  ASSUME StateTypeOK, StoresAgree, TipInv, NEW r \in Readers, IsCall(calls[r]), StatusOK(calls[r]),
         ReadField(r)
  PROVE  \E c : calls' = [calls EXCEPT ![r] = c] /\ StatusOK(c)
<1> DEFINE c == calls[r]
           read == [c EXCEPT !.got = Append(@, Field(c.todo[1])), !.todo = Tail(@),
                             !.height = IF c.todo[1] = "height" THEN LastBlock.height ELSE @]
           next == IF read.todo = <<>> THEN End(read, "ok") ELSE read
           LBH == CurState.LastBlockHeight
<1>1. calls' = [calls EXCEPT ![r] = next] /\ c.kind = "status" /\ c.outcome = "pending"
  BY Zenon DEF ReadField, Proceed, Serve, Pending
<1>2. /\ IsCall(read) /\ read.kind = "status" /\ read.outcome = "pending"
      /\ read.todo = Tail(c.todo) /\ read.got = Append(c.got, Field(c.todo[1]))
      /\ read.height = IF c.todo[1] = "height" THEN LastBlock.height ELSE c.height
  BY <1>1 DEF IsCall, Fields
<1>3. StatusRead(c) /\ LBH > 0
  BY <1>1, Zenon DEF StatusOK, StatusRead
<1>4. /\ LBH \in Nat /\ LastBlock.height \in Nat /\ LastBlock.height > 0
      /\ LBH <= LastBlock.height /\ LastBlock.height <= LBH + 1
  <2>1. LBH \in Nat /\ LastBlock.height \in Nat
    BY Zenon DEF StateTypeOK, ClientTypeOK, IsBlock, State
  <2>2. QED
    BY <1>3, <2>1 DEF TipInv
<1>5. /\ LastBlock.height \in DOMAIN blocks /\ LastBlock = blocks[LastBlock.height]
      /\ LBH \in DOMAIN blocks /\ CurState.LastBlockTime = blocks[LBH].time
      /\ \A h \in DOMAIN blocks : h <= LastBlock.height
  BY <1>3, <1>4 DEF StoresAgree, TipInv
<1>6. /\ Field("hash") = blocks[LastBlock.height].hash /\ Field("height") = LastBlock.height
      /\ Field("time") = blocks[LBH].time
  BY <1>5 DEF Field
<1> HIDE DEF read
<1>7. ASSUME read.todo # <<>>, StatusRead(read) PROVE \E d : calls' = [calls EXCEPT ![r] = d] /\ StatusOK(d)
  BY <1>1, <1>7, Zenon DEF StatusOK
<1>8. CASE c.todo = StatusFields /\ c.got = <<>>
  <2>1. Tail(c.todo) = <<"hash", "appHash", "height", "time">>
    BY <1>8 DEF StatusFields
  <2>2. Append(c.got, Field(c.todo[1])) = <<Field(c.todo[1])>>
    BY <1>8, ShortSequences, Zenon
  <2>3. <<"hash", "appHash", "height", "time">> # <<>>
    OBVIOUS
  <2>4. QED
    BY <1>2, <1>3, <1>7, <2>1, <2>2, <2>3, Zenon DEF StatusRead
<1>9. CASE c.todo = <<"hash", "appHash", "height", "time">> /\ \E v : c.got = <<v>>
  <2>1. PICK v : c.got = <<v>>
    BY Zenon, <1>9
  <2>2. Tail(c.todo) = <<"appHash", "height", "time">> /\ c.todo[1] = "hash"
    BY <1>9
  <2>3. Append(c.got, Field("hash")) = <<v, blocks[LastBlock.height].hash>>
    BY <1>6, <2>1, ShortSequences, Zenon
  <2>4. <<"appHash", "height", "time">> # <<>>
    OBVIOUS
  <2>5. QED
    BY <1>2, <1>3, <1>5, <1>7, <2>2, <2>3, <2>4, Zenon DEF StatusRead
<1>10. CASE /\ c.todo = <<"appHash", "height", "time">>
            /\ \E v, h : h \in DOMAIN blocks /\ c.got = <<v, blocks[h].hash>>
  <2>1. PICK v, h : h \in DOMAIN blocks /\ c.got = <<v, blocks[h].hash>>
    BY Zenon, <1>10
  <2>2. Tail(c.todo) = <<"height", "time">> /\ c.todo[1] = "appHash"
    BY <1>10
  <2>3. Append(c.got, Field("appHash")) = <<v, blocks[h].hash, Field("appHash")>>
    BY <2>1, LongerSequences, Zenon
  <2>4. <<"height", "time">> # <<>>
    OBVIOUS
  <2>5. QED
    BY <1>2, <1>3, <1>7, <2>1, <2>2, <2>3, <2>4, Zenon DEF StatusRead
<1>11. CASE /\ c.todo = <<"height", "time">>
            /\ \E v, h, a : h \in DOMAIN blocks /\ c.got = <<v, blocks[h].hash, a>>
  <2>1. PICK v, h, a : h \in DOMAIN blocks /\ c.got = <<v, blocks[h].hash, a>>
    BY Zenon, <1>11
  <2>2. Tail(c.todo) = <<"time">> /\ c.todo[1] = "height"
    BY <1>11
  <2>3. Append(c.got, Field("height")) = <<v, blocks[h].hash, a, LastBlock.height>>
    <3>1. Field("height") = LastBlock.height
      BY <1>6, Zenon
    <3>2. Append(<<v, blocks[h].hash, a>>, LastBlock.height) = <<v, blocks[h].hash, a, LastBlock.height>>
      BY LongerSequences, Zenon
    <3>3. QED
      BY <2>1, <3>1, <3>2, Zenon
  <2>4. read.height = LastBlock.height /\ h <= LastBlock.height
    BY <1>2, <1>5, <2>1, <2>2, Zenon
  <2>5. <<"time">> # <<>>
    OBVIOUS
  <2>6. QED
    BY <1>2, <1>3, <1>4, <1>7, <2>1, <2>2, <2>3, <2>4, <2>5, Zenon DEF StatusRead
<1>12. CASE /\ c.todo = <<"time">>
            /\ c.height \in Nat /\ c.height <= LBH + 1
            /\ \E v, h, a : /\ h \in DOMAIN blocks /\ h <= c.height
                            /\ c.got = <<v, blocks[h].hash, a, c.height>>
  <2>1. PICK v, h, a : /\ h \in DOMAIN blocks /\ h <= c.height
                       /\ c.got = <<v, blocks[h].hash, a, c.height>>
    BY Zenon, <1>12
  <2>2. Tail(c.todo) = <<>> /\ c.todo[1] = "time" /\ "time" # "height"
    BY <1>12
  <2>3. Append(c.got, Field("time")) = <<v, blocks[h].hash, a, c.height, blocks[LBH].time>>
    <3>1. Field("time") = blocks[LBH].time
      BY <1>6, Zenon
    <3>2. Append(<<v, blocks[h].hash, a, c.height>>, blocks[LBH].time) =
            <<v, blocks[h].hash, a, c.height, blocks[LBH].time>>
      BY LongerSequences
    <3>3. QED
      BY <2>1, <3>1, <3>2, Zenon
  <2>4. /\ read.got = <<v, blocks[h].hash, a, read.height, blocks[LBH].time>>
        /\ read.height = c.height /\ next = End(read, "ok")
    BY <1>2, <2>2, <2>3, Zenon
  <2>5. /\ End(read, "ok").outcome = "ok" /\ End(read, "ok").got = read.got
        /\ End(read, "ok").height = read.height
    BY <1>2 DEF End, IsCall, Fields
  <2>6. StatusRead(End(read, "ok"))
    BY <1>5, <1>12, <2>1, <2>4, <2>5, Zenon DEF StatusRead
  <2>7. QED
    BY <1>1, <2>4, <2>6, Zenon DEF StatusOK
<1>13. QED
  BY <1>1, <1>3, <1>8, <1>9, <1>10, <1>11, <1>12, Zenon DEF StatusRead

(* Asking an application leaves a request to the applications.             *)
LEMMA AskKeepsKind ==
  ASSUME NEW r \in Readers, IsCall(calls[r]), AskClient(r)
  PROVE  \E c : calls' = [calls EXCEPT ![r] = c] /\ c.kind \in AppKinds
<1> DEFINE c == calls[r]
<1>1. PICK client :
        LET read == [c EXCEPT !.asked = @ \cup {client}, !.got = Append(@, apps[client].committed)]
        IN  \/ Proceed(r, IF read.asked # Clients THEN read
                          ELSE IF AllEqual(read.got) THEN End([read EXCEPT !.height = read.got[1].height], "ok")
                          ELSE Fail(c.kind, FailedCall(c.kind)))
            \/ QueriesFail /\ Proceed(r, Fail(c.kind, FailedCall(c.kind)))
  BY Zenon DEF AskClient
<1> DEFINE read == [c EXCEPT !.asked = @ \cup {client}, !.got = Append(@, apps[client].committed)]
           last == [read EXCEPT !.height = read.got[1].height]
<1>2. c.kind \in AppKinds
  BY Zenon DEF AskClient, Pending
<1>3. IsCall(read) /\ read.kind = c.kind
  BY DEF IsCall, Fields
<1>4. End(last, "ok").kind = c.kind
  BY <1>3 DEF IsCall, Fields, End
<1>5. Fail(c.kind, FailedCall(c.kind)).kind = c.kind
  BY DEF Fail, End, Call
<1>6. QED
  BY <1>1, <1>2, <1>3, <1>4, <1>5, Zenon DEF Proceed, Serve

(* Every step keeps what the requests for a status have read.              *)
LEMMA StepStatus ==
  ASSUME StateTypeOK, StorageInv, TipInv, RpcInv, StatusInv, [StoresKept]_vars,
         [RpcNext]_<<vars, busVars, rpcVars>>
  PROVE  StatusInv'
<1>1. \A h \in DOMAIN blocks : h \in DOMAIN blocks' /\ blocks'[h] = blocks[h]
  BY Zenon DEF StoresKept, vars, storageVars
<1>2. /\ CurState.LastBlockHeight \in Nat /\ CurState'.LastBlockHeight \in Nat
      /\ CurState.LastBlockHeight <= CurState'.LastBlockHeight
  BY RpcStepIsStep, StateGrows, Zenon
<1>3. ASSUME NEW c, StatusOK(c) PROVE StatusOK(c)'
  BY <1>1, <1>2, <1>3, StatusStaysOK, Zenon
<1>4. ASSUME NEW r, NEW c, calls'[r] = c, StatusOK(c)' PROVE StatusOK(calls[r])'
  BY <1>4, Zenon DEF StatusOK, StatusRead
<1>5. calls = [q \in Readers |-> calls[q]] /\ \A r \in Readers : IsCall(calls[r]) /\ StatusOK(calls[r])
  BY Zenon DEF RpcInv, ReadOK, StatusInv
<1>6. ASSUME NEW r \in Readers PROVE \E c : calls'[r] = c /\ StatusOK(c)
  <2>1. CASE UNCHANGED calls
    BY <1>5, <2>1, Zenon
  <2>2. CASE BusNext /\ NoteAgreement
    <3>1. calls'[r] = IF Pending(r, AppKinds) THEN [calls[r] EXCEPT !.agreed = @ \cup Agreed'] ELSE calls[r]
      BY <2>2, Zenon DEF NoteAgreement
    <3>2. CASE Pending(r, AppKinds)
      <4>1. calls'[r].kind = calls[r].kind /\ calls[r].kind \in AppKinds
        BY <1>5, <3>1, <3>2 DEF Pending, IsCall, Fields
      <4>2. calls'[r].kind # "status"
        BY <4>1 DEF AppKinds
      <4>3. QED
        BY <4>2, Zenon DEF StatusOK
    <3>3. QED
      BY <1>5, <3>1, <3>2, Zenon
  <2>3. CASE calls'[r].kind \in HeightKinds \cup SearchKinds
    <3>1. calls'[r].kind # "status"
      BY <2>3 DEF HeightKinds, SearchKinds
    <3>2. QED
      BY <3>1, Zenon DEF StatusOK
  <2>4. CASE BeginStatus(r)
    <3> DEFINE c == Call("status", NoParam, 0, StatusFields)
    <3>1. serving /\ calls' = [calls EXCEPT ![r] = c]
      BY <2>4, Zenon DEF BeginStatus, Begin, Serve
    <3>2. c.todo = StatusFields /\ c.got = <<>> /\ c.outcome = "pending"
      BY CallIsCall
    <3> HIDE DEF c
    <3>3. CurState.LastBlockHeight > 0
      BY <3>1, Zenon DEF TipInv, Unstarted
    <3>4. StatusOK(c)
      BY <3>2, <3>3, Zenon DEF StatusOK, StatusRead
    <3>5. calls'[r] = c
      BY <1>5, <3>1
    <3>6. QED
      BY Zenon, <3>4, <3>5
  <2>5. CASE ReadField(r)
    <3>1. PICK c : calls' = [calls EXCEPT ![r] = c] /\ StatusOK(c)
      BY <1>5, <2>5, FieldRead, Zenon DEF StorageInv, Stores
    <3>2. calls'[r] = c
      BY <1>5, <3>1
    <3>3. QED
      BY Zenon, <3>1, <3>2
  <2>6. CASE BeginAppCall(r) \/ AskClient(r)
    <3>1. PICK c : calls' = [calls EXCEPT ![r] = c] /\ c.kind \in AppKinds
      <4>1. CASE BeginAppCall(r)
        <5>1. PICK kind \in AppKinds : Begin(r, [Call(kind, NoParam, 0, <<>>) EXCEPT !.agreed = Agreed])
          BY <4>1, Zenon DEF BeginAppCall
        <5>2. [Call(kind, NoParam, 0, <<>>) EXCEPT !.agreed = Agreed].kind = kind
          BY DEF Call
        <5>3. QED
          BY <5>1, <5>2, Zenon DEF Begin, Serve
      <4>2. CASE AskClient(r)
        BY <1>5, <4>2, AskKeepsKind, Zenon
      <4>3. QED
        BY Zenon, <2>6, <4>1, <4>2
    <3>2. calls'[r] = c
      BY <1>5, <3>1
    <3>3. calls'[r].kind # "status"
      BY <3>1, <3>2 DEF AppKinds
    <3>4. QED
      BY <3>3, Zenon DEF StatusOK
  <2>7. CASE RpcNext /\ ~(BusNext /\ NoteAgreement)
    BY <1>5, <2>1, <2>3, <2>4, <2>5, <2>6, <2>7, OtherReaders, Zenon
  <2>8. QED
    BY <2>1, <2>2, <2>7, Zenon DEF rpcVars
<1>7. QED
  BY <1>3, <1>4, <1>6, Zenon DEF StatusInv

(* What the requests for a status have read is as it should be.            *)
LEMMA StatusInvHolds == RpcSpec => []StatusInv
<1>1. RpcInit => StatusInv
  <2> DEFINE c == Call("status", NoParam, 0, <<>>)
  <2>1. End(c, "none").outcome = "none"
    BY DEF End, Call
  <2>2. RpcInit => \A r \in Readers : calls[r] = End(c, "none")
    BY Zenon DEF RpcInit, End
  <2> HIDE DEF c
  <2>3. QED
    BY <2>1, <2>2, Zenon DEF StatusInv, StatusOK, StatusRead
<1>2. Spec => [][StoresKept]_vars
  BY StoresAreKept
<1>3. QED
  BY <1>1, <1>2, RpcIsProduction, StepStatus, StateTypeCorrect, InvHolds, TipInvHolds, RpcInvHolds, PTL DEF RpcSpec

(* A status mixes blocks in one direction only: whatever is stored and     *)
(* applied between its reads, its height is not below the block whose hash *)
(* it gives, and its time is not older than that of the block below.       *)
THEOREM StatusIsForward == RpcSpec => []StatusGoesForward
<1>1. ASSUME StatusInv, NEW r \in Readers, Answered(r, {"status"})
      PROVE  \E hash, time \in DOMAIN blocks :
               /\ blocks[hash].hash = Reads(calls[r], "hash") /\ hash <= calls[r].height
               /\ blocks[time].time = Reads(calls[r], "time") /\ time + 1 >= calls[r].height
  <2> DEFINE c == calls[r]
  <2>1. c.outcome = "ok" /\ c.kind = "status"
    BY <1>1 DEF Answered
  <2>2. PICK v, h, a, k :
          /\ h \in DOMAIN blocks /\ k \in DOMAIN blocks /\ h <= c.height /\ c.height <= k + 1
          /\ c.got = <<v, blocks[h].hash, a, c.height, blocks[k].time>>
    BY <1>1, <2>1, Zenon DEF StatusInv, StatusOK, StatusRead
  <2>3. /\ (CHOOSE i \in DOMAIN StatusFields : StatusFields[i] = "hash") = 2
        /\ (CHOOSE i \in DOMAIN StatusFields : StatusFields[i] = "time") = 5
    BY DEF StatusFields
  <2>4. Reads(c, "hash") = c.got[2] /\ Reads(c, "time") = c.got[5]
    BY <2>3, Zenon DEF Reads
  <2>5. c.got[2] = blocks[h].hash /\ c.got[5] = blocks[k].time
    BY <2>2
  <2>6. k + 1 >= c.height
    BY <2>2
  <2>7. QED
    BY <2>2, <2>4, <2>5, <2>6, Zenon
<1>2. StatusInv => StatusGoesForward
  BY <1>1, Zenon DEF StatusGoesForward
<1>3. QED
  BY <1>2, StatusInvHolds, PTL

-----------------------------------------------------------------------------
(* Requests to the applications.                                           *)

(* The answers so far are all one block of the chain that the applications *)
(* asked have reached; either all applications have been at it since the   *)
(* request began, or one that is still to be asked is elsewhere.           *)
Snapshot(asked, agreed, id) ==
  /\ OnChain(id)
  /\ \A d \in asked : apps[d].committed.height >= id.height
  /\ id \in agreed \/ \E d \in Clients \ asked : apps[d].committed.height # id.height

AppRead(c) ==
  /\ c.outcome = "pending" =>
       /\ c.asked \subseteq Clients /\ Agreed \subseteq c.agreed
       /\ c.got \in Seq(Id) /\ (c.asked = {} <=> c.got = <<>>)
       /\ c.asked # {} /\ AllEqual(c.got) => Snapshot(c.asked, c.agreed, c.got[1])
  /\ c.outcome = "ok" => c.got[1] \in c.agreed

AppOK(c) == c.kind \in AppKinds => AppRead(c)

AppReadInv == \A r \in Readers : AppOK(calls[r])

(* Applications at the same height have committed the same block.          *)
LEMMA SameHeightAgrees ==
  ASSUME AppsOnChain, NEW c0 \in Clients, NEW id, OnChain(id),
         \A d \in Clients : apps[d].committed.height = id.height
  PROVE  id \in Agreed
<1>1. \A d \in Clients : apps[d].committed = id
  BY Zenon DEF AppsOnChain, OnChain
<1>2. QED
  BY <1>1, Zenon DEF Agreed

(* The first application that is asked.                                    *)
LEMMA FirstSnapshot ==
  ASSUME StateTypeOK, AppsOnChain, NEW client \in Clients, NEW agreed, Agreed \subseteq agreed
  PROVE  Snapshot({client}, agreed, apps[client].committed)
<1> DEFINE id == apps[client].committed
<1>1. OnChain(id) /\ id.height \in Nat
  BY Zenon DEF AppsOnChain, StateTypeOK, EnvironmentTypeOK, Id
<1>2. id.height >= id.height
  BY <1>1
<1>3. CASE \A d \in Clients : apps[d].committed.height = id.height
  <2>1. id \in agreed
    BY <1>1, <1>3, SameHeightAgrees, Zenon
  <2>2. QED
    BY <1>1, <1>2, <2>1, Zenon DEF Snapshot
<1>4. CASE \E d \in Clients : apps[d].committed.height # id.height
  BY <1>1, <1>2, <1>4, Zenon DEF Snapshot
<1>5. QED
  BY <1>3, <1>4, Zenon

(* A further application that answers with the same block.                 *)
LEMMA NextSnapshot ==
  ASSUME StateTypeOK, NEW asked, NEW agreed, NEW client \in Clients,
         Snapshot(asked, agreed, apps[client].committed)
  PROVE  Snapshot(asked \cup {client}, agreed, apps[client].committed)
<1> DEFINE id == apps[client].committed
<1>1. id.height \in Nat
  BY Zenon DEF StateTypeOK, EnvironmentTypeOK, Id
<1>2. id.height >= id.height
  BY <1>1
<1>3. QED
  BY <1>2, Zenon DEF Snapshot

(* Sequences of equal answers.                                             *)
LEMMA OneMoreAnswer ==
  ASSUME NEW got \in Seq(Id), NEW x \in Id
  PROVE  /\ Append(got, x) \in Seq(Id) /\ Append(got, x) # <<>>
         /\ got = <<>> => Append(got, x)[1] = x
         /\ got # <<>> /\ AllEqual(Append(got, x)) =>
              AllEqual(got) /\ x = got[1] /\ Append(got, x)[1] = got[1]
<1>1. Append(got, x) \in Seq(Id) /\ Append(got, x) # <<>>
  <2>1. Append(got, x) \in Seq(Id) /\ Len(Append(got, x)) = Len(got) + 1 /\ Len(got) \in Nat
    OBVIOUS
  <2>2. Len(<<>>) = 0
    OBVIOUS
  <2>3. QED
    BY <2>1, <2>2
<1>2. got = <<>> => Append(got, x)[1] = x
  OBVIOUS
<1>3. ASSUME got # <<>>, AllEqual(Append(got, x))
      PROVE  AllEqual(got) /\ x = got[1] /\ Append(got, x)[1] = got[1]
  <2>1. /\ Len(got) \in Nat /\ Len(got) > 0 /\ DOMAIN got = 1..Len(got)
        /\ DOMAIN Append(got, x) = 1..(Len(got) + 1)
        /\ \A i \in 1..Len(got) : Append(got, x)[i] = got[i]
        /\ Append(got, x)[Len(got) + 1] = x
    BY <1>3
  <2>2. \A i \in 1..(Len(got) + 1) : Append(got, x)[i] = Append(got, x)[1]
    BY <1>3, <2>1 DEF AllEqual
  <2>3. Append(got, x)[1] = got[1]
    BY <2>1
  <2>4. x = got[1]
    BY <2>1, <2>2, <2>3
  <2>5. \A i \in 1..Len(got) : got[i] = got[1]
    BY <2>1, <2>2, <2>3
  <2>6. QED
    BY <2>1, <2>3, <2>4, <2>5 DEF AllEqual
<1>4. QED
  BY <1>1, <1>2, <1>3

(* An application is asked.                                                *)
LEMMA ClientAsked ==
  ASSUME StateTypeOK, AppsOnChain, NEW r \in Readers, IsCall(calls[r]), AppOK(calls[r]), AskClient(r)
  PROVE  \E c : calls' = [calls EXCEPT ![r] = c] /\ AppOK(c)
<1> DEFINE c == calls[r]
<1>1. PICK client \in Clients \ c.asked :
        LET read == [c EXCEPT !.asked = @ \cup {client}, !.got = Append(@, apps[client].committed)]
        IN  \/ Proceed(r, IF read.asked # Clients THEN read
                          ELSE IF AllEqual(read.got) THEN End([read EXCEPT !.height = read.got[1].height], "ok")
                          ELSE Fail(c.kind, FailedCall(c.kind)))
            \/ QueriesFail /\ Proceed(r, Fail(c.kind, FailedCall(c.kind)))
  BY Zenon DEF AskClient
<1> DEFINE id == apps[client].committed
           read == [c EXCEPT !.asked = @ \cup {client}, !.got = Append(@, id)]
           last == End([read EXCEPT !.height = read.got[1].height], "ok")
           failed == Fail(c.kind, FailedCall(c.kind))
<1>2. c.kind \in AppKinds /\ c.outcome = "pending"
  BY Zenon DEF AskClient, Pending
<1>3. /\ c.asked \subseteq Clients /\ Agreed \subseteq c.agreed
      /\ c.got \in Seq(Id) /\ (c.asked = {} <=> c.got = <<>>)
      /\ c.asked # {} /\ AllEqual(c.got) => Snapshot(c.asked, c.agreed, c.got[1])
  BY <1>2, Zenon DEF AppOK, AppRead
<1>4. id \in Id
  BY Zenon DEF StateTypeOK, EnvironmentTypeOK
<1>5. /\ read.asked = c.asked \cup {client} /\ read.got = Append(c.got, id)
      /\ read.agreed = c.agreed /\ read.outcome = "pending" /\ IsCall(read)
  BY <1>2 DEF IsCall, Fields
<1>6. last.got = Append(c.got, id) /\ last.agreed = c.agreed /\ last.outcome = "ok"
  BY <1>5 DEF IsCall, Fields, End
<1>7. failed.outcome \notin {"pending", "ok"}
  BY DEF Fail, End, Call, FailedCall
<1> HIDE DEF read, last, failed
<1>8. /\ Append(c.got, id) \in Seq(Id) /\ Append(c.got, id) # <<>>
      /\ c.got = <<>> => Append(c.got, id)[1] = id
      /\ c.got # <<>> /\ AllEqual(Append(c.got, id)) =>
           AllEqual(c.got) /\ id = c.got[1] /\ Append(c.got, id)[1] = c.got[1]
  BY <1>3, <1>4, OneMoreAnswer, Zenon
<1>9. ASSUME AllEqual(Append(c.got, id))
      PROVE  Snapshot(c.asked \cup {client}, c.agreed, Append(c.got, id)[1])
  <2>1. CASE c.asked = {}
    <3>1. Snapshot({client}, c.agreed, id)
      BY <1>3, FirstSnapshot, Zenon
    <3>2. c.asked \cup {client} = {client}
      BY <2>1
    <3>3. QED
      BY <1>3, <1>8, <2>1, <3>1, <3>2, Zenon
  <2>2. CASE c.asked # {}
    <3>1. Snapshot(c.asked, c.agreed, id) /\ Append(c.got, id)[1] = id
      BY <1>3, <1>8, <1>9, <2>2, Zenon
    <3>2. QED
      BY <3>1, NextSnapshot, Zenon
  <2>3. QED
    BY <2>1, <2>2, Zenon
<1>10. AppRead(read)
  BY <1>3, <1>5, <1>8, <1>9, Zenon DEF AppRead
<1>11. ASSUME read.asked = Clients, AllEqual(read.got) PROVE AppRead(last)
  <2>1. Snapshot(Clients, c.agreed, Append(c.got, id)[1])
    BY <1>5, <1>9, <1>11, Zenon
  <2>2. Append(c.got, id)[1] \in c.agreed
    BY <2>1, Zenon DEF Snapshot
  <2>3. QED
    BY <1>6, <2>2 DEF AppRead
<1>12. AppRead(failed)
  BY <1>7 DEF AppRead
<1>13. \/ Proceed(r, IF read.asked # Clients THEN read ELSE IF AllEqual(read.got) THEN last ELSE failed)
       \/ Proceed(r, failed)
  BY <1>1, Zenon DEF read, last, failed
<1>14. \E d : Proceed(r, d) /\ AppRead(d)
  BY <1>10, <1>11, <1>12, <1>13, Zenon
<1>15. QED
  BY <1>14, Zenon DEF Proceed, Serve, AppOK

(* Block production and the other readers leave a request what it was, but *)
(* for the blocks the applications agree on.                               *)
Noted(c, d) == /\ d.kind = c.kind /\ d.outcome = c.outcome /\ d.asked = c.asked /\ d.got = c.got
               /\ c.agreed \subseteq d.agreed
               /\ c.outcome = "pending" /\ c.kind \in AppKinds => Agreed' \subseteq d.agreed

(* It then has what it should have got.                                    *)
LEMMA AppStaysOK ==
  ASSUME StateTypeOK', ChainGrows, AppsOnChain, AppsOnChain', NEW c, NEW d, AppOK(c), Noted(c, d)
  PROVE  AppOK(d)'
<1>0. /\ d.kind = c.kind /\ d.outcome = c.outcome /\ d.asked = c.asked /\ d.got = c.got
      /\ c.agreed \subseteq d.agreed
      /\ c.outcome = "pending" /\ c.kind \in AppKinds => Agreed' \subseteq d.agreed
  BY Zenon DEF Noted
<1>1. ASSUME NEW id, c.asked \subseteq Clients, Agreed' \subseteq d.agreed, Snapshot(c.asked, c.agreed, id)
      PROVE  Snapshot(d.asked, d.agreed, id)'
  <2>1. OnChain(id) /\ OnChain(id)'
    BY <1>1, OnChainStays, Zenon DEF Snapshot
  <2>2. \A a \in Clients : /\ OnChain(apps[a].committed)
                          /\ apps'[a].committed.height \in 0..LastBlock'.height
                          /\ apps[a].committed.height <= apps'[a].committed.height
    <3>1. \A a \in Clients : OnChain(apps[a].committed) /\ OnChain(apps[a].committed)'
      BY Zenon DEF AppsOnChain
    <3>2. \A a \in Clients : /\ apps[a].committed.height \in 0..LastBlock.height
                            /\ apps'[a].committed.height \in 0..LastBlock'.height
      BY <3>1, Zenon DEF OnChain
    <3>3. ASSUME NEW a \in Clients PROVE apps[a].committed.height <= apps'[a].committed.height
      <4>1. CASE apps'[a].committed = apps[a].committed
        BY <3>2, <4>1 DEF ChainGrows
      <4>2. CASE apps'[a].committed = IdAt(LastBlock.height)
        <5>1. apps'[a].committed.height = LastBlock.height
          BY <4>2 DEF IdAt
        <5>2. QED
          BY <3>2, <5>1 DEF ChainGrows
      <4>3. QED
        BY <4>1, <4>2, Zenon DEF ChainGrows, OneCommits
    <3>4. QED
      BY <3>1, <3>2, <3>3, Zenon
  <2>3. \A a \in d.asked : apps'[a].committed.height >= id.height
    <3>1. \A a \in c.asked : apps[a].committed.height >= id.height
      BY <1>1, Zenon DEF Snapshot
    <3>2. \A a \in Clients : apps[a].committed.height \in Nat /\ apps'[a].committed.height \in Nat /\ id.height \in Nat
      BY <2>1, <2>2 DEF OnChain, ChainGrows
    <3>3. ASSUME NEW a \in d.asked PROVE apps'[a].committed.height >= id.height
      <4>1. a \in Clients /\ apps[a].committed.height >= id.height
        BY <1>0, <1>1, <3>1, Zenon
      <4>2. apps[a].committed.height <= apps'[a].committed.height
        BY <2>2, <4>1, Zenon
      <4>3. apps[a].committed.height \in Nat /\ apps'[a].committed.height \in Nat /\ id.height \in Nat
        BY <3>2, <4>1, Zenon
      <4>4. QED
        BY <4>1, <4>2, <4>3
    <3>4. QED
      BY <3>3
  <2>4. ASSUME id \notin d.agreed, \A a \in Clients \ d.asked : apps'[a].committed.height = id.height
        PROVE  FALSE
    <3>1. PICK a \in Clients \ c.asked : apps[a].committed.height # id.height
      BY <1>0, <1>1, <2>4, Zenon DEF Snapshot
    <3>2. apps'[a].committed = IdAt(LastBlock.height) /\ LastBlock'.height = LastBlock.height
      <4>1. apps'[a].committed.height = id.height
        BY <1>0, <2>4, <3>1, Zenon
      <4>2. apps'[a].committed # apps[a].committed
        BY <3>1, <4>1, Zenon
      <4>3. QED
        BY <4>2, Zenon DEF ChainGrows, OneCommits
    <3>3. id.height = LastBlock'.height
      <4>1. apps'[a].committed.height = id.height
        BY <1>0, <2>4, <3>1, Zenon
      <4>2. IdAt(LastBlock.height).height = LastBlock.height
        BY DEF IdAt
      <4>3. QED
        BY <3>2, <4>1, <4>2, Zenon
    <3>4. \A b \in Clients : apps'[b].committed.height = id.height
      <4>1. ASSUME NEW b \in d.asked PROVE apps'[b].committed.height = id.height
        <5>1. apps'[b].committed.height \in 0..LastBlock'.height
          BY <1>0, <1>1, <2>2, Zenon
        <5>2. apps'[b].committed.height >= id.height
          BY <2>3, Zenon
        <5>3. LastBlock'.height \in Nat
          BY Zenon DEF ChainGrows
        <5>4. QED
          BY <3>3, <5>1, <5>2, <5>3
      <4>2. QED
        BY <2>4, <4>1, Zenon
    <3>5. \A b \in Clients : apps'[b].committed = id
      BY <2>1, <3>4, Zenon DEF AppsOnChain, OnChain
    <3>6. id \in Agreed'
      BY <3>1, <3>5, Zenon DEF Agreed
    <3>7. QED
      BY <1>1, <2>4, <3>6, Zenon
  <2>5. QED
    BY <2>1, <2>3, <2>4, Zenon DEF Snapshot
<1>2. ASSUME c.kind \in AppKinds, c.outcome = "pending" PROVE AppRead(d)'
  <2>1. /\ c.asked \subseteq Clients /\ c.got \in Seq(Id) /\ (c.asked = {} <=> c.got = <<>>)
        /\ c.asked # {} /\ AllEqual(c.got) => Snapshot(c.asked, c.agreed, c.got[1])
    BY <1>2, Zenon DEF AppOK, AppRead
  <2>2. d.asked # {} /\ AllEqual(d.got) => Snapshot(d.asked, d.agreed, d.got[1])'
    BY <1>0, <1>1, <1>2, <2>1, Zenon
  <2>3. d.outcome # "ok"
    BY <1>0, <1>2
  <2>4. QED
    BY <1>0, <1>2, <2>1, <2>2, <2>3, Zenon DEF AppRead
<1>3. ASSUME c.kind \in AppKinds, c.outcome # "pending" PROVE AppRead(d)'
  BY <1>0, <1>3, Zenon DEF AppOK, AppRead
<1>4. QED
  BY <1>0, <1>2, <1>3, Zenon DEF AppOK

(* A request for a status stays one.                                       *)
LEMMA StatusKeepsKind ==
  ASSUME NEW r \in Readers, IsCall(calls[r]), BeginStatus(r) \/ ReadField(r)
  PROVE  \E c : calls' = [calls EXCEPT ![r] = c] /\ c.kind = "status"
<1>1. CASE BeginStatus(r)
  <2>1. Call("status", NoParam, 0, StatusFields).kind = "status"
    BY DEF Call
  <2>2. QED
    BY <1>1, <2>1, Zenon DEF BeginStatus, Begin, Serve
<1>2. CASE ReadField(r)
  <2> DEFINE c == calls[r]
             read == [c EXCEPT !.got = Append(@, Field(c.todo[1])), !.todo = Tail(@),
                               !.height = IF c.todo[1] = "height" THEN LastBlock.height ELSE @]
  <2>1. c.kind = "status"
    BY <1>2 DEF ReadField, Pending
  <2>2. read.kind = "status" /\ End(read, "ok").kind = "status"
    BY <2>1 DEF IsCall, Fields, End
  <2>3. QED
    BY <1>2, <2>2, Zenon DEF ReadField, Proceed, Serve
<1>3. QED
  BY <1>1, <1>2, Zenon

(* Every step keeps what the requests to the applications have got.        *)
LEMMA StepAppRead ==
  ASSUME StateTypeOK, StateTypeOK', ChainGrows, AppsOnChain, AppsOnChain', RpcInv, AppReadInv,
         [RpcNext]_<<vars, busVars, rpcVars>>
  PROVE  AppReadInv'
<1>1. calls = [q \in Readers |-> calls[q]] /\ \A r \in Readers : IsCall(calls[r]) /\ AppOK(calls[r])
  BY Zenon DEF RpcInv, ReadOK, AppReadInv
<1>2. ASSUME NEW r, NEW c, calls'[r] = c, AppOK(c)' PROVE AppOK(calls[r])'
  BY <1>2, Zenon DEF AppOK, AppRead, Snapshot, OnChain, IdAt, Agreed
<1>3. CASE BusNext /\ NoteAgreement
  <2>1. ASSUME NEW r \in Readers PROVE \E c, d : calls'[r] = d /\ AppOK(c) /\ Noted(c, d)
    <3> DEFINE c == calls[r]
               d == [c EXCEPT !.agreed = c.agreed \cup Agreed']
    <3>1. calls'[r] = IF Pending(r, AppKinds) THEN d ELSE c
      BY <1>3, Zenon DEF NoteAgreement
    <3>2. /\ d.kind = c.kind /\ d.outcome = c.outcome /\ d.asked = c.asked /\ d.got = c.got
          /\ d.agreed = c.agreed \cup Agreed'
      BY <1>1 DEF IsCall, Fields
    <3> HIDE DEF d
    <3>3. CASE Pending(r, AppKinds)
      <4>1. Noted(c, d)
        BY <3>2, Zenon DEF Noted
      <4>2. QED
        BY <1>1, <3>1, <3>3, <4>1, Zenon
    <3>4. CASE ~Pending(r, AppKinds)
      <4>1. Noted(c, c)
        BY <3>4, Zenon DEF Noted, Pending
      <4>2. QED
        BY <1>1, <3>1, <3>4, <4>1, Zenon
    <3>5. QED
      BY <3>3, <3>4, Zenon
  <2>2. \A r \in Readers : \E d : calls'[r] = d /\ AppOK(d)'
    <3> TAKE r \in Readers
    <3>1. PICK c, d : calls'[r] = d /\ AppOK(c) /\ Noted(c, d)
      BY <2>1, Zenon
    <3>2. AppOK(d)'
      BY <3>1, AppStaysOK, Zenon
    <3>3. QED
      BY <3>1, <3>2, Zenon
  <2>3. QED
    BY <1>2, <2>2, Zenon DEF AppReadInv
<1>4. CASE UNCHANGED vars
  <2>1. apps' = apps
    BY <1>4, Zenon DEF vars
  <2>2. Agreed' = Agreed
    BY <2>1, Zenon DEF Agreed
  <2>3. ASSUME NEW c, AppOK(c) PROVE AppOK(c)'
    <3>1. Noted(c, c)
      BY <2>2, <2>3, Zenon DEF AppOK, AppRead, Noted
    <3>2. QED
      BY <2>3, <3>1, AppStaysOK, Zenon
  <2>4. ASSUME NEW r \in Readers, ~(BusNext /\ NoteAgreement) PROVE \E c : calls'[r] = c /\ AppOK(c)
    <3>1. CASE calls'[r] = calls[r]
      BY <1>1, <3>1, Zenon
    <3>2. CASE calls'[r].kind \notin AppKinds
      BY <3>2, Zenon DEF AppOK
    <3>3. CASE calls'[r].kind \in HeightKinds \cup SearchKinds
      <4>1. calls'[r].kind \notin AppKinds
        BY <3>3 DEF HeightKinds, SearchKinds, AppKinds
      <4>2. QED
        BY <3>2, <4>1, Zenon
    <3>4. CASE BeginStatus(r) \/ ReadField(r)
      <4>1. PICK c : calls' = [calls EXCEPT ![r] = c] /\ c.kind = "status"
        BY <1>1, <3>4, StatusKeepsKind, Zenon
      <4>2. calls'[r].kind \notin AppKinds
        BY <1>1, <4>1 DEF AppKinds
      <4>3. QED
        BY <3>2, <4>2, Zenon
    <3>5. CASE BeginAppCall(r)
      <4>1. PICK kind : Begin(r, [Call(kind, NoParam, 0, <<>>) EXCEPT !.agreed = Agreed])
        BY <3>5, Zenon DEF BeginAppCall
      <4> DEFINE c == [Call(kind, NoParam, 0, <<>>) EXCEPT !.agreed = Agreed]
      <4>2. c.outcome = "pending" /\ c.asked = {} /\ c.got = <<>> /\ c.agreed = Agreed
        BY DEF Call
      <4>3. calls' = [calls EXCEPT ![r] = c]
        BY <4>1, Zenon DEF Begin, Serve
      <4> HIDE DEF c
      <4>4. c.got \in Seq(Id) /\ c.outcome # "ok" /\ c.asked \subseteq Clients
        BY <4>2
      <4>5. AppRead(c)
        BY <4>2, <4>4, Zenon DEF AppRead
      <4>6. calls'[r] = c
        BY <1>1, <4>3
      <4>7. QED
        BY <4>5, <4>6, Zenon DEF AppOK
    <3>6. CASE AskClient(r)
      <4>1. PICK c : calls' = [calls EXCEPT ![r] = c] /\ AppOK(c)
        BY <1>1, <3>6, ClientAsked, Zenon
      <4>2. calls'[r] = c
        BY <1>1, <4>1
      <4>3. QED
        BY <4>1, <4>2, Zenon
    <3>7. CASE UNCHANGED <<vars, busVars, rpcVars>>
      BY <3>1, <3>7, Zenon DEF rpcVars
    <3>8. QED
      BY <2>4, <3>1, <3>3, <3>4, <3>5, <3>6, <3>7, OtherReaders, Zenon
  <2>5. CASE ~(BusNext /\ NoteAgreement)
    BY <1>2, <2>3, <2>4, <2>5, Zenon DEF AppReadInv
  <2>6. QED
    BY <1>3, <2>5, Zenon
<1>5. QED
  BY <1>3, <1>4, Zenon DEF RpcNext

(* The chain grows and the applications move along it whatever readers do. *)
LEMMA ChainGrowsForReaders ==
  ASSUME StateTypeOK, StateTypeOK', StorageInv, StorageInv', AppInv, GenesisTip, [StoresKept]_vars,
         [RpcNext]_<<vars, busVars, rpcVars>>
  PROVE  ChainGrows
<1>1. [Next]_vars
  BY RpcStepIsStep, Zenon
<1>2. QED
  BY <1>1, StepRefines, LedgerStep, Zenon DEF StorageInv, Stores

(* What the requests to the applications have got is as it should be.      *)
LEMMA AppReadInvHolds == RpcSpec => []AppReadInv
<1>1. RpcInit => AppReadInv
  <2>1. RpcInit => \A r \in Readers : calls[r].kind = "status"
    BY DEF RpcInit, Call
  <2>2. "status" \notin AppKinds
    BY DEF AppKinds
  <2>3. QED
    BY <2>1, <2>2, Zenon DEF AppReadInv, AppOK
<1>2. ASSUME StateTypeOK, StateTypeOK', StorageInv, StorageInv', AppInv, GenesisTip, AppsOnChain, AppsOnChain',
             RpcInv, AppReadInv, [StoresKept]_vars, [RpcNext]_<<vars, busVars, rpcVars>>
      PROVE  AppReadInv'
  BY <1>2, ChainGrowsForReaders, StepAppRead, Zenon
<1>3. Spec => [][StoresKept]_vars
  BY StoresAreKept
<1>4. QED
  BY <1>1, <1>2, <1>3, RpcIsProduction, StateTypeCorrect, InvHolds, AppInvHolds, GenesisTipHolds,
     AppsOnChainHolds, RpcInvHolds, PTL DEF RpcSpec

(* SendAbciQuery and SendAbciInfo ask one application after the other      *)
(* while Commit reaches them one after the other: when all answers are     *)
(* equal, all applications were at that block at one moment since the      *)
(* request began.                                                          *)
THEOREM AnswersAreSnapshots == RpcSpec => []QueryAnswersAreSnapshots
<1>1. AppReadInv => QueryAnswersAreSnapshots
  BY Zenon DEF AppReadInv, AppOK, AppRead, QueryAnswersAreSnapshots, Answered
<1>2. QED
  BY <1>1, AppReadInvHolds, PTL
=============================================================================
