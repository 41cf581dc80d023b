---------------------------- MODULE AnswerProofs ----------------------------
(***************************************************************************)
(* What readers are told: pages are cut right for every number of results  *)
(* and every page size, what is asked for is found, and no answer is       *)
(* behind one that was given before it was asked for.                      *)
(***************************************************************************)
EXTENDS RpcProofs, FiniteSetTheorems

-----------------------------------------------------------------------------
(* Pages.                                                                  *)

(* Multiples of a page size are ordered as their factors.                  *)
LEMMA Multiples == ASSUME NEW p \in Nat, NEW q \in Nat, p < q, NEW n \in Nat \ {0}
                   PROVE  p * n + n <= q * n
<1>1. PICK d \in Nat : q = p + 1 + d
  BY SMT
<1>2. d * n \in Nat /\ p * n \in Nat
  BY SMT
<1>3. (p + 1 + d) * n = p * n + n + d * n
  BY SMT
<1> QED BY <1>1, <1>2, <1>3, SMT

(* Division rounds down to the multiple at or below.                       *)
LEMMA DivisionBrackets == ASSUME NEW a \in Nat, NEW n \in Nat \ {0}
                          PROVE  /\ a \div n \in Nat
                                 /\ (a \div n) * n <= a /\ a < (a \div n) * n + n
  BY SMT

(* The number of pages of at least one result.                             *)
LEMMA PageCount == ASSUME NEW total \in Nat \ {0}, NEW n \in Nat \ {0}
                   PROVE  Pages(total, n) = ((total - 1) \div n) + 1
<1>1. total - 1 \in Nat
  BY SMT
<1>2. (total - 1) \div n \in Nat
  BY <1>1, DivisionBrackets
<1> QED BY <1>1, <1>2, SMT DEF Pages, Quotient

(* Without results there is one page.                                      *)
LEMMA OnePageOfNothing == ASSUME NEW n \in Nat \ {0} PROVE Pages(0, n) = 1
<1>1. /\ 1 \div n \in Nat
      /\ (1 \div n) * n <= 1
  BY DivisionBrackets
<1>2. 1 \div n \in {0, 1}
  <2>1. SUFFICES ASSUME 1 < 1 \div n PROVE FALSE
    BY <1>1, SMT
  <2>2. 1 * n + n <= (1 \div n) * n
    BY <1>1, <2>1, Multiples
  <2> QED BY <1>1, <2>2, SMT
<1> QED BY <1>2, SMT DEF Pages, Quotient

(* What is skipped are the pages before.                                   *)
LEMMA Skipped == ASSUME NEW p \in Nat \ {0}, NEW n \in Nat \ {0}
                 PROVE  /\ validateSkipCount(p, n) = (p - 1) * n
                        /\ (p - 1) * n \in Nat
<1>1. (p - 1) * n \in Nat
  BY SMT
<1> QED BY <1>1, SMT DEF validateSkipCount

(* No result is on two pages.                                              *)
LEMMA OnlyOnePage ==
  ASSUME NEW total \in Nat, NEW n \in Nat \ {0}, NEW i \in Nat,
         NEW p \in Nat \ {0}, NEW q \in Nat \ {0}, p < q
  PROVE  ~(OnPage(i, p, n, total) /\ OnPage(i, q, n, total))
<1>1. (p - 1) * n + n <= (q - 1) * n
  BY Multiples, p - 1 \in Nat, q - 1 \in Nat, p - 1 < q - 1
<1>2. PageSize(p, n, total) <= n
  BY Skipped, SMT DEF PageSize
<1>3. PageSize(p, n, total) \in Int
  BY Skipped, SMT DEF PageSize
<1>4. /\ validateSkipCount(p, n) = (p - 1) * n /\ (p - 1) * n \in Nat
      /\ validateSkipCount(q, n) = (q - 1) * n /\ (q - 1) * n \in Nat
  BY Skipped
<1> QED BY <1>1, <1>2, <1>3, <1>4, SMT DEF OnPage

(* The pages that validatePage accepts and validateSkipCount and MinInt    *)
(* then cut out of the results are within the results, none of them is     *)
(* empty unless there are no results, and each result is on one of them.   *)
THEOREM PagesArePartitions ==
  \A total \in Nat, perPage \in Nat \ {0} : Partitioned(total, perPage)
<1> SUFFICES ASSUME NEW total \in Nat, NEW n \in Nat \ {0}
             PROVE  Partitioned(total, n)
  OBVIOUS
<1>1. CASE total = 0
  <2>1. Pages(total, n) = 1
    BY <1>1, OnePageOfNothing
  <2>2. validateSkipCount(1, n) = 0
    BY SMT DEF validateSkipCount
  <2>3. PageSize(1, n, total) = 0
    BY <1>1, <2>2, SMT DEF PageSize
  <2> QED BY <1>1, <2>1, <2>2, <2>3, SMT DEF Partitioned
<1>2. CASE total # 0
  <2> DEFINE D == (total - 1) \div n
  <2>1. /\ Pages(total, n) = D + 1 /\ D \in Nat
        /\ D * n <= total - 1 /\ total - 1 < D * n + n
    <3>1. total \in Nat \ {0} /\ total - 1 \in Nat
      BY <1>2, SMT
    <3> QED BY <3>1, PageCount, DivisionBrackets
  <2> HIDE DEF D
  <2>2. ASSUME NEW p \in 1..Pages(total, n)
        PROVE  /\ validateSkipCount(p, n) \in Nat
               /\ PageSize(p, n, total) \in 1..n
               /\ validateSkipCount(p, n) + PageSize(p, n, total) <= total
    <3>1. p \in Nat \ {0} /\ p - 1 \in Nat /\ p - 1 <= D
      BY <2>1, SMT
    <3>2. (p - 1) * n <= D * n
      <4>1. CASE p - 1 = D
        BY <2>1, <4>1, SMT
      <4>2. CASE p - 1 < D
        <5>1. (p - 1) * n + n <= D * n
          BY <2>1, <3>1, <4>2, Multiples
        <5>2. (p - 1) * n \in Nat /\ D * n \in Nat
          BY <2>1, <3>1, SMT
        <5> QED BY <5>1, <5>2, SMT
      <4> QED BY <2>1, <3>1, <4>1, <4>2, SMT
    <3>3. validateSkipCount(p, n) \in Nat /\ validateSkipCount(p, n) <= total - 1
      <4>1. D * n \in Nat
        BY <2>1, SMT
      <4>2. validateSkipCount(p, n) = (p - 1) * n /\ (p - 1) * n \in Nat
        BY <3>1, Skipped
      <4> QED BY <2>1, <3>2, <4>1, <4>2, SMT
    <3> QED BY <3>3, SMT DEF PageSize
  <2>3. ASSUME NEW i \in 1..total
        PROVE  \E p \in 1..Pages(total, n) :
                 /\ OnPage(i, p, n, total)
                 /\ \A q \in 1..Pages(total, n) : OnPage(i, q, n, total) => q = p
    <3> DEFINE k == (i - 1) \div n
    <3>1. i - 1 \in Nat
      BY SMT
    <3>2. k \in Nat /\ k * n <= i - 1 /\ i - 1 < k * n + n
      BY <3>1, DivisionBrackets
    <3> HIDE DEF k
    <3>3. k * n \in Nat /\ D * n \in Nat
      BY <2>1, <3>2, SMT
    <3>4. k <= D
      <4>1. SUFFICES ASSUME D < k PROVE FALSE
        BY <2>1, <3>2, SMT
      <4>2. D * n + n <= k * n
        BY <2>1, <3>2, <4>1, Multiples
      <4> QED BY <2>1, <3>2, <3>3, <4>2, SMT
    <3>5. k + 1 \in 1..Pages(total, n) /\ k + 1 \in Nat \ {0} /\ (k + 1) - 1 = k
      BY <2>1, <3>2, <3>4, SMT
    <3>6. validateSkipCount(k + 1, n) = k * n
      BY <3>5, Skipped
    <3>7. OnPage(i, k + 1, n, total)
      BY <3>2, <3>3, <3>6, SMT DEF OnPage, PageSize
    <3>8. ASSUME NEW q \in 1..Pages(total, n), OnPage(i, q, n, total)
          PROVE  q = k + 1
      <4>1. q \in Nat \ {0} /\ i \in Nat
        BY <2>1, SMT
      <4>2. ~(q < k + 1)
        BY <3>5, <3>7, <3>8, <4>1, OnlyOnePage
      <4>3. ~(k + 1 < q)
        BY <3>5, <3>7, <3>8, <4>1, OnlyOnePage
      <4> QED BY <3>2, <4>1, <4>2, <4>3, SMT
    <3> QED BY <3>5, <3>7, <3>8
  <2>4. \A p \in 1..Pages(total, n) :
          /\ PageSize(p, n, total) \in 0..n
          /\ total > 0 => PageSize(p, n, total) > 0
          /\ validateSkipCount(p, n) + PageSize(p, n, total) <= total
    BY <2>2, SMT
  <2> QED BY <2>3, <2>4 DEF Partitioned
<1> QED BY <1>1, <1>2

(* There is at least one page.                                             *)
LEMMA SomePage == ASSUME NEW total \in Nat, NEW n \in Nat \ {0} PROVE Pages(total, n) \in Nat \ {0}
<1>1. CASE total = 0
  BY <1>1, OnePageOfNothing
<1>2. CASE total # 0
  <2>1. Pages(total, n) = ((total - 1) \div n) + 1
    BY <1>2, PageCount
  <2>2. (total - 1) \div n \in Nat
    BY <1>2, DivisionBrackets, total - 1 \in Nat
  <2> QED BY <2>1, <2>2, SMT
<1> QED BY <1>1, <1>2

(* validatePerPage returns a size between one and maxPerPage.              *)
LEMMA PerPageIsValid ==
  ASSUME NEW perPage \in Int \cup {NoParam}
  PROVE  validatePerPage(perPage) \in 1..MaxPerPage
BY PageSizesAreValid, SMT DEF validatePerPage

(* validatePage returns the number of a page.                              *)
LEMMA PageIsValid ==
  ASSUME NEW total \in Nat, NEW n \in Nat \ {0}, NEW page, PageExists(page, n, total)
  PROVE  PageNumber(page) \in 1..Pages(total, n)
<1>1. Pages(total, n) \in Nat \ {0}
  BY SomePage
<1>2. 1 \in 1..Pages(total, n)
  BY <1>1, SMT
<1> QED BY <1>2, Zenon DEF PageExists, PageNumber

(* A page consists of results.                                             *)
LEMMA PageOfResults ==
  ASSUME NEW F, NEW results \in Seq(F), NEW n \in Nat \ {0}, NEW p \in 1..Pages(Len(results), n)
  PROVE  Page(results, p, n) \in Seq(F)
<1> DEFINE skip == validateSkipCount(p, n)
           size == PageSize(p, n, Len(results))
<1>1. Len(results) \in Nat
  OBVIOUS
<1>2. p \in Nat \ {0}
  BY <1>1, SomePage, SMT
<1>3. skip \in Nat
  BY <1>2, Skipped
<1>4. size \in 0..n /\ skip + size <= Len(results)
  BY <1>1, PagesArePartitions DEF Partitioned
<1>5. Page(results, p, n) = SubSeq(results, skip + 1, skip + size)
  BY Zenon DEF Page
<1> HIDE DEF skip, size
<1>6. \A i \in skip + 1..skip + size : results[i] \in F
  BY <1>1, <1>3, <1>4
<1>7. SubSeq(results, skip + 1, skip + size) \in Seq(F)
  BY <1>3, <1>4, <1>6
<1> QED BY <1>5, <1>7, Zenon

-----------------------------------------------------------------------------
(* What answers tell.                                                      *)

(* A set of numbers with a bound has a largest one.                        *)
LEMMA LargestIsLargest ==
  ASSUME NEW b \in Nat, NEW S, S \subseteq 0..b
  PROVE  Largest(S) \in 0..b /\ \A m \in S : m <= Largest(S)
<1> DEFINE T == S \cup {0}
           D == {b - n : n \in T}
<1>1. T \subseteq 0..b /\ 0 \in T
  OBVIOUS
<1>2. D \subseteq Nat /\ D # {}
  BY <1>1
<1>3. PICK d \in D : \A k \in D : ~(k < d)
  BY <1>2, LeastNumber, Zenon
<1>4. PICK n \in T : d = b - n
  OBVIOUS
<1>5. ASSUME NEW m \in T PROVE m <= n
  <2>1. ~(b - m < b - n)
    BY <1>3, <1>4
  <2>2. m \in 0..b /\ n \in 0..b
    BY <1>1
  <2>3. QED
    BY <2>1, <2>2
<1> HIDE DEF T, D
<1>6. Largest(S) = CHOOSE k \in T : \A m \in T : m <= k
  BY Zenon DEF Largest, T
<1>7. Largest(S) \in T /\ \A m \in T : m <= Largest(S)
  BY <1>5, <1>6, Zenon
<1>8. QED
  BY <1>1, <1>7, Zenon DEF T

(* Whether a request has settled on the height it is to tell.              *)
Tells(c) ==
  \/ c.outcome = "ok"
  \/ /\ c.outcome = "pending"
     /\ c.kind \in HeightKinds \cup SearchKinds \/ (c.kind = "status" /\ c.todo = <<"time">>)

(* No request tells a height above that of LastBlock; one for the latest   *)
(* height tells none below what answers had told when it began; and what   *)
(* is left to read of the results of a search is stored.                   *)
AnswerOK(c) ==
  /\ c.outcome # "notFound" /\ c.before \in 0..LastBlock.height
  /\ Tells(c) => c.height \in 0..LastBlock.height
  /\ Tells(c) /\ c.kind \in HeightKinds \cup {"status"} /\ c.want = NoParam => c.height >= c.before
  /\ c.kind \in SearchKinds /\ c.outcome = "pending" => c.todo \in Seq({"blocks"} \X (1..LastBlock.height))

AnswerInv == seen \in 0..LastBlock.height /\ \A r \in Readers : AnswerOK(calls[r])

(* Block production leaves that as it is, for LastBlock does not go back.  *)
LEMMA AnswerStaysOK ==
  ASSUME LastBlock.height \in Nat, LastBlock'.height \in Nat, LastBlock.height <= LastBlock'.height,
         NEW c, NEW d, AnswerOK(c),
         d.kind = c.kind, d.want = c.want, d.height = c.height, d.todo = c.todo,
         d.before = c.before, d.outcome = c.outcome
  PROVE  AnswerOK(d)'
<1>1. 0..LastBlock.height \subseteq 0..LastBlock'.height
  OBVIOUS
<1>2. ASSUME c.todo \in Seq({"blocks"} \X (1..LastBlock.height))
      PROVE  c.todo \in Seq({"blocks"} \X (1..LastBlock'.height))
  <2>1. {"blocks"} \X (1..LastBlock.height) \subseteq {"blocks"} \X (1..LastBlock'.height)
    OBVIOUS
  <2>2. QED
    BY <1>2, <2>1
<1>3. Tells(d) <=> Tells(c)
  BY Zenon DEF Tells
<1>4. QED
  BY <1>1, <1>2, <1>3, Zenon DEF AnswerOK, Tells

(* A request that is refused tells nothing.                                *)
LEMMA RefusalTellsNothing ==
  ASSUME seen \in 0..LastBlock.height, NEW kind, NEW outcome \in {"none", "error", "panic"}
  PROVE  AnswerOK(Fail(kind, outcome))
<1>1. Fail(kind, outcome).outcome = outcome /\ Fail(kind, outcome).before = seen
  BY DEF Fail, End, Call
<1>2. outcome \notin {"ok", "pending", "notFound"}
  OBVIOUS
<1>3. QED
  BY <1>1, <1>2, Zenon DEF AnswerOK, Tells

(* A request for a height tells that height from the beginning on; if it   *)
(* is the latest, nobody has been told a larger one.                       *)
LEMMA HeightAnswers ==
  ASSUME StateTypeOK, TipInv, seen \in 0..LastBlock.height, NEW r \in Readers, BeginAtHeight(r)
  PROVE  \E c : Serve(r, c) /\ AnswerOK(c)
<1>1. PICK kind \in HeightKinds, want \in HeightParams, page \in PageParams \cup {NoPage} :
        LET height == getHeight(want)
            c == [Call(kind, want, height, Getters(kind, height)) EXCEPT !.page = page]
        IN  Begin(r, IF HeightIsValid(want) THEN c ELSE Fail(kind, "error"))
  BY Zenon DEF BeginAtHeight
<1> DEFINE height == getHeight(want)
           c == [Call(kind, want, height, Getters(kind, height)) EXCEPT !.page = page]
<1>2. serving /\ Serve(r, IF HeightIsValid(want) THEN c ELSE Fail(kind, "error"))
  BY <1>1, Zenon DEF Begin
<1>3. LastBlock.height \in Nat /\ LastBlock.height > 0
  <2>1. LastBlock.height \in Nat /\ CurState.LastBlockHeight \in Nat
    BY Zenon DEF StateTypeOK, ClientTypeOK, IsBlock, State
  <2>2. CurState.LastBlockHeight > 0
    BY <1>2, Zenon DEF TipInv, Unstarted
  <2>3. QED
    BY <2>1, <2>2 DEF TipInv
<1>4. HeightIsValid(want) => height \in 0..LastBlock.height
  BY <1>3 DEF HeightIsValid, getHeight, LatestHeight
<1>5. want = NoParam => height >= seen
  BY <1>3 DEF getHeight, LatestHeight
<1>6. /\ c.kind = kind /\ c.want = want /\ c.height = height
      /\ c.before = seen /\ c.outcome = "pending"
  BY DEF Call
<1>7. kind \notin SearchKinds /\ c.outcome # "notFound"
  BY <1>6 DEF HeightKinds, SearchKinds
<1> HIDE DEF c, height
<1>8. HeightIsValid(want) => AnswerOK(c)
  BY <1>4, <1>5, <1>6, <1>7, Zenon DEF AnswerOK
<1>9. AnswerOK(Fail(kind, "error"))
  BY RefusalTellsNothing
<1>10. QED
  BY <1>2, <1>8, <1>9, Zenon

(* What a getter is asked for is stored.                                   *)
LEMMA GetterHasEntry ==
  ASSUME StoresAgree, NEW c, ReadOK(c), AnswerOK(c), c.kind \in HeightKinds \cup SearchKinds,
         c.outcome = "pending", c.todo # <<>>
  PROVE  GetterHeight(c) \in DOMAIN Map(c.todo[1][1])
<1>1. \E name \in {"blocks", "commits", "states", "responses"}, h \in 1..LastBlock.height : c.todo[1] = <<name, h>>
  <2>1. CASE c.kind \in HeightKinds
    <3>1. /\ c.height \in 1..LastBlock.height
          /\ c.todo = Getters(c.kind, c.height) \/ c.todo = <<<<"blocks", c.height>>>>
      BY <2>1, Zenon DEF ReadOK, HeightRead
    <3>2. \E name \in {"blocks", "commits", "states", "responses"} : c.todo[1] = <<name, c.height>>
      BY <2>1, <3>1 DEF Getters, HeightKinds
    <3>3. QED
      BY <3>1, <3>2, Zenon
  <2>2. CASE c.kind \in SearchKinds
    <3>1. c.todo \in Seq({"blocks"} \X (1..LastBlock.height))
      BY <2>2, Zenon DEF AnswerOK
    <3>2. c.todo[1] \in {"blocks"} \X (1..LastBlock.height)
      BY <3>1
    <3>3. QED
      BY <3>2
  <2>3. QED
    BY <2>1, <2>2, Zenon
<1>2. PICK name \in {"blocks", "commits", "states", "responses"}, h \in 1..LastBlock.height : c.todo[1] = <<name, h>>
  BY <1>1, Zenon
<1>3. GetterHeight(c) = h /\ c.todo[1][1] = name
  BY <1>2 DEF GetterHeight
<1>4. DOMAIN Map(name) = 1..LastBlock.height
  BY DEF Map, StoresAgree
<1>5. QED
  BY <1>2, <1>3, <1>4, Zenon

(* So a getter finds its entry, and the request tells the height it had.   *)
LEMMA GetterAnswers ==
  ASSUME StoresAgree, seen \in 0..LastBlock.height, NEW r \in Readers,
         ReadOK(calls[r]), AnswerOK(calls[r]), CallGetter(r)
  PROVE  \E c : Serve(r, c) /\ AnswerOK(c)
<1> DEFINE c == calls[r]
           map == Map(c.todo[1][1])
           height == GetterHeight(c)
           read == [c EXCEPT !.got = Append(@, map[height]), !.todo = Tail(@)]
           next == IF height \notin DOMAIN map THEN Fail(c.kind, "notFound")
                   ELSE IF read.todo # <<>> THEN read
                   ELSE IF c.kind = "validators" THEN PageOfValidators(read)
                   ELSE End(read, "ok")
<1>1. Serve(r, next) /\ c.kind \in HeightKinds \cup SearchKinds /\ c.outcome = "pending" /\ c.todo # <<>>
  BY Zenon DEF CallGetter, Proceed, Pending
<1>2. height \in DOMAIN map
  BY <1>1, GetterHasEntry, Zenon
<1>3. IsCall(c)
  BY Zenon DEF ReadOK
<1>4. /\ read.kind = c.kind /\ read.want = c.want /\ read.height = c.height /\ read.before = c.before
      /\ read.outcome = "pending" /\ read.todo = Tail(c.todo) /\ IsCall(read)
  BY <1>1, <1>3 DEF IsCall, Fields
<1> HIDE DEF read, map, height
<1>5. /\ c.before \in 0..LastBlock.height /\ c.height \in 0..LastBlock.height
      /\ c.kind \in HeightKinds \cup {"status"} /\ c.want = NoParam => c.height >= c.before
  BY <1>1, Zenon DEF AnswerOK, Tells
<1>6. ASSUME NEW d, d.kind = c.kind, d.want = c.want, d.height = c.height, d.before = c.before, d.outcome = "ok"
      PROVE  AnswerOK(d)
  <2>1. d.outcome # "notFound" /\ d.outcome # "pending"
    BY <1>6
  <2>2. QED
    BY <1>5, <1>6, <2>1, Zenon DEF AnswerOK
<1>7. AnswerOK(read)
  <2>1. c.kind \in SearchKinds => Tail(c.todo) \in Seq({"blocks"} \X (1..LastBlock.height))
    <3>1. c.kind \in SearchKinds => c.todo \in Seq({"blocks"} \X (1..LastBlock.height))
      BY <1>1, Zenon DEF AnswerOK
    <3>2. QED
      BY <1>1, <3>1
  <2>2. read.outcome # "notFound"
    BY <1>4
  <2>3. QED
    BY <1>4, <1>5, <2>1, <2>2, Zenon DEF AnswerOK
<1>8. AnswerOK(End(read, "ok"))
  <2>1. /\ End(read, "ok").kind = c.kind /\ End(read, "ok").want = c.want /\ End(read, "ok").height = c.height
        /\ End(read, "ok").before = c.before /\ End(read, "ok").outcome = "ok"
    BY <1>4 DEF End, IsCall, Fields
  <2>2. QED
    BY <1>6, <2>1, Zenon
<1>9. ASSUME NEW list PROVE AnswerOK(End([read EXCEPT !.got = list], "ok"))
  <2> DEFINE d == End([read EXCEPT !.got = list], "ok")
  <2>1. /\ d.kind = c.kind /\ d.want = c.want /\ d.height = c.height /\ d.before = c.before /\ d.outcome = "ok"
    BY <1>4 DEF End, IsCall, Fields
  <2> HIDE DEF d
  <2>2. AnswerOK(d)
    BY <1>6, <2>1, Zenon
  <2>3. QED
    BY <2>2, Zenon DEF d
<1>10. AnswerOK(Fail("validators", "error"))
  BY RefusalTellsNothing
<1>11. AnswerOK(PageOfValidators(read))
  BY <1>9, <1>10, Zenon DEF PageOfValidators
<1>12. AnswerOK(next)
  BY <1>2, <1>7, <1>8, <1>11, Zenon
<1>13. QED
  BY <1>1, <1>12, Zenon

(* A request that has not settled on a height.                             *)
LEMMA NothingToldYet ==
  ASSUME NEW c, c.outcome = "pending", c.before \in 0..LastBlock.height,
         c.kind \notin HeightKinds \cup SearchKinds, c.kind = "status" => c.todo # <<"time">>
  PROVE  AnswerOK(c)
<1>1. c.outcome # "ok" /\ c.outcome # "notFound"
  OBVIOUS
<1>2. QED
  BY <1>1, Zenon DEF AnswerOK, Tells

(* A status settles on the height when it reads it from LastBlock, which   *)
(* is then at least what answers had told.                                 *)
LEMMA FieldAnswers ==
  ASSUME LastBlock.height \in Nat, NEW r \in Readers, IsCall(calls[r]), StatusOK(calls[r]), AnswerOK(calls[r]),
         ReadField(r)
  PROVE  \E c : Serve(r, c) /\ AnswerOK(c)
<1> DEFINE c == calls[r]
           read == [c EXCEPT !.got = Append(@, Field(c.todo[1])), !.todo = Tail(@),
                             !.height = IF c.todo[1] = "height" THEN LastBlock.height ELSE @]
           next == IF read.todo = <<>> THEN End(read, "ok") ELSE read
<1>1. Serve(r, next) /\ c.kind = "status" /\ c.outcome = "pending"
  BY Zenon DEF ReadField, Proceed, Pending
<1>2. /\ IsCall(read) /\ read.kind = "status" /\ read.outcome = "pending" /\ read.before = c.before
      /\ read.want = c.want /\ read.todo = Tail(c.todo)
      /\ read.height = IF c.todo[1] = "height" THEN LastBlock.height ELSE c.height
  BY <1>1 DEF IsCall, Fields
<1> HIDE DEF read
<1>3. c.before \in 0..LastBlock.height /\ "status" \notin HeightKinds \cup SearchKinds
  BY Zenon DEF AnswerOK, HeightKinds, SearchKinds
<1>4. ASSUME c.todo \in {StatusFields, <<"hash", "appHash", "height", "time">>, <<"appHash", "height", "time">>}
      PROVE  AnswerOK(next)
  <2>1. Tail(c.todo) # <<>> /\ Tail(c.todo) # <<"time">>
    <3>0. /\ <<"hash", "appHash", "height", "time">> # <<>> /\ <<"appHash", "height", "time">> # <<>>
          /\ <<"height", "time">> # <<>>
      OBVIOUS
    <3>1. \A t : t = <<"time">> => t[1] = "time"
      OBVIOUS
    <3>2. CASE c.todo = StatusFields
      <4>1. Tail(c.todo) = <<"hash", "appHash", "height", "time">>
        BY <3>2 DEF StatusFields
      <4>2. <<"hash", "appHash", "height", "time">>[1] = "hash" /\ "hash" # "time"
        OBVIOUS
      <4>3. QED
        BY <3>0, <3>1, <4>1, <4>2, Zenon
    <3>3. CASE c.todo = <<"hash", "appHash", "height", "time">>
      <4>1. Tail(c.todo) = <<"appHash", "height", "time">>
        BY <3>3
      <4>2. <<"appHash", "height", "time">>[1] = "appHash" /\ "appHash" # "time"
        OBVIOUS
      <4>3. QED
        BY <3>0, <3>1, <4>1, <4>2, Zenon
    <3>4. CASE c.todo = <<"appHash", "height", "time">>
      <4>1. Tail(c.todo) = <<"height", "time">>
        BY <3>4
      <4>2. <<"height", "time">>[1] = "height" /\ "height" # "time"
        OBVIOUS
      <4>3. QED
        BY <3>0, <3>1, <4>1, <4>2, Zenon
    <3>5. QED
      BY <1>4, <3>2, <3>3, <3>4, Zenon
  <2>2. AnswerOK(read)
    BY <1>2, <1>3, <2>1, NothingToldYet, Zenon
  <2>3. QED
    BY <1>2, <2>1, <2>2, Zenon
<1>5. ASSUME c.todo = <<"height", "time">> PROVE AnswerOK(next)
  <2>1. Tail(c.todo) = <<"time">> /\ c.todo[1] = "height" /\ <<"time">> # <<>>
    BY <1>5
  <2>2. read.height = LastBlock.height
    BY <1>2, <2>1, Zenon
  <2>3. LastBlock.height \in 0..LastBlock.height /\ LastBlock.height >= c.before
    BY <1>3
  <2>4. read.outcome # "notFound"
    BY <1>2
  <2>5. AnswerOK(read)
    BY <1>2, <1>3, <2>2, <2>3, <2>4, Zenon DEF AnswerOK
  <2>6. QED
    BY <1>2, <2>1, <2>5, Zenon
<1>6. ASSUME c.todo = <<"time">> PROVE AnswerOK(next)
  <2>1. Tail(c.todo) = <<>> /\ c.todo[1] # "height"
    BY <1>6
  <2>2. Tells(c)
    BY <1>1, <1>6, Zenon DEF Tells
  <2> DEFINE d == End(read, "ok")
  <2>3. /\ d.kind = "status" /\ d.outcome = "ok" /\ d.before = c.before /\ d.want = c.want /\ d.height = read.height
    BY <1>2 DEF IsCall, Fields, End
  <2>4. d.outcome # "notFound" /\ d.outcome # "pending"
    BY <2>3
  <2>5. d.height = c.height /\ next = d
    BY <1>2, <2>1, <2>3, Zenon
  <2> HIDE DEF d
  <2>6. AnswerOK(d)
    BY <1>1, <2>2, <2>3, <2>4, <2>5, Zenon DEF AnswerOK
  <2>7. QED
    BY <2>5, <2>6, Zenon
<1>7. AnswerOK(next)
  <2>1. StatusRead(c)
    BY <1>1, Zenon DEF StatusOK
  <2>2. c.todo \in {StatusFields, <<"hash", "appHash", "height", "time">>, <<"appHash", "height", "time">>,
                    <<"height", "time">>, <<"time">>}
    BY <1>1, <2>1, Zenon DEF StatusRead
  <2>3. QED
    BY <1>4, <1>5, <1>6, <2>2, Zenon
<1>8. QED
  BY <1>1, <1>7, Zenon

(* The applications have committed no block above LastBlock.               *)
LEMMA AppAnswers ==
  ASSUME StateTypeOK, AppsOnChain, seen \in 0..LastBlock.height, NEW r \in Readers,
         IsCall(calls[r]), AppOK(calls[r]), AnswerOK(calls[r]), AskClient(r)
  PROVE  \E c : Serve(r, c) /\ AnswerOK(c)
<1> DEFINE c == calls[r]
<1>1. PICK client \in Clients \ c.asked :
        LET read == [c EXCEPT !.asked = @ \cup {client}, !.got = Append(@, apps[client].committed)]
        IN  \/ Proceed(r, IF read.asked # Clients THEN read
                          ELSE IF AllEqual(read.got) THEN End([read EXCEPT !.height = read.got[1].height], "ok")
                          ELSE Fail(c.kind, FailedCall(c.kind)))
            \/ QueriesFail /\ Proceed(r, Fail(c.kind, FailedCall(c.kind)))
  BY Zenon DEF AskClient
<1> DEFINE id == apps[client].committed
           read == [c EXCEPT !.asked = @ \cup {client}, !.got = Append(@, id)]
           last == End([read EXCEPT !.height = read.got[1].height], "ok")
           failed == Fail(c.kind, FailedCall(c.kind))
<1>2. c.kind \in AppKinds /\ c.outcome = "pending"
  BY Zenon DEF AskClient, Pending
<1>3. c.kind \notin HeightKinds \cup SearchKinds /\ c.kind # "status"
  BY <1>2 DEF AppKinds, HeightKinds, SearchKinds
<1>4. c.before \in 0..LastBlock.height
  BY Zenon DEF AnswerOK
<1>5. /\ read.kind = c.kind /\ read.before = c.before /\ read.got = Append(c.got, id)
      /\ read.outcome = "pending" /\ IsCall(read)
  BY <1>2 DEF IsCall, Fields
<1>6. /\ last.kind = c.kind /\ last.before = c.before /\ last.height = Append(c.got, id)[1].height
      /\ last.outcome = "ok"
  BY <1>5 DEF IsCall, Fields, End
<1>7. AnswerOK(failed)
  <2>1. FailedCall(c.kind) \in {"none", "error", "panic"}
    BY DEF FailedCall
  <2>2. QED
    BY <2>1, RefusalTellsNothing, Zenon
<1> HIDE DEF read, last, failed
<1>8. AnswerOK(read)
  BY <1>3, <1>4, <1>5, NothingToldYet, Zenon
<1>9. ASSUME AllEqual(read.got) PROVE AnswerOK(last)
  <2>1. id \in Id /\ c.got \in Seq(Id)
    BY <1>2, Zenon DEF StateTypeOK, EnvironmentTypeOK, AppOK, AppRead
  <2>2. Append(c.got, id)[1] = id
    <3>1. /\ c.got = <<>> => Append(c.got, id)[1] = id
          /\ c.got # <<>> /\ AllEqual(Append(c.got, id)) => id = c.got[1] /\ Append(c.got, id)[1] = c.got[1]
      BY <2>1, OneMoreAnswer, Zenon
    <3>2. AllEqual(Append(c.got, id))
      BY <1>5, <1>9, Zenon
    <3>3. QED
      BY <3>1, <3>2, Zenon
  <2>3. id.height \in 0..LastBlock.height
    BY Zenon DEF AppsOnChain, OnChain
  <2>4. last.outcome # "notFound" /\ last.outcome # "pending"
    BY <1>6
  <2>5. QED
    BY <1>3, <1>4, <1>6, <2>2, <2>3, <2>4, Zenon DEF AnswerOK
<1>10. \/ Proceed(r, IF read.asked # Clients THEN read ELSE IF AllEqual(read.got) THEN last ELSE failed)
       \/ Proceed(r, failed)
  BY <1>1, Zenon DEF read, last, failed
<1>11. QED
  BY <1>7, <1>8, <1>9, <1>10, Zenon DEF Proceed

(* The other requests have read nothing when they begin.                   *)
LEMMA OtherAnswers ==
  ASSUME seen \in 0..LastBlock.height, NEW r \in Readers, BeginStatus(r) \/ BeginAppCall(r)
  PROVE  \E c : Serve(r, c) /\ AnswerOK(c)
<1>1. CASE BeginStatus(r)
  <2> DEFINE c == Call("status", NoParam, 0, StatusFields)
  <2>1. Serve(r, c)
    BY <1>1, Zenon DEF BeginStatus, Begin
  <2>2. c.kind = "status" /\ c.outcome = "pending" /\ c.before = seen /\ c.todo = StatusFields
    BY DEF Call
  <2>3. "status" \notin HeightKinds \cup SearchKinds /\ StatusFields # <<"time">>
    BY DEF HeightKinds, SearchKinds, StatusFields
  <2> HIDE DEF c
  <2>4. AnswerOK(c)
    BY <2>2, <2>3, NothingToldYet, Zenon
  <2>5. QED
    BY <2>1, <2>4, Zenon
<1>2. CASE BeginAppCall(r)
  <2>1. PICK kind \in AppKinds : Begin(r, [Call(kind, NoParam, 0, <<>>) EXCEPT !.agreed = Agreed])
    BY <1>2, Zenon DEF BeginAppCall
  <2> DEFINE c == [Call(kind, NoParam, 0, <<>>) EXCEPT !.agreed = Agreed]
  <2>2. Serve(r, c)
    BY <2>1, Zenon DEF Begin
  <2>3. c.kind = kind /\ c.outcome = "pending" /\ c.before = seen
    BY DEF Call
  <2>4. kind \notin HeightKinds \cup SearchKinds /\ kind # "status"
    BY DEF AppKinds, HeightKinds, SearchKinds
  <2> HIDE DEF c
  <2>5. AnswerOK(c)
    BY <2>3, <2>4, NothingToldYet, Zenon
  <2>6. QED
    BY <2>2, <2>5, Zenon
<1>3. QED
  BY <1>1, <1>2, Zenon

(* The values of a function on a finite set are finitely many.             *)
LEMMA FiniteRange ==
  ASSUME NEW S, IsFiniteSet(S), NEW f, f = [x \in S |-> f[x]]
  PROVE  IsFiniteSet({f[x] : x \in S})
<1> DEFINE R == {f[x] : x \in S}
<1>1. f \in [S -> R] /\ \A y \in R : \E x \in S : f[x] = y
  OBVIOUS
<1>2. f \in Surjection(S, R)
  BY <1>1, Zenon DEF Surjection
<1>3. QED
  BY <1>2, FS_Surjection, Zenon

(* The index is finite, for it holds heights and transactions of stored    *)
(* blocks only.                                                            *)
LEMMA IndexIsFinite ==
  ASSUME TypeOK, StoresAgree, IndexMatchesStores
  PROVE  IsFiniteSet(blockIndex) /\ IsFiniteSet(DOMAIN txIndex)
<1> DEFINE n == LastBlock.height
           Content(h) == {blocks[h].txs[i] : i \in 1..Len(blocks[h].txs)}
           content == [h \in 1..n |-> Content(h)]
           C == {content[h] : h \in 1..n}
<1>1. n \in Nat /\ DOMAIN blocks = 1..n
  BY Zenon DEF TypeOK, StateTypeOK, ClientTypeOK, IsBlock, StoresAgree
<1>2. IsFiniteSet(1..n)
  <2>1. 1 \in Int /\ n \in Int
    BY <1>1
  <2>2. QED
    BY <2>1, FS_Interval
<1>3. blockIndex \subseteq 1..n
  BY <1>1, Zenon DEF IndexMatchesStores
<1>4. ASSUME NEW h \in 1..n
      PROVE  /\ DOMAIN blocks[h].txs = 1..Len(blocks[h].txs)
             /\ IsFiniteSet(Content(h))
  <2>1. blocks[h].txs \in Seq(Txs)
    BY <1>1, Zenon DEF TypeOK
  <2>2. /\ DOMAIN blocks[h].txs = 1..Len(blocks[h].txs) /\ Len(blocks[h].txs) \in Int
        /\ blocks[h].txs = [i \in 1..Len(blocks[h].txs) |-> blocks[h].txs[i]]
    BY <2>1
  <2>3. IsFiniteSet(1..Len(blocks[h].txs))
    BY <2>2, FS_Interval
  <2>4. IsFiniteSet({blocks[h].txs[i] : i \in 1..Len(blocks[h].txs)})
    BY <2>2, <2>3, FiniteRange
  <2>5. QED
    BY <2>2, <2>4, Zenon
<1> HIDE DEF n, Content
<1>5. IsFiniteSet(C)
  <2>1. content = [h \in 1..n |-> content[h]]
    OBVIOUS
  <2> HIDE DEF content
  <2>2. QED
    BY <1>2, <2>1, FiniteRange
<1>6. IsFiniteSet(UNION C)
  <2>1. \A T \in C : IsFiniteSet(T)
    BY <1>4, Zenon
  <2>2. QED
    BY <1>5, <2>1, FS_UNION
<1>7. DOMAIN txIndex \subseteq UNION C
  <2> SUFFICES ASSUME NEW x \in DOMAIN txIndex PROVE x \in UNION C
    BY Zenon
  <2> DEFINE h == txIndex[x].height
             i == txIndex[x].index + 1
  <2>1. h \in 1..n /\ i \in DOMAIN blocks[h].txs /\ blocks[h].txs[i] = x
    BY <1>3, Zenon DEF IndexMatchesStores
  <2>2. i \in 1..Len(blocks[h].txs)
    BY <1>4, <2>1, Zenon
  <2> HIDE DEF h, i
  <2>3. x \in Content(h)
    BY <2>1, <2>2, Zenon DEF Content
  <2>4. content[h] = Content(h) /\ content[h] \in C
    BY <2>1, Zenon
  <2>5. QED
    BY <2>3, <2>4, Zenon
<1>8. QED
  BY <1>2, <1>3, <1>6, <1>7, FS_Subset, Zenon

(* The results of a search are finitely many, at heights that are stored.  *)
LEMMA FoundIsStored ==
  ASSUME TypeOK, StoresAgree, IndexMatchesStores, NEW kind
  PROVE  IsFiniteSet(Found(kind)) /\ \A f \in Found(kind) : f.height \in 1..LastBlock.height
<1>1. IsFiniteSet(blockIndex) /\ IsFiniteSet(DOMAIN txIndex)
  BY IndexIsFinite, Zenon
<1>2. /\ blockIndex \subseteq 1..LastBlock.height
      /\ \A x \in DOMAIN txIndex : txIndex[x].height \in 1..LastBlock.height
  BY Zenon DEF IndexMatchesStores, StoresAgree
<1>3. CASE kind = "block_search"
  <2> DEFINE place == [h \in blockIndex |-> [height |-> h, index |-> 0, tx |-> NoTx]]
  <2>1. Found(kind) = {place[h] : h \in blockIndex}
    BY <1>3 DEF Found
  <2>2. place = [h \in blockIndex |-> place[h]] /\ \A h \in blockIndex : place[h].height = h
    OBVIOUS
  <2> HIDE DEF place
  <2>3. IsFiniteSet({place[h] : h \in blockIndex})
    BY <1>1, <2>2, FiniteRange
  <2>4. QED
    BY <1>2, <2>1, <2>2, <2>3, Zenon
<1>4. CASE kind # "block_search"
  <2> DEFINE place == [x \in DOMAIN txIndex |-> FoundTx(x)]
  <2>1. Found(kind) = {place[x] : x \in DOMAIN txIndex}
    BY <1>4 DEF Found
  <2>2. \A x \in DOMAIN txIndex : place[x].height = txIndex[x].height
    BY DEF FoundTx
  <2>3. place = [x \in DOMAIN txIndex |-> place[x]]
    BY Zenon
  <2> HIDE DEF place
  <2>4. IsFiniteSet({place[x] : x \in DOMAIN txIndex})
    BY <1>1, <2>3, FiniteRange
  <2>5. QED
    BY <1>2, <2>1, <2>2, <2>4, Zenon
<1>5. QED
  BY <1>3, <1>4, Zenon

(* What is found at stored heights is answered with their largest one, and *)
(* the blocks that are still to be read are stored.                        *)
LEMMA ResultsAnswer ==
  ASSUME LastBlock.height \in Nat, seen \in 0..LastBlock.height, NEW kind \in SearchKinds,
         NEW F, \A f \in F : f.height \in 1..LastBlock.height, NEW results \in Seq(F), NEW prove
  PROVE  AnswerOK(WithBlocks(kind, results, prove))
<1> DEFINE heights == {results[i].height : i \in DOMAIN results}
           height == Largest(heights)
           todo == [i \in DOMAIN results |-> <<"blocks", results[i].height>>]
           new == Call(kind, NoParam, height, <<>>)
           rest == [new EXCEPT !.todo = todo]
           all == End([new EXCEPT !.got = results], "ok")
<1>1. \A i \in DOMAIN results : results[i] \in F
  OBVIOUS
<1>2. height \in 0..LastBlock.height
  <2>1. heights \subseteq 1..LastBlock.height
    BY <1>1, Zenon
  <2>2. heights \subseteq 0..LastBlock.height
    BY <2>1
  <2> HIDE DEF heights
  <2>3. QED
    BY <2>2, LargestIsLargest, Zenon
<1>3. todo \in Seq({"blocks"} \X (1..LastBlock.height))
  <2>1. \A i \in DOMAIN results : <<"blocks", results[i].height>> \in {"blocks"} \X (1..LastBlock.height)
    BY <1>1
  <2>2. DOMAIN results = 1..Len(results) /\ Len(results) \in Nat
    OBVIOUS
  <2>3. QED
    BY <2>1, <2>2
<1> HIDE DEF heights, height, todo
<1>4. /\ rest.kind = kind /\ rest.height = height /\ rest.todo = todo /\ rest.before = seen
      /\ rest.outcome = "pending"
  BY DEF Call
<1>5. all.kind = kind /\ all.height = height /\ all.before = seen /\ all.outcome = "ok"
  BY DEF Call, End
<1>6. kind \notin HeightKinds \cup {"status"}
  BY DEF SearchKinds, HeightKinds
<1>7. "pending" # "notFound" /\ "ok" # "notFound" /\ "ok" # "pending"
  OBVIOUS
<1>8. WithBlocks(kind, results, prove) = IF prove /\ results # <<>> THEN rest ELSE all
  BY Zenon DEF WithBlocks, todo, height, heights
<1> HIDE DEF rest, all
<1>9. AnswerOK(rest)
  BY <1>2, <1>3, <1>4, <1>6, <1>7, Zenon DEF AnswerOK
<1>10. AnswerOK(all)
  BY <1>2, <1>5, <1>6, <1>7, Zenon DEF AnswerOK
<1>11. QED
  BY <1>8, <1>9, <1>10, Zenon

(* The results of a search are a page of what the index holds.             *)
LEMMA SearchAnswers ==
  ASSUME TypeOK, StoresAgree, IndexMatchesStores, seen \in 0..LastBlock.height,
         NEW r \in Readers, BeginSearch(r) \/ BeginTx(r)
  PROVE  \E c : Serve(r, c) /\ AnswerOK(c)
<1>1. LastBlock.height \in Nat
  BY Zenon DEF TypeOK, StateTypeOK, ClientTypeOK, IsBlock
<1>2. ASSUME NEW kind PROVE AnswerOK(Fail(kind, "error"))
  BY RefusalTellsNothing
<1>3. CASE BeginSearch(r)
  <2>1. PICK kind \in {"block_search", "tx_search"}, page \in PageParams :
          \E order, prove, descending :
            \E results \in Sorted(Found(kind), descending) :
              LET perPage == validatePerPage(page[2])
              IN  Begin(r, IF order \in {"", "asc", "desc"} /\ PageExists(page[1], perPage, Len(results))
                             THEN WithBlocks(kind, Page(results, PageNumber(page[1]), perPage), prove)
                             ELSE Fail(kind, "error"))
    BY <1>3, Zenon DEF BeginSearch
  <2>2. PICK order, prove, descending :
          \E results \in Sorted(Found(kind), descending) :
            LET perPage == validatePerPage(page[2])
            IN  Begin(r, IF order \in {"", "asc", "desc"} /\ PageExists(page[1], perPage, Len(results))
                           THEN WithBlocks(kind, Page(results, PageNumber(page[1]), perPage), prove)
                           ELSE Fail(kind, "error"))
    BY <2>1, Zenon
  <2>3. PICK results \in Sorted(Found(kind), descending) :
          LET perPage == validatePerPage(page[2])
          IN  Begin(r, IF order \in {"", "asc", "desc"} /\ PageExists(page[1], perPage, Len(results))
                         THEN WithBlocks(kind, Page(results, PageNumber(page[1]), perPage), prove)
                         ELSE Fail(kind, "error"))
    BY <2>2, Zenon
  <2> DEFINE perPage == validatePerPage(page[2])
             part == Page(results, PageNumber(page[1]), perPage)
  <2>4. /\ IsFiniteSet(Found(kind))
        /\ \A f \in Found(kind) : f.height \in 1..LastBlock.height
    BY FoundIsStored, Zenon
  <2>5. results \in Seq(Found(kind))
    <3>1. Cardinality(Found(kind)) \in Nat
      BY <2>4, FS_CardinalityType, Zenon
    <3>2. results \in [1..Cardinality(Found(kind)) -> Found(kind)]
      BY Zenon DEF Sorted
    <3>3. QED
      BY <3>1, <3>2
  <2>6. perPage \in Nat \ {0}
    <3>1. page[2] \in Int \cup {NoParam}
      BY RpcConstantsHaveTypes
    <3>2. perPage \in 1..MaxPerPage
      BY <3>1, PerPageIsValid
    <3>3. QED
      BY <3>2, PageSizesAreValid
  <2> HIDE DEF perPage
  <2>7. ASSUME PageExists(page[1], perPage, Len(results)) PROVE AnswerOK(WithBlocks(kind, part, prove))
    <3>1. Len(results) \in Nat
      BY <2>5
    <3>2. PageNumber(page[1]) \in 1..Pages(Len(results), perPage)
      BY <2>6, <2>7, <3>1, PageIsValid, Zenon
    <3>3. part \in Seq(Found(kind))
      BY <2>5, <2>6, <3>2, PageOfResults, Zenon
    <3>4. kind \in SearchKinds
      BY DEF SearchKinds
    <3> HIDE DEF part
    <3>5. QED
      BY <1>1, <2>4, <3>3, <3>4, ResultsAnswer, Zenon
  <2>8. Serve(r, IF order \in {"", "asc", "desc"} /\ PageExists(page[1], perPage, Len(results))
                   THEN WithBlocks(kind, part, prove) ELSE Fail(kind, "error"))
    BY <2>3, Zenon DEF Begin, perPage
  <2>9. QED
    BY <1>2, <2>7, <2>8, Zenon
<1>4. CASE BeginTx(r)
  <2>1. PICK x \in Txs, prove \in BOOLEAN :
          Begin(r, IF x \in DOMAIN txIndex THEN WithBlocks("tx", <<FoundTx(x)>>, prove) ELSE Fail("tx", "error"))
    BY <1>4, Zenon DEF BeginTx
  <2>2. ASSUME x \in DOMAIN txIndex PROVE AnswerOK(WithBlocks("tx", <<FoundTx(x)>>, prove))
    <3>1. FoundTx(x) \in Found("tx")
      BY <2>2 DEF Found
    <3>2. <<FoundTx(x)>> \in Seq(Found("tx"))
      BY <3>1
    <3>3. \A f \in Found("tx") : f.height \in 1..LastBlock.height
      BY FoundIsStored, Zenon
    <3>4. "tx" \in SearchKinds
      BY DEF SearchKinds
    <3>5. QED
      BY <1>1, <3>2, <3>3, <3>4, ResultsAnswer, Zenon
  <2>3. QED
    BY <1>2, <2>1, <2>2, Zenon DEF Begin
<1>5. QED
  BY <1>3, <1>4, Zenon

-----------------------------------------------------------------------------
(* The invariant of the answers, relative to the others.                   *)

(* Nobody has been told anything at first.                                 *)
LEMMA InitAnswers == Init /\ RpcInit => AnswerInv
<1> SUFFICES ASSUME Init, RpcInit PROVE AnswerInv
  OBVIOUS
<1>1. LastBlock.height = 0
  BY DEF Init, EmptyBlock
<1>2. seen \in 0..LastBlock.height
  BY <1>1 DEF RpcInit
<1>3. \A r \in Readers : calls[r] = Fail("status", "none")
  BY Zenon DEF RpcInit, Fail, End
<1>4. AnswerOK(Fail("status", "none"))
  BY <1>2, RefusalTellsNothing
<1>5. QED
  BY <1>2, <1>3, <1>4, Zenon DEF AnswerInv

(* Blocks are stored, applied, committed and indexed while readers take    *)
(* their steps.                                                            *)
LEMMA StepAnswers ==
  ASSUME TypeOK, StoresAgree, TipInv, ChainGrows, IndexMatchesStores, AppsOnChain, RpcInv, StatusInv, AppReadInv,
         AnswerInv, [RpcNext]_<<vars, busVars, rpcVars>>
  PROVE  AnswerInv'
<1>1. /\ LastBlock.height \in Nat /\ LastBlock'.height \in Nat /\ LastBlock.height <= LastBlock'.height
      /\ 0..LastBlock.height \subseteq 0..LastBlock'.height
  BY DEF ChainGrows
<1>2. /\ seen \in 0..LastBlock.height
      /\ calls = [q \in Readers |-> calls[q]]
      /\ \A r \in Readers : /\ IsCall(calls[r]) /\ ReadOK(calls[r]) /\ StatusOK(calls[r])
                           /\ AppOK(calls[r]) /\ AnswerOK(calls[r])
  BY Zenon DEF RpcInv, ReadOK, StatusInv, AppReadInv, AnswerInv
<1>3. ASSUME NEW r, NEW c, calls'[r] = c, AnswerOK(c)' PROVE AnswerOK(calls[r])'
  BY <1>3, Zenon DEF AnswerOK, Tells
<1>4. ASSUME NEW c, AnswerOK(c) PROVE AnswerOK(c)'
  BY <1>1, <1>4, AnswerStaysOK, Zenon
<1>5. CASE BusNext /\ NoteAgreement /\ UNCHANGED <<reads, seen>>
  <2>1. ASSUME NEW r \in Readers PROVE \E d : calls'[r] = d /\ AnswerOK(d)'
    <3> DEFINE c == calls[r]
               d == [c EXCEPT !.agreed = c.agreed \cup Agreed']
    <3>1. calls'[r] = IF Pending(r, AppKinds) THEN d ELSE c
      BY <1>5, Zenon DEF NoteAgreement
    <3>2. /\ d.kind = c.kind /\ d.want = c.want /\ d.height = c.height /\ d.todo = c.todo
          /\ d.before = c.before /\ d.outcome = c.outcome
      BY <1>2 DEF IsCall, Fields
    <3>3. \E e : /\ calls'[r] = e
                 /\ e.kind = c.kind /\ e.want = c.want /\ e.height = c.height /\ e.todo = c.todo
                 /\ e.before = c.before /\ e.outcome = c.outcome
      BY <3>1, <3>2, Zenon
    <3> HIDE DEF d
    <3>4. \E a, e : /\ calls'[r] = e /\ AnswerOK(a)
                    /\ e.kind = a.kind /\ e.want = a.want /\ e.height = a.height /\ e.todo = a.todo
                    /\ e.before = a.before /\ e.outcome = a.outcome
      BY <1>2, <3>3, Zenon
    <3>5. PICK a, e : /\ calls'[r] = e /\ AnswerOK(a)
                      /\ e.kind = a.kind /\ e.want = a.want /\ e.height = a.height /\ e.todo = a.todo
                      /\ e.before = a.before /\ e.outcome = a.outcome
      BY <3>4, Zenon
    <3>6. AnswerOK(e)'
      BY <1>1, <3>5, AnswerStaysOK, Zenon
    <3>7. QED
      BY <3>5, <3>6, Zenon
  <2>2. \A r \in Readers : AnswerOK(calls[r])'
    BY <1>3, <2>1, Zenon
  <2>3. seen' = seen
    BY <1>5, Zenon
  <2>4. QED
    BY <1>1, <1>2, <2>2, <2>3, Zenon DEF AnswerInv
<1>6. ASSUME NEW r \in Readers, NewRequest(r) \/ ReadStep(r) PROVE AnswerInv'
  <2>1. StateTypeOK
    BY Zenon DEF TypeOK
  <2>2. PICK c : Serve(r, c) /\ AnswerOK(c)
    BY <1>1, <1>2, <1>6, <2>1, HeightAnswers, GetterAnswers, FieldAnswers, AppAnswers, OtherAnswers, SearchAnswers, Zenon
       DEF NewRequest, ReadStep
  <2>3. calls' = [s \in Readers |-> IF s = r THEN c ELSE calls[s]]
    BY <1>2, <2>2 DEF Serve
  <2>4. \A s \in Readers : \E d : calls'[s] = d /\ AnswerOK(d)
    BY <1>2, <2>2, <2>3, Zenon
  <2>5. \A s \in Readers : AnswerOK(calls[s])'
    BY <1>3, <1>4, <2>4, Zenon
  <2>6. seen' \in 0..LastBlock.height
    <3>1. CASE c.outcome = "ok"
      <4>1. c.height \in 0..LastBlock.height
        BY <2>2, <3>1, Zenon DEF AnswerOK, Tells
      <4>2. {seen, c.height} \subseteq 0..LastBlock.height
        BY <1>2, <4>1, Zenon
      <4>3. Largest({seen, c.height}) \in 0..LastBlock.height
        BY <1>1, <4>2, LargestIsLargest, Zenon
      <4>4. QED
        BY <2>2, <3>1, <4>3, Zenon DEF Serve
    <3>2. QED
      BY <1>2, <2>2, <3>1, Zenon DEF Serve
  <2>7. QED
    BY <1>1, <2>5, <2>6, Zenon DEF AnswerInv
<1>7. CASE UNCHANGED <<vars, busVars, rpcVars>>
  <2>1. calls' = calls /\ seen' = seen
    BY <1>7, Zenon DEF rpcVars
  <2>2. \A r \in Readers : AnswerOK(calls[r])'
    BY <1>2, <1>3, <1>4, <2>1, Zenon
  <2>3. QED
    BY <1>1, <1>2, <2>1, <2>2, Zenon DEF AnswerInv
<1>8. QED
  BY <1>5, <1>6, <1>7, Zenon DEF RpcNext

(* What answers tell is as it should be.                                   *)
LEMMA AnswerInvHolds == RpcSpec => []AnswerInv
<1>1. ASSUME TypeOK, TypeOK', StorageInv, StorageInv', AppInv, GenesisTip, TipInv, IndexMatchesStores, AppsOnChain,
             RpcInv, StatusInv, AppReadInv, AnswerInv, [StoresKept]_vars, [RpcNext]_<<vars, busVars, rpcVars>>
      PROVE  AnswerInv'
  <2>1. StateTypeOK /\ StateTypeOK' /\ StoresAgree
    BY <1>1, Zenon DEF TypeOK, StorageInv, Stores
  <2>2. ChainGrows
    BY <1>1, <2>1, ChainGrowsForReaders, Zenon
  <2>3. QED
    BY <1>1, <2>1, <2>2, StepAnswers, Zenon
<1>2. Spec => [][StoresKept]_vars
  BY StoresAreKept
<1>3. QED
  BY <1>1, <1>2, InitAnswers, ReadersDoNotDisturb, RpcIsProduction, TypeCorrect, InvHolds, AppInvHolds, GenesisTipHolds,
     TipInvHolds, IndexIsSound, AppsOnChainHolds, RpcInvHolds, StatusInvHolds, AppReadInvHolds, PTL DEF RpcSpec

(* A request for a height that getHeight accepts, and one for blocks or    *)
(* transactions that the index knows, finds its entries in the storage,    *)
(* whatever has been stored since LastBlock or the index was read.         *)
THEOREM AnswersAreFound == RpcSpec => []AnswersFound
<1>1. AnswerInv => AnswersFound
  BY Zenon DEF AnswerInv, AnswerOK, AnswersFound
<1>2. QED
  BY <1>1, AnswerInvHolds, PTL

(* Answers never go back: a request for the latest height, or for the      *)
(* status, tells no less than any answer that was given before it began,   *)
(* be it from LastBlock, the storage, the index or the applications.       *)
THEOREM AnswersGoForward == RpcSpec => []ReadsGoForward
<1>1. AnswerInv => ReadsGoForward
  BY Zenon DEF AnswerInv, AnswerOK, Tells, ReadsGoForward, Answered
<1>2. QED
  BY <1>1, AnswerInvHolds, PTL

(* At any time the validators, the indexed blocks and the indexed          *)
(* transactions are cut into pages that cover each of them once.           *)
THEOREM PagesCoverOnce == RpcSpec => []PagesPartition
<1>1. ASSUME TypeOK, StoresAgree, IndexMatchesStores PROVE PagesPartition
  <2>1. IsFiniteSet(blockIndex) /\ IsFiniteSet(DOMAIN txIndex)
    BY <1>1, IndexIsFinite, Zenon
  <2>2. IsFiniteSet(CurrentValidators)
    <3>1. CurrentValidators \subseteq Addresses
      BY Zenon DEF CurrentValidators, Members
    <3>2. QED
      BY <3>1, AddressesAreOrdered, FS_Subset, Zenon
  <2>3. /\ Cardinality(CurrentValidators) \in Nat /\ Cardinality(blockIndex) \in Nat
        /\ Cardinality(DOMAIN txIndex) \in Nat
    BY <2>1, <2>2, FS_CardinalityType, Zenon
  <2>4. \A perPage \in 1..MaxPerPage : perPage \in Nat \ {0}
    BY PageSizesAreValid
  <2>5. QED
    BY <2>3, <2>4, PagesArePartitions, Zenon DEF PagesPartition
<1>2. QED
  BY <1>1, ReadersDoNotDisturb, RpcIsProduction, TypeCorrect, StorageIsConsistent, IndexIsSound, PTL
=============================================================================
