----------------------------- MODULE Pagination -----------------------------
(***************************************************************************)
(* How Validators, BlockSearch and TxSearch (rpc_server/routes.go) cut     *)
(* their results into pages.                                               *)
(***************************************************************************)
EXTENDS Integers, Sequences

CONSTANTS DefaultPerPage,   \* defaultPerPage
          MaxPerPage,       \* maxPerPage
          NoParam           \* a parameter that is not given

ASSUME PageSizesAreValid == /\ MaxPerPage \in Nat /\ DefaultPerPage \in 1..MaxPerPage
                            /\ NoParam \notin Int

(* Division of Go integers rounds towards zero.                            *)
Quotient(a, b) == IF a >= 0 THEN a \div b ELSE -((-a) \div b)

validatePerPage(perPage) ==
  IF perPage = NoParam \/ perPage < 1 THEN DefaultPerPage
  ELSE IF perPage > MaxPerPage THEN MaxPerPage ELSE perPage

(* Faulty variant: a full last page is followed by an empty one.           *)
PagesRoundedUp(total, perPage) == Quotient(total, perPage) + 1

(* The number of pages: one, even if it is empty.                          *)
Pages(total, perPage) ==
  LET pages == Quotient(total - 1, perPage) + 1
  IN  IF pages = 0 THEN 1 ELSE pages

(* Whether validatePage returns a page, and which.                         *)
PageExists(page, perPage, total) == page = NoParam \/ page \in 1..Pages(total, perPage)
PageNumber(page) == IF page = NoParam THEN 1 ELSE page

validateSkipCount(page, perPage) ==
  IF (page - 1) * perPage < 0 THEN 0 ELSE (page - 1) * perPage

PageSize(page, perPage, total) ==
  LET rest == total - validateSkipCount(page, perPage)
  IN  IF perPage <= rest THEN perPage ELSE rest

(* The part of the results that is returned.                               *)
Page(results, page, perPage) ==
  LET skip == validateSkipCount(page, perPage)
  IN  SubSeq(results, skip + 1, skip + PageSize(page, perPage, Len(results)))

-----------------------------------------------------------------------------
OnPage(i, page, perPage, total) ==
  /\ validateSkipCount(page, perPage) < i
  /\ i <= validateSkipCount(page, perPage) + PageSize(page, perPage, total)

(* No page reaches outside the results, none but an only page is empty,    *)
(* and every result is on exactly one page.                                *)
Partitioned(total, perPage) ==
  /\ \A p \in 1..Pages(total, perPage) :
       /\ PageSize(p, perPage, total) \in 0..perPage
       /\ total > 0 => PageSize(p, perPage, total) > 0
       /\ validateSkipCount(p, perPage) + PageSize(p, perPage, total) <= total
  /\ \A i \in 1..total :
       \E p \in 1..Pages(total, perPage) :
         /\ OnPage(i, p, perPage, total)
         /\ \A q \in 1..Pages(total, perPage) : OnPage(i, q, perPage, total) => q = p
=============================================================================
