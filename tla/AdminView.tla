------------------------------ MODULE AdminView ------------------------------
(***************************************************************************)
(* The pages of the admin UI (internal/admin/helpers.go), read while the   *)
(* administrator and the proxy write the same tables.                      *)
(*                                                                         *)
(* Every page is made by commonData: four queries, one after the other and *)
(* in no transaction, a filter over the transactions, and sums over them.  *)
(* A page is a record with a program counter; each query is a step.        *)
(***************************************************************************)
EXTENDS Store, Sequences, SequencesExt

CONSTANTS
  Browsers,    \* requests for pages under way
  BaseURL(_),  \* baseURL of the resource of the row with that id
  Amounts,     \* amounts the proxy records
  MaxRows,     \* bound on the rows the proxy records
  NoChoice      \* an empty field of the filter form

ASSUME AdminViewAssumption ==
  /\ Amounts \subseteq Int /\ MaxRows \in Nat
  /\ NoChoice \notin UserIds \cup WalletIds

VARIABLES
  page,      \* what each request has read so far
  recorded   \* number of rows the proxy has recorded

viewVars == <<page, recorded>>
vars     == <<storeVars, viewVars>>

\* The fields of the filter form; a resource is chosen by its base URL.
Resources == {BaseURL(id) : id \in 1..MaxRows}
Filter == [user : UserIds \cup {NoChoice}, wallet : WalletIds \cup {NoChoice},
           resource : Resources \cup {NoChoice}]
NoFilter == [user |-> NoChoice, wallet |-> NoChoice, resource |-> NoChoice]

PagePCs == {"idle",        \* no request, or its page was sent
            "wallets",     \* users listed, wallets next
            "rows",        \* wallets listed, transactions next
            "access",      \* transactions listed and filtered, assignments next
            "render",      \* assignments listed, clock and sums next
            "rendered"}    \* pageData is complete

Blank == [pc |-> "idle", filter |-> NoFilter, users |-> {}, wallets |-> {},
          all |-> <<>>, shown |-> <<>>, access |-> {}, resources |-> {},
          consumption |-> <<>>, listed |-> {}, before |-> {}, at |-> 0]

Page == [pc : PagePCs, filter : Filter, users : SUBSET UserIds,
         wallets : SUBSET WalletIds, all : Seq(Row), shown : Seq(Row),
         access : SUBSET (UserIds \X WalletIds), resources : SUBSET Resources,
         consumption : [UserIds \X WalletIds -> Int] \cup {<<>>},
         listed : SUBSET Row,                      \* history: the rows as queried
         before : SUBSET Row,                      \* history: the rows at the start
         at : 0..MaxClock]

\* The type of the variables this module adds to the tables.
ViewTypeOK == page \in [Browsers -> Page] /\ recorded \in 0..MaxRows

-----------------------------------------------------------------------------
(* The filter and the sums.                                                *)

Matches(filter, t) ==
  /\ filter.user \in {NoChoice, t.user}
  /\ filter.wallet \in {NoChoice, t.wallet}
  /\ filter.resource \in {NoChoice, BaseURL(t.id)}

\* Fault model: a row that is filtered out leaves a gap that is never closed.
FilterWithGaps(rows, filter) ==
  LET loop[i \in 0..Len(rows)] ==
        IF i = 0 THEN [array |-> rows, kept |-> 0]
        ELSE IF Matches(filter, loop[i - 1].array[i])
             THEN [loop[i - 1] EXCEPT !.kept = i]
             ELSE loop[i - 1]
  IN loop[Len(rows)]

\* filtered := transactions[:0] shares its array with transactions: a row that
\* is kept is written over the first one that was not, while the loop ranges
\* over the same array.
FilterInPlace(rows, filter) ==
  LET loop[i \in 0..Len(rows)] ==
        IF i = 0 THEN [array |-> rows, kept |-> 0]
        ELSE LET before == loop[i - 1]
                 t == before.array[i]
             IN IF Matches(filter, t)
                THEN [array |-> [before.array EXCEPT ![before.kept + 1] = t],
                      kept |-> before.kept + 1]
                ELSE before
  IN loop[Len(rows)]

\* Fault model: the query of the history returns its first page only.
LatestOnly(rows) ==
  IF rows = {} THEN {<<>>}
  ELSE {<<t>> : t \in {r \in rows : \A s \in rows : r.createdAt >= s.createdAt}}

\* ORDER BY created_at DESC: rows of the same second in any order.
NewestFirst(rows) ==
  {s \in SetToSeqs(rows) :
     \A i, j \in DOMAIN s : i < j => s[i].createdAt >= s[j].createdAt}

ResourceBaseURLs(rows) == {BaseURL(rows[i].id) : i \in DOMAIN rows}

\* Fault model: the key of the sums forgets the wallet.
ConsumptionByUser(rows) ==
  [u \in UserIds |->
     MapThenSumSet(LAMBDA i : rows[i].amount,
       {i \in DOMAIN rows : /\ u = rows[i].user /\ rows[i].status = "success"
                            /\ rows[i].createdAt >= StartOfMonth})]

\* Fault model: failed and denied payments count as well.
ConsumptionOfAllRows(rows) ==
  [p \in UserIds \X WalletIds |->
     MapThenSumSet(LAMBDA i : rows[i].amount,
       {i \in DOMAIN rows : /\ p = <<rows[i].user, rows[i].wallet>>
                            /\ rows[i].createdAt >= StartOfMonth})]

ConsumptionByUserWallet(rows) ==
  [p \in UserIds \X WalletIds |->
     MapThenSumSet(LAMBDA i : rows[i].amount,
       {i \in DOMAIN rows : /\ p = <<rows[i].user, rows[i].wallet>>
                            /\ rows[i].status = "success"
                            /\ rows[i].createdAt >= StartOfMonth})]

-----------------------------------------------------------------------------
(* One request for a page.                                                 *)

Read(b, pc, record) == /\ page[b].pc = pc
                       /\ page' = [page EXCEPT ![b] = record]
                       /\ UNCHANGED <<storeVars, recorded>>

RequestPage(b, filter) ==
  Read(b, "idle", [Blank EXCEPT !.pc = "wallets", !.filter = filter,
                                !.users = DOMAIN proxyUsers, !.before = transactions])

ListWallets(b) ==
  Read(b, "wallets", [page[b] EXCEPT !.pc = "rows", !.wallets = DOMAIN wallets])

FilterTransactions(b) ==
  \E rows \in NewestFirst(transactions) :
    LET result == FilterInPlace(rows, page[b].filter)
    IN Read(b, "rows", [page[b] EXCEPT
              !.pc = "access", !.all = result.array,
              !.shown = SubSeq(result.array, 1, result.kept), !.listed = transactions])

ListUserWallets(b) ==
  Read(b, "access", [page[b] EXCEPT !.pc = "render", !.access = DOMAIN userWallet])

Render(b) ==
  Read(b, "render", [page[b] EXCEPT
         !.pc = "rendered", !.at = StartOfMonth,
         !.consumption = ConsumptionByUserWallet(page[b].all),
         !.resources = ResourceBaseURLs(page[b].all)])

\* The page is sent, or a query failed and an error is sent instead.
SendPage(b) == page[b].pc # "idle" /\ Read(b, page[b].pc, Blank)

\* The proxy writes down a payment, or a denial, of a user for a wallet.  Only
\* what was signed for succeeds, and no negative amount is.
RowRecorded ==
  /\ recorded < MaxRows /\ recorded' = recorded + 1
  /\ \E u \in UserIds, w \in WalletIds, amount \in Amounts,
        status \in {"success", "failed_unknown"} :
       /\ {u, w} \subseteq issued
       /\ status = "success" => amount >= 0
       /\ InsertTransaction(recorded + 1, u, w, amount, status)
  /\ UNCHANGED page

Init == StoreInit /\ page = [b \in Browsers |-> Blank] /\ recorded = 0

PageStep(b) == \/ \E filter \in Filter : RequestPage(b, filter)
               \/ ListWallets(b) \/ FilterTransactions(b) \/ ListUserWallets(b)
               \/ Render(b) \/ SendPage(b)

Next == \/ \E b \in Browsers : PageStep(b)
        \/ RowRecorded
        \/ (AdminNext \/ Tick) /\ UNCHANGED viewVars

Spec == Init /\ [][Next]_vars
-----------------------------------------------------------------------------
(* What makes a page right.                                                *)

\* The history that a page shows is exactly what matches the filter, in the
\* order of the query, although the loop overwrites the rows it ranges over.
ShownMatchesFilter ==
  \A b \in Browsers : page[b].pc \in {"access", "render", "rendered"} =>
    LET shown == page[b].shown
    IN /\ IsInjective(shown)
       /\ Range(shown) = {t \in page[b].listed : Matches(page[b].filter, t)}
       /\ \A i, j \in DOMAIN shown : i < j => shown[i].createdAt >= shown[j].createdAt

\* A page without a filter shows, for every assignment, the consumption from
\* which the proxy would decide, had it read the same rows: the two sums are
\* separate code (consumptionByUserWallet, currentMonthConsumption).
ConsumptionAgrees ==
  \A b \in Browsers :
    page[b].pc = "rendered" /\ page[b].filter = NoFilter /\ page[b].at = StartOfMonth =>
      \A p \in page[b].access :
        page[b].consumption[p] =
          CurrentMonthConsumption({t \in page[b].listed : t.user = p[1]}, p[2])

\* What the proxy would count this month for a pair, of some rows.
CountFor(rows, p) == CurrentMonthConsumption({t \in rows : t.user = p[1]}, p[2])

\* A page is put together from four queries and a reading of the clock, in no
\* transaction, while payments are recorded and months turn (helpers.go:43).
\* What an unfiltered page says was consumed is nevertheless no less than what
\* the proxy counted when the page was asked for, and no more than it counts by
\* now, in the month of the page.
ConsumptionCurrent ==
  \A b \in Browsers :
    page[b].pc = "rendered" /\ page[b].filter = NoFilter /\ page[b].at = StartOfMonth =>
      \A p \in page[b].access :
        /\ CountFor(page[b].before, p) <= page[b].consumption[p]
        /\ page[b].consumption[p] <= CountFor(transactions, p)

\* helpers.go:52 keeps all transactions next to the filtered ones, and collects
\* the resources of the filter form from all of them (helpers.go:71): the form
\* offers every resource of the history, whatever is filtered for now.
FormOffersAllResources ==
  \A b \in Browsers : page[b].pc = "rendered" =>
    page[b].resources = {BaseURL(t.id) : t \in page[b].listed}
=============================================================================
