# Formal model of pay4me402 (payformeproxy)

payformeproxy is a forward proxy that pays for its clients. When an upstream
answers `402 Payment Required` with an x402 challenge, the proxy picks a wallet,
checks that the authenticated user may spend from it this month, signs a
payment, repeats the request with the signature, and writes the outcome down. An
admin UI on another port edits the users, wallets, assignments and budgets in
the same SQLite database, while the proxy runs.

The models here are about the money: who may cause a payment, how much can be
spent before the proxy refuses, and whether the history agrees with what was
paid, under concurrency, failures, crashes and administration at any moment. A
second group of models is about what has to be in place for that: a process that
starts, migrates its database and serves, and an admin UI that only its
administrator can use.

## Inventory

| Part | Code | State | Operations | Interacts with | Modelled in |
|---|---|---|---|---|---|
| Proxy server | `internal/proxy/server.go` | per connection: tunnel user, the request in hand, everything `payAndRetry` holds on its stack | CONNECT, request, 402 response, select, authorize, sign, retry, record | upstreams, wallets service, queries | `PayProxy` |
| Payment authorization | `server.go:312-362` | none of its own: reads assignment, rows and clock | `authorizeWalletPayment`, `currentMonthConsumption` | database | `PayProxy`, `Store`; its floating point in `BudgetArithmetic` |
| Database | `internal/db`, `migrations/` | four tables | sqlc statements, cascades | all services | `Store` |
| Users, wallets, user wallets services | `internal/users`, `internal/wallets`, `internal/userwallets` | the tables | create, delete, assign, set budget, remove | admin handlers, proxy | `Store` |
| Admin mutation handlers | `internal/admin/mutation_handlers.go` | none | one service call per POST | services | `Store!AdminNext` |
| Settlement | external facilitator | what has settled on chain | settle a signed payment | receives the retry's signature | `Settlement` |
| x402, Solana, Algorand | `internal/x402`, `internal/solana`, `internal/algorand` | none | decode a challenge, build a signature | RPC nodes | outcomes only, in `PayProxy` |
| Admin pages | `internal/admin/helpers.go`, `page_handlers.go` | a page being put together | filter the history, sum the consumption | queries | `AdminView` |
| Admin session | `internal/admin/auth_handlers.go`, `server.go` | one random token per process, the cookie of a browser | login, logout, `requireAuth` | browsers | `AdminSession` |
| Migrations | `internal/db/migrate.go` | the schema | create tables, add columns, default endpoints | database at start-up | `Startup` |
| Environment file | `internal/env/env.go` | environment variables | `Load`, `Get` | `main` | `Startup` |
| Entry point | `cmd/payformeproxy/main.go` | where a process is, who holds which port | start, migrate, listen twice, end | all of the above | `Startup` |
| CA files, TLS interception, logging, templates, demo | | | I/O and layout | | not modelled |

What is hard here:

* **Check, then act.** The budget is checked against rows that are written only
  after the payment has been signed, sent and answered. Nothing serialises two
  requests of the same user.
* **Snapshots.** User (at CONNECT), wallet, assignment, rows and clock are read
  at different times; the administrator changes the tables in between.
* **Two parties, no transaction.** A signature that has left the process may
  settle although the retry timed out, broke, or was answered with an error.
* **Many exits.** `payAndRetry` has six ways to end, and each must record
  exactly once with the right status; an insert may itself fail and is only logged.
* **Shared arrays.** The admin pages filter the history in the very array from
  which they go on to compute sums and lists.
* **Restart.** An exchange lives in memory only, from the 402 to the insert, and
  so does the session token of the admin UI. A migration consists of statements
  that commit one by one.
* **Rounding.** Budgets are compared in `float64`, whose sums depend on the order
  of the rows.

## Modules

| Module | What it is |
|---|---|
| `Store` | the database: tables as partial functions, the queries, every statement that writes, the cascades; the administrator's operations (`AdminNext`) and the clock (`Tick`) |
| `PayProxy` | extends `Store` with the connections; `Next` interleaves the proxy, the upstreams, the clients, the administrator, the clock and crashes |
| `MCPayProxy` | instances for TLC: offers, seeded tables, restricted environments, and the properties that documents state and the code breaks |
| `Standing`, `MCStanding` | extends `PayProxy` with a history of what was in the tables while each request was served: how old a payment's grounds may be |
| `Spending` | what the proxy promises about money, in six actions over exchanges, payments and rows |
| `SpendingRefinement` | the refinement mapping: `PayProxy` seen as `Spending` |
| `Settlement`, `MCSettlement` | `PayProxy` with a facilitator that settles signed payments at any time |
| `AdminView`, `MCAdminView` | the pages of the admin UI as readers of `Store` among its writers |
| `BudgetArithmetic`, `MCBudgetArithmetic` | the comparison of line 341 alone, in binary floating point of a chosen precision |
| `Startup` | `main`: settings, migration, the two listeners, ends and restarts, for several processes on one database |
| `AdminSession`, `MCAdminSession` | extends `Startup` with a browser that logs in and out; its `Next` composes the two |
| `LeastElements` | lemmas about smallest and largest elements, which the others use instead of induction |
| `StoreProofs` | lemmas about the statements of `Store` (types) and about sums of amounts |
| `PayProxyProofs` | type correctness; at most one payment and one row per exchange, and they agree; no signed payment vanishes |
| `BudgetProofs` | payments are backed by a budget, and by an assignment that stood while their request was served; the overshoot of budgets is bounded, and what exceeds the bound was written off |
| `SpendingProofs` | `PayProxy` implements `Spending` |
| `SessionProofs` | start and login: migrated before serving, settings in force, data change only through a process that was given its credentials |
| `ViewProofs` | the pages of the admin UI are right |
| `ArithmeticProofs` | rounding errors of a month's payments do not add up to a unit |

### How state corresponds to the code

* `proxyUsers`, `wallets`, `userWallet`, `transactions` are the four tables. A row
  of `transactions` carries the number of its exchange instead of a random id.
  `userWallet` is keyed by the pair that `UNIQUE (user_id, wallet_id)` protects.
  Passwords, names of wallets, keys and RPC endpoints are left out; the user name
  is kept for its UNIQUE constraint, so that a name can be used again after a deletion.
* `clock` is wall clock and `CURRENT_TIMESTAMP` in one, coarse, with a month of
  `MonthLength` ticks.
* `conn[c]` is one client connection. goproxy serves one request of a connection
  at a time, whether plain or inside a tunnel, so that the handler's stack is a
  record: `pc` says where it is, `user` is the user in the request context,
  `tunnel` the `ctx.UserData` of a CONNECT, `offer` the options not yet skipped,
  `budget` and `listed` what the two queries returned, `body` whether the body of
  the request has been consumed, `status` the outcome that is about to be recorded.
* `issued`, `grants`, `signed` and `lost` are history variables: no guard of the
  proxy reads `grants`, `signed` or `lost`, and `issued` only stops ids from being
  given twice (they are 128 random bits) and from being typed before they exist.
  So is `stood[c]` of `Standing`: the request's user and its assignments, with
  their budgets, that were in the tables at some time since connection `c` began
  to serve the request, until it is paid for. In `AdminView`, `page[b].before` are
  the rows when a page is asked for and `page[b].listed` those its query found.
* In `Startup`, `proc[p]` is a process: `pc` says where `main` is, `at` which
  migration file or which `ensureColumn` call is next, `settings` what `env.Get`
  gave it, `admin` what became of the goroutine that serves the admin UI. `Values` are
  what variables and lines may be set to; `Unset` is the empty string, which `Load` and
  `Get` take for a variable that is not set. `tables`,
  `columns`, `stored` and `blank` are the database: of the columns only those that
  a later version added, of the wallets only whether they have an endpoint.
  `adminPort` and `proxyPort` say who listens.
* In `AdminSession` a token is known by the process that made it, because it is 32
  random bytes: `cookie` is the token in the browser, `Stale` one whose process has
  gone on to another. `tab[t]` is what one tab has under way: a request, with the
  cookie of the moment it was sent, or an answer that will set the cookie.
  `admitted` is a history variable.
* In `BudgetArithmetic` a float is an integer in steps of `1 / Grid`; `Precision`
  is the number of bits of a significand. `Power` is the power of two, as a recursive
  function, because the provers know nothing of `^`.

### How actions correspond to the code

| Actions | Code |
|---|---|
| `OpenTunnel`, `CloseTunnel`, `BeginRequest` | `HandleConnect`, `OnRequest().DoFunc`, `authenticate`, `isMITMRequest` |
| `PassThrough`, `Challenged` | `OnResponse(StatusCodeIs(402))`, `DecodePaymentRequired` |
| `SkipOption`, `UseWallet`, `GiveUp` | the loop of `selectPayment`, `WalletForChain` |
| `AssignmentFails`, `Unassigned`, `ReadAssignment` | `authorizeWalletPayment` to line 336 |
| `ListTransactions`, `CompareBudget` | `currentMonthConsumption`, the comparison at line 341 |
| `Sign`, `SignFails` | `buildPaymentSignature` and its error exit |
| `RetryAnswered`, `RetryFails` | `client.Do` with its 30 seconds, the status test |
| `Record`, `RecordFails` | `recordTransaction`, the logged errors |
| `Crash` | the process ends (main's `os.Exit`, a kill) and is started again |
| `AdminNext` | the POST handlers of `mutation_handlers.go` through their services |
| `RequestPage`, `ListWallets`, `FilterTransactions`, `ListUserWallets`, `Render`, `SendPage` (`AdminView`) | `commonData`, query by query; a failed query is `SendPage` |
| `RowRecorded` (`AdminView`) | the only thing the pages see of the proxy: `recordTransaction` |
| `Start` (`Startup`) | `main` to line 33 except the migration: `env.Load`, `env.Get` |
| `CreateTable`, `LookForColumn`, `AddColumn`, `FillEndpoints` | `Migrate`: one step per migration file, `PRAGMA table_info`, `ALTER TABLE`, the `UPDATE` |
| `Wire`, `ListenAdmin`, `ListenProxy` | `admin.New` and the goroutine; the two `ListenAndServe` |
| `Stop`, `Exits` | `log.Fatal`, `os.Exit(1)`, a signal; docker-compose starts the program again |
| `New`, `HandleLogin`, `HandleLogout`, `HandlePage`, `HandleCreateWallet` (`AdminSession`) | `newSessionToken`, `login`, `logout`, `requireAuth` around a page and around a POST that writes |
| `Send`, `Receive`, `Lose` | the browser and the network |
| `Pay`, `ChangeBudget` (`BudgetArithmetic`) | one request after the other through line 341; the budget form |

One action is one stretch of code that nothing can overtake in a way the others
could notice: one SQL statement, one reading of the clock, one signature, one
HTTP exchange. `ListTransactions` and `CompareBudget` are apart because the code
reads the clock after the rows. Each query and insert may fail at any time:
SQLite may be busy, and the request's context, which every query gets, is
cancelled when the client leaves.

Decisions worth knowing:

* Amounts are integers of a millionth of a USDC. The three forms of an amount
  string (`uint`, `float`, `text`) keep apart what `ParseUint` (the signature),
  `ParseFloat` (budget and row) and neither accept.
* `ForeignKeys` says whether SQLite enforces the REFERENCES clauses. It does so
  only for a connection that asks: `main.go` passes `DATABASE_URL` as it is, with
  the default `payformeproxy.db`, which does not. A DSN with
  `_pragma=foreign_keys(1)` does, but nothing in the repository gives one. All runs
  use FALSE. It is a constant because nearly all theorems hold for either value;
  what they say of the program as it is shipped is what they say for FALSE.
* `SignFails` is possible for every option: a wrong key, an address that does not
  parse, an RPC node that refuses. A signature is never refused for its size here:
  offers are bounded by `MaxAmount`.
* A consumed body cannot be sent a second time. The rare race in which the
  transport is still writing the first attempt's body when the 402 arrives is
  taken to end the same way.
* The loop of `filteredTransactions` is the recursive function in
  `FilterInPlace`, over an array that it reads and writes. The rows of a page are
  a sequence, because overwritten rows leave duplicates that the sums count
  twice. A resource is known by its base URL; resources without one, which the
  form leaves out, do not occur.
* The rows of a second may come back in any order, so `BudgetArithmetic` puts a new
  row anywhere in the list whose amounts are summed.
* Two processes on one database are what a hand-made restart or a container that
  is replaced may give for a while. Nothing in the code prevents it: migrations
  take no lock, and only the ports decide.
* A request without credentials outside a tunnel is answered 407 and has no
  effect; it is not a step. An https request in absolute form outside a tunnel
  passes `isMITMRequest` and is served for nobody: its user is `NoUser`.

## Runs

Every `.cfg` names its module's specification and bounds. Counters are bounded by
`MaxExchanges` (402 exchanges since the start, over all connections), `MaxClock`,
`MaxStops` (stops that nothing in the code causes) and `MaxRows`.

| Run | Shows | Bounds | Why they are enough |
|---|---|---|---|
| `whole_system` | `TypeOK`, `NoSilentLoss`, `WithdrawnAtOnce`, `Answered`, from empty tables, with an administrator who creates, assigns, limits and deletes at any moment | 2 users who share one name over time, 1 wallet of either chain, every kind of offer, 1 connection, 1 exchange, 1 month | one exchange against every administrative action at each of its steps; interleavings of exchanges and the turn of the month are in the next two runs |
| `exchanges` | `AtMostOnce`, `RowMatchesPayment`, `NoSilentLoss`, `ImplementsSpending`, with bodies, tunnels, failures and crashes | 2 connections, 2 exchanges, offers of one and of two options | two exchanges can overtake each other, follow each other on one connection, and be cut off together |
| `budgets` | `PaymentBacked`, `OvershootBounded`, `OverspendWrittenOff` with a budget that changes and a month that turns | 2 connections, 3 exchanges, budgets 1 and 2, prices 1 and 2 | three payments use a budget up, exceed it, and meet it again after the month has turned |
| `admin_pages` | `ViewTypeOK`, `ShownMatchesFilter`, `ConsumptionAgrees`, `ConsumptionCurrent` | 2 users of whom 1 or 2 exist and are assigned at first, 1 wallet, all filters, 2 rows, 2 months, 1 page at a time | with two rows one can be kept and one dropped, in either order, and one recorded before or after each query of a page; pages share nothing |
| `lifecycle` | `SessionTypeOK`, `ServingIsMigrated`, `SettingsInForce`, `ChangesNeedLogin`, `EventuallyServing` | 2 processes, 1 stop besides those the code causes, 1 wallet, 1 tab, 2 environments, 2 files, 2 logins | two processes collide on every column and port; the stop may hit any statement; both logins are the right one at some time |
| `arithmetic` | `AcceptedWithinBudget`, `RefusedOnlyAtTheEdge` | 5 rows, prices 1 to 3 and budgets 0 to 12 of a tenth, 8 bits | tenths are as inexact in binary as millionths; the bounds are within `PrecisionAssumption` (2 * 6 * 13 = 156 of 256), like those of `float64` for a budget of a million USDC and 4000 payments |

`budgets` uses the symmetry of the connections and `admin_pages` that of users and
names; no liveness is checked there. Some runs restrict what their question does
not need: in `budgets` clients send requests with credentials and no body, because bodies, tunnels and
crashes do not change what is counted (`PayingSpec` in `MCPayProxy`), and in
`exchanges` the administrator only changes budgets and withdraws the assignment (`SeededSpec`).
In `admin_pages` the administrator changes users and assignments only (`UsersChange`), because
without foreign keys the sums of a page do not depend on whether its wallets are still there. `lifecycle` has
one tab, so that two answers are never under way together; `LoginNeeded` is proved
for any number. In all runs clients may stay idle for ever, so that nothing
deadlocks.

`OvershootBounded` is the property that the check-then-record design does
have: what the database counts for an assignment is at most some budget the
assignment ever had, plus one payment for each *other* connection.

`OverspendWrittenOff` says the same of money instead of rows, and of all of it: the
payments that were signed this month, whether their rows are written yet or not, and
whatever an upstream makes of the signatures. It leaves out those that the proxy has
written off (`WrittenOff`): a row that says, or is going to say, that the payment failed,
or a row that got lost by a failed insert or a crash. These are the only ones that can come on top, and
`cap_settled` below shows that they do. Where foreign keys are enforced it also leaves out
users and wallets that were deleted, whose rows are gone.

`NoSilentLoss` and `OverspendWrittenOff` count what a failed insert or a crash loses
as lost (`lost`); they do not say that it does not happen. The code does nothing about
either: an insert that fails is logged (`server.go:273`), and nothing recovers a payment
after a crash. What the two exclude is any other way for a payment to vanish, an exit
of `payAndRetry` that forgets its row first of all.

`WithdrawnAtOnce` bounds how stale the grounds of a payment may be. `PaymentBacked` compares
a payment with every budget its assignment ever had, so that a budget withdrawn
long ago would still satisfy it. The code reads the assignment once per exchange and does
not look again before it signs (`server.go:320`); hence a withdrawal may be missed by the
requests being served at that moment, and by no later one, in however old a tunnel: some
assignment that stood while the payment's own request was served allows it.
What does not hold is that deleting a *user* withdraws anything (`deleted_user`).

`ConsumptionCurrent` is what a page may be trusted for. It is put together from four
queries and a reading of the clock, while payments are recorded and the month turns, so
that its parts belong to no single moment; still the consumption it shows lies between
what the proxy would count when the page was asked for and what it would count by now.
`ConsumptionAgrees` is sharper about less: over the very rows that were read, the page's
sum (`helpers.go:160`) equals the proxy's (`server.go:347`). Both are about pages without
a filter, in the month in which they were made; with a filter the sums are wrong, for the
reason that `form_resources` shows.

`ImplementsSpending` says that all of `payAndRetry`, its failures and crashes
included, is for an outsider one exchange: opened once, paid at most once and only
while it is open, by a user who had been given that wallet and a budget that allows
the payment by itself, and closed by one row that tells the truth or by none. It is stronger than `AtMostOnce` and
`RowMatchesPayment` together, because it also orders the steps.

`RefusedOnlyAtTheEdge` leaves out the last unit, and has to: an amount that would
use a budget up exactly is sometimes refused, because the sum was rounded up.
`MCBudgetArithmetic!ExactFitAccepted` states the stricter form; TLC refutes it,
and no document promises it. Nothing is ever let through beyond the budget
(`AcceptedWithinBudget`): exact sums are whole units, so that it takes errors that
add up to a unit.

### What the documentation says and the code does not do

Six runs check a statement of a document, a schema or the code itself and find it violated.

| Run | Statement | What TLC shows |
|---|---|---|
| `cap_concurrent` | README line 5, "define payment caps" | two requests pass the check before either is recorded |
| `cap_settled` | the same | one connection, one request after the other: payments that settle after a failed or late retry are not counted |
| `deleted_user` | README line 12, "Basic-auth credentials for clients using the proxy"; `ON DELETE CASCADE` in migration 004, lines 8 and 9 | a user is deleted behind an open tunnel; the assignment stays, because nothing asks SQLite to enforce the cascade, and requests that begin afterwards are still paid |
| `newer_wallet` | README line 14, "assign wallets and budgets to proxy users" | a user assigned to the second wallet of a chain is refused: only the oldest is tried |
| `retry_body` | README line 178, "Retries upstream request" | a request with a body is retried, and signed for, with a body that is already spent |
| `form_resources` | `helpers.go` lines 52 and 101 keep all transactions next to the filtered ones; the form lists their resources below "All resource base URLs" (`transactions.html` line 9) | with a filter, the form has lost resources: the filter wrote over the list they come from |

A user without an assignment is always denied (`Unassigned`), also when nobody has
configured access for the wallet; README line 141 can be read as if access rules
were optional.

In `cap_settled` both exchanges end `failed_unknown`, which is what the code
records; the program cannot know what settled, but it counts as if it knew that
nothing did.

## Fairness

Two runs check liveness.

`Answered` needs `LiveSpec`'s `Fairness`: for each connection, weak fairness of
`HandlerStep` unless it signs for Algorand. A handler that can go on is run by the Go
scheduler. Its waits end: the retry has a timeout of 30 seconds
(`server.go:255`), SQLite queries end or fail, the Solana RPC client has its own
timeout. `SuggestedParams` of the Algorand client is called with a background
context and has no deadline (`algorand/payment.go:41`), hence the exception, which
is also the exception in `Answered`. Nothing is assumed of clients, upstreams, the
administrator, the clock or crashes. Handlers of different connections are fair
independently: a goroutine does not wait for another's.

`EventuallyServing` needs weak fairness of `MainStep` and of `AdminListener` for each
process: a goroutine that can go on does, and a process that has ended is started
again (`restart: unless-stopped` in `docker-compose.yml`). Stops that nothing in
the code causes are bounded by `MaxStops`; a machine that fails for ever serves
nothing. Nothing is assumed of the browser or the operator.

## Theorems

All are proved for every value of the constants that satisfies the assumptions of
the modules (`StoreAssumption` with `PayProxyAssumption` or `AdminViewAssumption`;
`StartupAssumption` with `SessionAssumption`; `ArithmeticAssumption` with
`PrecisionAssumption`): any number of users, wallets, exchanges
and rows, any offers and filters, foreign keys enforced or not (but for `ConsumptionUpToDate`,
which is about connections that do not enforce them, such as the one `main.go` opens), any number
of processes, tabs, requests for pages and stops. The only thing assumed to be finite is the set of
connections, because `OvershootBounded` counts them. The only thing assumed to be
small is a month's spending against the precision of `float64` (`PrecisionAssumption`,
see Rounding below), in `ArithmeticProofs` alone.

| Theorem | Statement |
|---|---|
| `PayProxyProofs!TypeCorrect` | `Spec => []TypeOK` |
| `PayProxyProofs!PaidAtMostOnce` | `Spec => []AtMostOnce` |
| `PayProxyProofs!HistoryMatches` | `Spec => []RowMatchesPayment` |
| `PayProxyProofs!NothingVanishes` | `Spec => []NoSilentLoss` |
| `BudgetProofs!PaymentsAllowed` | `Spec => []PaymentBacked` |
| `BudgetProofs!OvershootLimited` | `Spec => []OvershootBounded` |
| `BudgetProofs!OverspendExplained` | `Spec => []OverspendWrittenOff` |
| `BudgetProofs!WithdrawalsHonoured` | `WatchedSpec => WithdrawnAtOnce` |
| `SpendingProofs!ProxyImplementsSpending` | `Spec => ImplementsSpending` |
| `SessionProofs!MigratedBeforeServing` | `Spec => []ServingIsMigrated` |
| `SessionProofs!LoginNeeded` | `Spec => ChangesNeedLogin` |
| `SessionProofs!SessionTypes` | `Spec => []SessionTypeOK` |
| `SessionProofs!SettingsAtStart` | `Spec => SettingsInForce` |
| `ViewProofs!ViewTypes` | `Spec => []ViewTypeOK` |
| `ViewProofs!FilterRight` | `Spec => []ShownMatchesFilter` |
| `ViewProofs!SumsAgreeWithProxy` | `Spec => []ConsumptionAgrees` |
| `ViewProofs!ConsumptionUpToDate` | `~ForeignKeys => (Spec => []ConsumptionCurrent)` |
| `ArithmeticProofs!AcceptedWithin` | `Spec => AcceptedWithinBudget` |
| `ArithmeticProofs!RefusedAtTheEdge` | `Spec => []RefusedOnlyAtTheEdge` |

These are all the safety properties that the passing runs check.

### Payments

The argument goes through inductive invariants, each on top of the last:

* `TypeInv` adds to `TypeOK` what each program counter may rely on: there is an
  option, a wallet and a user when one is used. Without it a row could be made of
  `NoUser`, and the type invariant would not be inductive.
* `ExchangeInv` adds that exchange numbers are in use once (`Numbered`), how far
  an exchange has got in tables and history (`Stage`: no row until it is over, a
  payment only from `retry` on), and that rows and payments of the same number
  agree (`Matched`). `AtMostOnce` and `RowMatchesPayment` follow from it.
* `LossInv` adds that the ids held by connections and payments were issued
  (`Issued`), so that a deleted user or wallet never comes back under its id and
  goes on explaining why a row is gone.
* `BudgetInv` adds to `ExchangeInv` that a grant stands behind what a request holds and
  is going to sign (`Funded`), and the accounts below (`AllAccounted`).
* The refinement needs no invariant of its own. Under `BudgetInv` each step of
  `PayProxy` is a step of `Spending` or a stutter: a signature is `Pay`, because the
  invariant after it says that the payment is backed; a crash is `Abandon` of every
  open exchange.

`PaymentBacked` rests on sums that are not negative: a payment that was compared with
a budget is at most that budget by itself only if what was consumed already is at
least 0. It is, because only success rows count, and `Matched` says that these have
the amount of a payment.

`OvershootBounded` is the hardest. It is not inductive: that the counted rows are within
a budget and one payment for each other connection does not say what happens when a
handler passes the comparison with rows it read long ago. The invariant has to
account for the rows it has not seen. They come from connections that were ahead of
it when it read, each of which writes at most one before it reads again, and then it
queues behind. So there is a queue of the connections on their way to a payment for
the same user and wallet (`Ledger`): whoever has read the rows and not compared yet
has a set `K[c]` of connections ahead of it, and the rows it has not seen, together
with one largest payment for each of `K[c]`, fit into the room of all other connections
(`Queued`). When it passes the comparison with a budget, its listed rows and its
payment are within that budget; `K[c]` becomes the set `P` of those who may still add to
it, and the rows, the payment and what `P` may add are within the budget and the room
(`Covered`). The invariant says that such a queue exists; the four lemmas
`LedgerReads`, `LedgerClears`, `LedgerRecords` and `LedgerShrinks` give the next
queue for a reading, a comparison, a row, and for everything that only takes away:
denials, failures, crashes, deletions, a new month. Larger budgets do not disturb it,
because a cap, once granted, stays in the history `grants`.

`OverspendWrittenOff` needs all of these invariants at once, and one more: a row is not
older than its payment (`Timed`), so that a payment of this month has its row in this
month. A payment that was not written off has a success row (`KeptRow`), or
`NoSilentLoss` leaves only a connection that is still retrying or recording it, which is a
cleared one (`KeptUnderWay`). The ledger has room for both: the rows, the one cleared
connection outside of `P`, and what `P` may add. `RowsOfPayments` and
`HandsOfConnections` compare the sums, by pairing payments with rows and with connections.

`WithdrawnAtOnce` is about single steps, and needs an invariant of `WatchedSpec`. `StandInv`
says of each connection what it relies on (`Reliant`): once it has read an assignment and
not paid yet, one with the budget it holds is in `stood`, and once it has passed the
comparison, one that allows the payment. What has been in the tables during a request is remembered
(`Remembered`), whatever becomes of the tables, and a comparison that lets a payment through
shows that it is within the limit because what was consumed is not negative
(`WithinLimit`).

### Start and login

* `StartupInv`: each process knows that what it has passed is there (`Migrated`:
  the files and columns before the one it is at), and nobody undoes it: tables and
  columns only grow, and a wallet gets a blank endpoint only with a column that was
  missing, hence before anybody serves.
* `SessionInv`: whatever a cookie, a request or an answer holds is no token, a stale
  one, or the token of a process in `admitted`. A write needs a request whose token
  is that of the listening process.
* `SettingsAtStart` compares two readings of `.env`: `Load`, a fold over the lines that sets
  what is not set yet, and `InForce`, the first line that says anything. `LoadHears`
  shows that after any number of lines the fold has what the first of them that
  sets the variable says.

### Pages

* `Filtered` is the invariant of the loop that filters in the array it ranges over:
  what it kept is in front and in order, at most as many as it has read, and what
  it has not read yet is untouched. `FilterInPlaceIs` has it for every pass.
* A page sums over places in an array, the proxy over a set of rows. `SpentIsTotal`
  shows that both are the same where no row is in the array twice, which without
  a filter is the case (`Complete`); with a filter it need not be, hence the
  condition in `ConsumptionAgrees`.
* `GoodPage` is what a page satisfies once read. It does not mention the tables, so that
  no later write can break it.
* `ReadRight` says what a page has read, among the writers: the rows there were at the request
  are rows that the query found, and those are rows that are still there. Nothing
  deletes rows where foreign keys are not enforced, hence the condition of
  `ConsumptionUpToDate`. Success rows have amounts that are not negative, so that
  what a larger set of rows adds up to is no less, and the two ends of
  `ConsumptionCurrent` follow: `PageSum` says that a page shows the sum over the rows it
  found.

### Rounding

* A rounded number is off by at most one part in 2^`Precision` (`FloatError`, from the
  spacing of floats and `RoundHalfEven`). Errors of sums add (`ErrorsAdd`), so that the
  float sum of n amounts is off by at most 2n + 1 parts of the exact one (`SumNear`), the
  left side of line 341 by two more, and the budget by one.
* `PrecisionAssumption` says that all of this together is less than one unit
  (`ErrorsBelowUnit`). As exact sums are whole units, the comparison of floats then agrees
  with that of units, but for the case that both are equal (`ComparisonRight`).
* `ArithmeticInv` says that the request that was refused last would be refused with the
  rows and the budget there are.
* A new row may come at any place in the list: the exact sum is the same for each
  (`InsertedSum`), and the bound on the float sum does not depend on the order.

The code does not enforce `PrecisionAssumption`: nothing limits a budget or the number of
payments in a month. With 53 bits and millionths it is met by a budget of a million
USDC and 4000 payments in a month, or by a thousand USDC and 4 million. It is sufficient and
not necessary, but some such limit is needed: without it, TLC refutes
`AcceptedWithinBudget` on the instance of `arithmetic` with 4 bits.

### Sums, folds and loops without induction

The values of `MapThenSumSet`, `FoldLeft` and of the filter loop are defined by recursion,
and the library's induction theorems cannot be instantiated here. The proofs use a
minimal counterexample instead, for a given formula: the set of subsets (or of
numbers) for which it fails has, if not empty, a minimal member (`MinimalSubset`,
`SmallestOf`, both from well-founded orders of the library), and the equation at that
member refutes it. For numbers, `AllNumbers` and `AllUpTo` have this as induction over a
set instead of an operator. That the recursive definitions have values at all (`SumsExist`,
`LoadingExists`, `FilteringExists`, `FoldingExists`, `PowersExist`) is proved in the same way.

### Only model-checked

`Answered` and `EventuallyServing`, because liveness under fairness
is out of the proof system's reach.

## Not modelled, and why

* A budget `NaN` or `Inf`, which `ParseFloat` accepts: SQLite stores the first as
  NULL, and no sum exceeds the second, so that both are assignments without a
  limit, which the models have.
* The asset of an option. The code divides every amount by a million as if it were
  USDC, also when `solana/payment.go` pays in lamports; the models compare the
  number the code compares.
* The range of `float64`: `BudgetArithmetic` has its rounding, for any number of bits, and no
  overflow, infinities or NaN.
* Passwords, hashes, session tokens, keys and signatures: cryptography is taken to work.
* The content of challenges and payments beyond scheme, network and amount.
* TLS interception, CA files, logging, templates: I/O without effect on the state above.
* Several proxies that serve payments from one database: nothing in the repository
  sets this up. `Startup` has several processes that start, not their payments.
* Statements and service methods that no caller uses (updates of a user or a
  wallet, deletion of a transaction, lists by user or by wallet).
* The other routes of the admin UI in `AdminSession`: they pass the same
  `requireAuth`, and what they do is in `Store` and `AdminView`.

## Plan

Done: `Store`, `PayProxy`, `Settlement`, `AdminView`, `Spending` with its refinement,
`Startup`, `AdminSession`, `BudgetArithmetic`, their runs and the theorems above.

What is left, in order of what matters:

1. `Settlement`: a bound on the payments that were written off and settle all the same. The
   program has none: it would be in terms of how many retries may fail in a month.
2. Liveness (`Answered`, `EventuallyServing`) for any number of connections and processes,
   which needs a proof system that has fairness.
3. The bodies of requests (`RetrySendsWholeRequest`), for clients that send none.
