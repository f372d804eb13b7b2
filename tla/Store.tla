-------------------------------- MODULE Store --------------------------------
(***************************************************************************)
(* The SQLite database that the proxy and the admin UI share: the four     *)
(* tables of internal/db/migrations, the sqlc queries over them, and the   *)
(* services (users, wallets, userwallets) the admin handlers call.         *)
(*                                                                         *)
(* Every SQL statement is one atomic step: the services open no            *)
(* transaction, so two statements of one handler are two steps.  A call    *)
(* that validation or a constraint rejects changes nothing, and is not a   *)
(* step.  Names and hashes only matter for UNIQUE (username), which is     *)
(* kept; passwords, wallet names, keys and RPC endpoints are left out.     *)
(***************************************************************************)
EXTENDS Integers, FiniteSets, FiniteSetsExt, TLC

CONSTANTS
  UserIds,      \* ids newID() may give to proxy users
  Usernames,    \* user names the admin types
  WalletIds,    \* ids newID() may give to wallets
  Budgets,      \* monthly budgets the admin types, in millionths of a USDC
  Unlimited,    \* the NULL monthly_budget
  ForeignKeys,  \* does this connection enforce REFERENCES clauses?
  MonthLength,  \* clock ticks in a calendar month
  MaxClock      \* bound on the clock

ASSUME StoreAssumption ==
  /\ Budgets \subseteq Int
  /\ Unlimited \notin Int
  /\ ForeignKeys \in BOOLEAN
  /\ MonthLength \in Nat \ {0}
  /\ MaxClock \in Nat

VARIABLES
  proxyUsers,   \* proxy_users: id -> username
  wallets,      \* wallets: id -> [chain, createdAt]
  userWallet,   \* user_wallet: <<user, wallet>> -> monthly_budget
  transactions, \* transactions: a set of rows
  issued,       \* history: the ids handed out so far (ids are never reused)
  grants,       \* history: every budget an assignment ever had
  clock         \* wall clock, coarse

tables    == <<proxyUsers, wallets, userWallet, transactions>>
storeVars == <<proxyUsers, wallets, userWallet, transactions, issued, grants, clock>>

Chains   == {"algorand", "solana"}
Statuses == {"success", "budget_exceeded", "no_matching_wallet_found", "failed_unknown"}
Limits   == Budgets \cup {Unlimited}
Wallet   == [chain : Chains, createdAt : 0..MaxClock]
Row      == [id : Nat, user : UserIds, wallet : WalletIds, amount : Int,
             status : Statuses, createdAt : 0..MaxClock]
Grant    == [user : UserIds, wallet : WalletIds, budget : Limits]

StoreTypeOK ==
  /\ DOMAIN proxyUsers \subseteq UserIds
  /\ proxyUsers \in [DOMAIN proxyUsers -> Usernames]
  /\ DOMAIN wallets \subseteq WalletIds
  /\ wallets \in [DOMAIN wallets -> Wallet]
  /\ DOMAIN userWallet \subseteq UserIds \X WalletIds
  /\ userWallet \in [DOMAIN userWallet -> Limits]
  /\ transactions \subseteq Row
  /\ issued \subseteq UserIds \cup WalletIds
  /\ grants \subseteq Grant
  /\ clock \in 0..MaxClock

-----------------------------------------------------------------------------
(* Tables as partial functions.                                            *)

Put(f, k, v) == [x \in DOMAIN f \cup {k} |-> IF x = k THEN v ELSE f[x]]
Drop(f, K)   == Restrict(f, DOMAIN f \ K)

(* Queries.                                                                *)

GetProxyUserByUsername(name) == {u \in DOMAIN proxyUsers : proxyUsers[u] = name}

\* ORDER BY created_at LIMIT 1: created_at has a resolution of one second, and
\* SQLite promises no order among equal keys, so any of the oldest may come first.
GetWalletByChain(chain) ==
  LET ofChain == {w \in DOMAIN wallets : wallets[w].chain = chain}
  IN  {w \in ofChain : \A v \in ofChain : wallets[w].createdAt <= wallets[v].createdAt}

StartOfMonth == (clock \div MonthLength) * MonthLength

ListTransactionsByUser(u) == {t \in transactions : t.user = u}

\* The rows of one user that consume the month's budget for wallet w.
Counted(rows, w) ==
  {t \in rows : t.wallet = w /\ t.status = "success" /\ t.createdAt >= StartOfMonth}

AmountOf(t) == t.amount

CurrentMonthConsumption(rows, w) == MapThenSumSet(AmountOf, Counted(rows, w))

-----------------------------------------------------------------------------
(* Statements that write.                                                  *)

\* What REFERENCES asks of a new child row, when it is enforced.
ParentsExist(u, w) == ForeignKeys => u \in DOMAIN proxyUsers /\ w \in DOMAIN wallets

InsertTransaction(id, u, w, amount, status) ==
  /\ ParentsExist(u, w)
  /\ transactions' = transactions \cup
       {[id |-> id, user |-> u, wallet |-> w, amount |-> amount,
         status |-> status, createdAt |-> clock]}
  /\ UNCHANGED <<proxyUsers, wallets, userWallet, issued, grants, clock>>

\* ON DELETE CASCADE from deleted users or wallets.
Cascade(users, ws) ==
  IF ForeignKeys
  THEN /\ userWallet' = Drop(userWallet, {p \in DOMAIN userWallet : p[1] \in users \/ p[2] \in ws})
       /\ transactions' = {t \in transactions : t.user \notin users /\ t.wallet \notin ws}
  ELSE UNCHANGED <<userWallet, transactions>>

CreateUser(u, name) ==
  /\ u \notin issued
  /\ GetProxyUserByUsername(name) = {}
  /\ proxyUsers' = Put(proxyUsers, u, name)
  /\ issued' = issued \cup {u}
  /\ UNCHANGED <<wallets, userWallet, transactions, grants, clock>>

DeleteUser(u) ==
  /\ u \in DOMAIN proxyUsers
  /\ proxyUsers' = Drop(proxyUsers, {u})
  /\ Cascade({u}, {})
  /\ UNCHANGED <<wallets, issued, grants, clock>>

CreateWallet(w, chain) ==
  /\ w \notin issued
  /\ wallets' = Put(wallets, w, [chain |-> chain, createdAt |-> clock])
  /\ issued' = issued \cup {w}
  /\ UNCHANGED <<proxyUsers, userWallet, transactions, grants, clock>>

DeleteWallet(w) ==
  /\ w \in DOMAIN wallets
  /\ wallets' = Drop(wallets, {w})
  /\ Cascade({}, {w})
  /\ UNCHANGED <<proxyUsers, issued, grants, clock>>

SetLimit(u, w, limit) ==
  /\ userWallet' = Put(userWallet, <<u, w>>, limit)
  /\ grants' = grants \cup {[user |-> u, wallet |-> w, budget |-> limit]}
  /\ UNCHANGED <<proxyUsers, wallets, transactions, issued, clock>>

\* The form offers ids read when the page was rendered: they have existed.
Assign(u, w, limit) ==
  /\ {u, w} \subseteq issued
  /\ <<u, w>> \notin DOMAIN userWallet
  /\ ParentsExist(u, w)
  /\ SetLimit(u, w, limit)

UpdateMonthlyBudget(u, w, limit) ==
  /\ <<u, w>> \in DOMAIN userWallet
  /\ SetLimit(u, w, limit)

DeleteUserWallet(u, w) ==
  /\ <<u, w>> \in DOMAIN userWallet
  /\ userWallet' = Drop(userWallet, {<<u, w>>})
  /\ UNCHANGED <<proxyUsers, wallets, transactions, issued, grants, clock>>

\* Time passes, for the database and the proxy alike.
Tick ==
  /\ clock < MaxClock
  /\ clock' = clock + 1
  /\ UNCHANGED <<tables, issued, grants>>

-----------------------------------------------------------------------------
(* A database that migrations have just created.                           *)
StoreInit ==
  /\ proxyUsers = <<>> /\ wallets = <<>> /\ userWallet = <<>>
  /\ transactions = {} /\ issued = {} /\ grants = {}
  /\ clock = 0

\* The admin UI: one statement per POST handler.
AdminNext ==
  \/ \E u \in UserIds : \/ \E name \in Usernames : CreateUser(u, name)
                        \/ DeleteUser(u)
  \/ \E w \in WalletIds : \/ \E chain \in Chains : CreateWallet(w, chain)
                          \/ DeleteWallet(w)
  \/ \E u \in UserIds, w \in WalletIds :
       \/ \E limit \in Limits : Assign(u, w, limit) \/ UpdateMonthlyBudget(u, w, limit)
       \/ DeleteUserWallet(u, w)
=============================================================================
