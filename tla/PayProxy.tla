------------------------------ MODULE PayProxy ------------------------------
(***************************************************************************)
(* The forward proxy (internal/proxy/server.go) serving requests over      *)
(* client connections, next to the admin UI that edits the same tables.    *)
(*                                                                         *)
(* A connection serves one request at a time, so it is a record with a     *)
(* program counter.  payAndRetry is one step per point where it can be     *)
(* overtaken: each query, the clock reading, the signature, the retry, the *)
(* insert.  A query or an insert may fail (SQLITE_BUSY, or the request's   *)
(* context is cancelled because the client left), at any time.             *)
(***************************************************************************)
EXTENDS Store, Sequences

CONSTANTS
  Conns,         \* client connections
  Offers,        \* "accepts" lists the upstreams may ask for
  MaxAmount,     \* largest amount that can be signed for
  MaxExchanges,  \* bound on the number of 402 exchanges
  NoUser,        \* no authenticated user
  NoWallet       \* no wallet selected

Networks == {"solana", "algorand", "other"}
Forms    == {"uint",   \* strconv.ParseUint and ParseFloat accept it: "2500"
             "float",  \* only ParseFloat does: "2.5e3", "-1"
             "text"}   \* neither does: "2 USDC"
Option   == {option \in [scheme : {"exact", "other"}, network : Networks,
                         form : Forms, amount : Int] :
               option.form = "uint" => option.amount \in 0..MaxAmount}

ASSUME PayProxyAssumption ==
  /\ Offers \subseteq Seq(Option)
  /\ MaxAmount \in Nat /\ MaxExchanges \in Nat
  /\ NoUser \notin UserIds /\ NoWallet \notin WalletIds
  /\ IsFiniteSet(Conns)

VARIABLES
  conn,       \* the connections and the request each one serves
  exchanges,  \* number of 402 exchanges so far
  signed,     \* history: payments signed, and handed to the retry
  lost        \* history: exchanges that ended without the row they owed

proxyVars == <<conn, exchanges, signed, lost>>
vars      == <<storeVars, proxyVars>>

PCs == {"idle",      \* between two requests
        "upstream",  \* forwarded, upstream has not answered
        "select",    \* in selectPayment, at the head of the options left
        "assign",    \* wallet found, its assignment is read next
        "list",      \* assignment read, the user's transactions are read next
        "compare",   \* transactions read, clock and comparison next
        "sign",      \* authorised, in buildPaymentSignature
        "retry",     \* in client.Do with PAYMENT-SIGNATURE
        "record"}    \* the outcome is known, in recordTransaction

Connection ==
  [pc : PCs, tunnel : UserIds \cup {NoUser}, user : UserIds \cup {NoUser},
   body : {"none", "unread", "spent"}, id : Nat, offer : Seq(Option),
   wallet : WalletIds \cup {NoWallet}, budget : Limits,
   listed : SUBSET Row, status : Statuses]

Payment == [id : Nat, user : UserIds, wallet : WalletIds, amount : Nat, at : 0..MaxClock]

\* The type of every variable.
TypeOK ==
  /\ StoreTypeOK
  /\ conn \in [Conns -> Connection]
  /\ exchanges \in 0..MaxExchanges
  /\ signed \subseteq Payment
  /\ lost \subseteq Nat

-----------------------------------------------------------------------------
Fresh(tunnel) ==
  [pc |-> "idle", tunnel |-> tunnel, user |-> NoUser, body |-> "none", id |-> 0,
   offer |-> <<>>, wallet |-> NoWallet, budget |-> Unlimited, listed |-> {},
   status |-> "failed_unknown"]

Init == /\ StoreInit
        /\ conn = [c \in Conns |-> Fresh(NoUser)]
        /\ exchanges = 0 /\ signed = {} /\ lost = {}

At(c, pc)   == conn[c].pc = pc
Option1(c)  == Head(conn[c].offer)
Pair(c)     == <<conn[c].user, conn[c].wallet>>
InExchange(c) == conn[c].pc \notin {"idle", "upstream"}

PaymentChain(option) ==
  IF option.scheme = "exact" /\ option.network \in Chains THEN option.network ELSE "none"

\* Moves of one connection that leave everything else alone.
Move(c, record) == /\ conn' = [conn EXCEPT ![c] = record]
                   /\ UNCHANGED <<storeVars, exchanges, signed, lost>>
GoTo(c, pc)     == Move(c, [conn[c] EXCEPT !.pc = pc])

\* The handler returns: the client has its answer, a tunnel stays open.
Answer(c) == Move(c, Fresh(conn[c].tunnel))

\* The exchange ends without payment, or its payment failed: on to the record.
Conclude(c, status) == Move(c, [conn[c] EXCEPT !.pc = "record", !.status = status])

-----------------------------------------------------------------------------
(* Requests.                                                               *)

\* AuthenticateUser: who presents the name and the password of a user is that user.
Authenticates(u) == u \in DOMAIN proxyUsers

\* CONNECT: credentials are checked once, and the user kept for the tunnel.
OpenTunnel(c, u) ==
  /\ At(c, "idle") /\ conn[c].tunnel = NoUser
  /\ Authenticates(u)
  /\ Move(c, Fresh(u))

CloseTunnel(c) ==
  /\ At(c, "idle") /\ conn[c].tunnel # NoUser
  /\ Move(c, Fresh(NoUser))

\* A request that carries credentials is served as their owner, any other one
\* as the tunnel's user.  An https request in absolute form outside a tunnel
\* is taken for a tunnelled one (isMITMRequest): it is served for no user.
BeginRequest(c, u, body) ==
  /\ At(c, "idle")
  /\ Authenticates(u) \/ u = conn[c].tunnel
  /\ Move(c, [conn[c] EXCEPT !.pc = "upstream", !.user = u, !.body = body])

\* The upstream asks for no payment, or in a header that does not decode.
PassThrough(c) == At(c, "upstream") /\ Answer(c)

\* The transport has read and closed the body of the first attempt.
Spent(body) == IF body = "unread" THEN "spent" ELSE body

Challenged(c, offer) ==
  /\ At(c, "upstream") /\ exchanges < MaxExchanges
  /\ exchanges' = exchanges + 1
  /\ conn' = [conn EXCEPT ![c] = [conn[c] EXCEPT
                !.pc = "select", !.offer = offer, !.id = exchanges + 1, !.body = Spent(@)]]
  /\ UNCHANGED <<storeVars, signed, lost>>

-----------------------------------------------------------------------------
(* selectPayment.                                                          *)

WalletsFor(option) == IF PaymentChain(option) = "none" THEN {}
                      ELSE GetWalletByChain(PaymentChain(option))

SkipOption(c) ==
  /\ At(c, "select") /\ conn[c].offer # <<>>
  /\ WalletsFor(Option1(c)) = {}
  /\ Move(c, [conn[c] EXCEPT !.offer = Tail(conn[c].offer)])

\* The first option whose chain has a wallet decides: a denial is final.
UseWallet(c, w) ==
  /\ At(c, "select") /\ conn[c].offer # <<>>
  /\ w \in WalletsFor(Option1(c))
  /\ Move(c, [conn[c] EXCEPT !.pc = "assign", !.wallet = w])

\* No option is left, or the wallet query failed: the 402 goes to the client,
\* and no row is written because no wallet is known.
GiveUp(c) ==
  /\ At(c, "select")
  /\ conn[c].offer # <<>> => PaymentChain(Option1(c)) # "none"
  /\ Answer(c)

-----------------------------------------------------------------------------
(* authorizeWalletPayment.                                                 *)

\* No user in the context, or the query fails; an amount that does not parse
\* ends the same way.
AssignmentFails(c) == At(c, "assign") /\ Conclude(c, "failed_unknown")

Unassigned(c) ==
  /\ At(c, "assign")
  /\ conn[c].user # NoUser /\ Pair(c) \notin DOMAIN userWallet
  /\ Conclude(c, "no_matching_wallet_found")

\* Fault model: assignments are cached, and the cache is never invalidated.
ReadCachedAssignment(c) ==
  /\ At(c, "assign")
  /\ \E g \in grants :
       /\ Pair(c) = <<g.user, g.wallet>>
       /\ \/ g.budget = Unlimited /\ GoTo(c, "sign")
          \/ /\ g.budget # Unlimited /\ Option1(c).form # "text"
             /\ Move(c, [conn[c] EXCEPT !.pc = "list", !.budget = g.budget])

\* A NULL budget allows the payment without reading the amount.
ReadAssignment(c) ==
  /\ At(c, "assign") /\ Pair(c) \in DOMAIN userWallet
  /\ LET limit == userWallet[Pair(c)]
     IN \/ limit = Unlimited /\ GoTo(c, "sign")
        \/ /\ limit # Unlimited /\ Option1(c).form # "text"
           /\ Move(c, [conn[c] EXCEPT !.pc = "list", !.budget = limit])

ListTransactions(c) ==
  /\ At(c, "list")
  /\ \/ Move(c, [conn[c] EXCEPT !.pc = "compare",
                                !.listed = ListTransactionsByUser(conn[c].user)])
     \/ Conclude(c, "failed_unknown")

\* Fault model: the amount about to be paid is left out of the comparison.
AlreadyOverBudget(c) ==
  CurrentMonthConsumption(conn[c].listed, conn[c].wallet) > conn[c].budget

OverBudget(c) ==
  CurrentMonthConsumption(conn[c].listed, conn[c].wallet) + Option1(c).amount
    > conn[c].budget

CompareBudget(c) ==
  /\ At(c, "compare")
  /\ IF OverBudget(c)
     THEN Move(c, [conn[c] EXCEPT !.pc = "record", !.status = "budget_exceeded", !.listed = {}])
     ELSE Move(c, [conn[c] EXCEPT !.pc = "sign", !.listed = {}])

-----------------------------------------------------------------------------
(* Signature, retry and record.                                            *)

\* Fault model: the amount is converted from what ParseFloat accepts.
SignAnyAmount(c) ==
  /\ At(c, "sign")
  /\ signed' = signed \cup {[id |-> conn[c].id, user |-> conn[c].user,
                             wallet |-> conn[c].wallet, amount |-> Option1(c).amount,
                             at |-> clock]}
  /\ conn' = [conn EXCEPT ![c] = [conn[c] EXCEPT !.pc = "retry"]]
  /\ UNCHANGED <<storeVars, exchanges, lost>>

Sign(c) ==
  /\ At(c, "sign") /\ Option1(c).form = "uint"
  /\ signed' = signed \cup {[id |-> conn[c].id, user |-> conn[c].user,
                             wallet |-> conn[c].wallet, amount |-> Option1(c).amount,
                             at |-> clock]}
  /\ conn' = [conn EXCEPT ![c] = [conn[c] EXCEPT !.pc = "retry"]]
  /\ UNCHANGED <<storeVars, exchanges, lost>>

\* Fault model: the error branch falls through to the row of a payment made.
SignFailsAsSuccess(c) == At(c, "sign") /\ Conclude(c, "success")

\* Bad key, address or amount, or the chain's RPC node does not answer.
SignFails(c) == At(c, "sign") /\ Conclude(c, "failed_unknown")

\* The upstream answers the retry.  A spent body cannot be sent again, so a
\* retry of a request that had one never gets this far.
RetryAnswered(c) ==
  /\ At(c, "retry") /\ conn[c].body # "spent"
  /\ \E status \in {"success", "failed_unknown"} : Conclude(c, status)

\* Fault model: the retry failed, so the next option is tried.
RetryFailsTriesNext(c) ==
  At(c, "retry") /\ Move(c, [conn[c] EXCEPT !.pc = "select", !.offer = Tail(conn[c].offer)])

\* Fault model: an early return forgets the row of a retry that failed.
RetryFailsUnrecorded(c) == At(c, "retry") /\ Answer(c)

\* Fault model: the client of the retry has no timeout.
RetryFailsAtOnce(c) ==
  At(c, "retry") /\ conn[c].body = "spent" /\ Conclude(c, "failed_unknown")

\* The body cannot be sent, the connection breaks, or 30 seconds pass.
RetryFails(c) == At(c, "retry") /\ Conclude(c, "failed_unknown")

\* Fault model: the insert is run again after it has succeeded.
RecordAgain(c) ==
  /\ At(c, "record") /\ conn[c].user # NoUser /\ Option1(c).form # "text"
  /\ InsertTransaction(conn[c].id, conn[c].user, conn[c].wallet, Option1(c).amount,
                       conn[c].status)
  /\ UNCHANGED proxyVars

Record(c) ==
  /\ At(c, "record") /\ conn[c].user # NoUser /\ Option1(c).form # "text"
  /\ InsertTransaction(conn[c].id, conn[c].user, conn[c].wallet, Option1(c).amount,
                       conn[c].status)
  /\ conn' = [conn EXCEPT ![c] = Fresh(conn[c].tunnel)]
  /\ UNCHANGED <<exchanges, signed, lost>>

\* No user, no amount, or the insert fails: only logged.
RecordFails(c) ==
  /\ At(c, "record")
  /\ lost' = lost \cup {conn[c].id}
  /\ conn' = [conn EXCEPT ![c] = Fresh(conn[c].tunnel)]
  /\ UNCHANGED <<storeVars, exchanges, signed>>

\* The process stops and starts again: what is in memory is gone.
Crash ==
  /\ lost' = lost \cup {conn[c].id : c \in {d \in Conns : InExchange(d)}}
  /\ conn' = [c \in Conns |-> Fresh(NoUser)]
  /\ UNCHANGED <<storeVars, exchanges, signed>>

-----------------------------------------------------------------------------
(* What the handler of c does by itself once an upstream has answered 402.  *)
HandlerStep(c) ==
  \/ SkipOption(c) \/ (\E w \in WalletIds : UseWallet(c, w)) \/ GiveUp(c)
  \/ AssignmentFails(c) \/ Unassigned(c) \/ ReadAssignment(c)
  \/ ListTransactions(c) \/ CompareBudget(c)
  \/ Sign(c) \/ SignFails(c)
  \/ RetryFails(c)
  \/ Record(c) \/ RecordFails(c)

ClientStep(c) == \/ \E u \in UserIds : OpenTunnel(c, u)
                 \/ CloseTunnel(c)
                 \/ \E u \in UserIds \cup {NoUser}, body \in {"none", "unread"} :
                      BeginRequest(c, u, body)

UpstreamStep(c) == \/ PassThrough(c)
                   \/ \E offer \in Offers : Challenged(c, offer)
                   \/ RetryAnswered(c)

ProxyNext == \E c \in Conns : HandlerStep(c) \/ ClientStep(c) \/ UpstreamStep(c)

\* The admin UI and the clock do not touch the proxy's memory.
StoreNext == (AdminNext \/ Tick) /\ UNCHANGED proxyVars

Next == ProxyNext \/ Crash \/ StoreNext

Spec == Init /\ [][Next]_vars

\* The Go runtime runs a handler that can go on.  Its waits end: the retry by
\* the client's timeout, a query by SQLite, Solana's RPC by its client's
\* timeout.  Algorand's SuggestedParams has no deadline, so a handler that signs
\* for Algorand is not promised to move; neither is a client nor an upstream.
SignsForAlgorand(c) == At(c, "sign") /\ PaymentChain(Option1(c)) = "algorand"

Fairness == \A c \in Conns : WF_vars(HandlerStep(c) /\ ~ SignsForAlgorand(c))

LiveSpec == Spec /\ Fairness
-----------------------------------------------------------------------------
(* What makes the proxy correct.                                           *)

\* An exchange is paid for and written down at most once, and no two
\* connections take part in the same one, whatever retries, failures, crashes
\* and other connections do (payAndRetry's many exits each record once).
AtMostOnce ==
  /\ \A r, t \in transactions : r.id = t.id => r = t
  /\ \A p, q \in signed : p.id = q.id => p = q
  /\ \A c, d \in Conns : InExchange(c) /\ conn[c].id = conn[d].id => c = d

\* The history agrees with what was done: a "success" row is the row of a
\* payment that was signed for that user, wallet and amount, and an exchange
\* that was denied for its budget or its assignment was never signed for.
RowMatchesPayment ==
  \A t \in transactions :
    /\ t.status = "success" =>
         \E p \in signed : p.id = t.id /\ p.user = t.user /\ p.wallet = t.wallet
                                       /\ p.amount = t.amount
    /\ t.status \in {"budget_exceeded", "no_matching_wallet_found"} =>
         \A p \in signed : p.id # t.id

\* No payment is signed that no budget ever allowed: the administrator had
\* given that user that wallet, without a budget or with one as large as the
\* payment by itself (authorizeWalletPayment).
PaymentBacked ==
  \A p \in signed : \E g \in grants :
    /\ g.user = p.user /\ g.wallet = p.wallet
    /\ g.budget = Unlimited \/ p.amount <= g.budget

\* A signed payment leaves a trace: its row, unless the insert failed or a
\* crash came first (lost), or its user or wallet was deleted and foreign keys
\* took the row with it.
NoSilentLoss ==
  \A p \in signed :
    \/ \E t \in transactions : t.id = p.id
    \/ p.id \in lost
    \/ \E c \in Conns : conn[c].id = p.id /\ conn[c].pc \in {"retry", "record"}
    \/ /\ ForeignKeys
       /\ p.user \notin DOMAIN proxyUsers \/ p.wallet \notin DOMAIN wallets

\* Check and record are apart, so concurrent exchanges overspend a budget, but
\* never by more than one payment per other connection; a single connection
\* stays within the budget.
OvershootBounded ==
  \A u \in UserIds, w \in WalletIds :
    LET spent == CurrentMonthConsumption(ListTransactionsByUser(u), w)
    IN \/ spent = 0
       \/ \E g \in grants :
            /\ g.user = u /\ g.wallet = w
            /\ \/ g.budget = Unlimited
               \/ spent <= g.budget + (Cardinality(Conns) - 1) * MaxAmount

\* The proxy took the payment for failed, as its row says or is going to say, or
\* lost the row by a failed insert or a crash.
WrittenOff(p) ==
  \/ p.id \in lost
  \/ \E t \in transactions : t.id = p.id /\ t.status # "success"
  \/ \E c \in Conns : /\ conn[c].id = p.id
                      /\ At(c, "record") /\ conn[c].status # "success"

\* What budgets bound is money, also before it is in a row: of all that was
\* signed this month for a user and a wallet, whatever an upstream makes of it,
\* only payments that were written off come on top of a budget and one payment
\* for each other connection.
OverspendWrittenOff ==
  \A u \in UserIds, w \in WalletIds :
    LET kept  == {p \in signed : /\ p.user = u /\ p.wallet = w /\ p.at >= StartOfMonth
                                 /\ ~ WrittenOff(p)}
        spent == MapThenSumSet(AmountOf, kept)
    IN ParentsExist(u, w) /\ spent # 0 =>
         \E g \in grants :
           /\ g.user = u /\ g.wallet = w
           /\ \/ g.budget = Unlimited
              \/ spent <= g.budget + (Cardinality(Conns) - 1) * MaxAmount

\* A request that got its 402 is answered, by success, by failure or by the
\* end of the process, unless it is waiting for an Algorand node.
Answered ==
  \A c \in Conns :
    InExchange(c) ~> (At(c, "idle") \/ SignsForAlgorand(c))
=============================================================================
