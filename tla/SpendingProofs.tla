--------------------------- MODULE SpendingProofs ---------------------------
(***************************************************************************)
(* PayProxy implements Spending: each step of a connection, of the         *)
(* administrator, of the clock or a crash is a step of Spending, or none.  *)
(***************************************************************************)
EXTENDS SpendingRefinement, BudgetProofs

Outside == {"idle", "upstream"}

-----------------------------------------------------------------------------
\* At first every exchange is new.
LEMMA InitAbstract == Init => Abstract!Init
  <1> SUFFICES ASSUME Init PROVE Abstract!Init
    OBVIOUS
  <1>1. \A i \in ExchangeIds : Phase(i) = "new"
    BY PayProxyAssumption DEF Init, Phase, ExchangeIds
  <1> QED BY <1>1 DEF Init, StoreInit, Abstract!Init

\* A connection moves on without beginning or ending an exchange.
LEMMA Within ==
  ASSUME ExchangeInv, NEW c \in Conns, NEW r, Move(c, r), r.id = conn[c].id,
         r.pc \in Outside <=> conn[c].pc \in Outside
  PROVE UNCHANGED Abstract!spendingVars
  <1>1. /\ conn'[c] = r /\ \A d \in Conns : d # c => conn'[d] = conn[d]
        /\ UNCHANGED <<grants, exchanges, signed, transactions>>
    BY DEF ExchangeInv, TypeInv, TypeOK, Move, storeVars
  <1>3. \A d \in Conns : conn'[d].id = conn[d].id /\ (InExchange(d)' <=> InExchange(d))
    BY <1>1 DEF InExchange, Outside
  <1>4. \A i \in ExchangeIds : Phase(i)' = Phase(i)
    BY <1>1, <1>3 DEF Phase
  <1> QED BY <1>1, <1>4 DEF Abstract!spendingVars

\* A connection leaves its exchange, which is over then.
LEMMA Ended ==
  ASSUME ExchangeInv, NEW c \in Conns, NEW r, conn' = [conn EXCEPT ![c] = r],
         InExchange(c), r.pc \in Outside, r.id = 0,
         UNCHANGED <<grants, exchanges>>
  PROVE /\ conn[c].id \in ExchangeIds /\ Phase(conn[c].id) = "open"
        /\ Abstract!Becomes({conn[c].id}, "over")
  <1>1. /\ conn'[c] = r /\ \A d \in Conns : d # c => conn'[d] = conn[d]
        /\ exchanges \in 0..MaxExchanges /\ conn[c].id \in Nat
    BY ConnType DEF ExchangeInv, TypeInv, TypeOK, Connection
  <1>3. conn[c].id \in 1..exchanges
    BY <1>1 DEF ExchangeInv, Numbered
  <1>4. conn[c].id \in ExchangeIds /\ Phase(conn[c].id) = "open"
    BY <1>1, <1>3, PayProxyAssumption DEF ExchangeIds, Phase
  <1>5. ~ InExchange(c)' /\ \A d \in Conns : d # c => (InExchange(d)' <=> InExchange(d))
    BY <1>1 DEF InExchange, Outside
  <1>6. ASSUME NEW i \in ExchangeIds
        PROVE Phase(i)' = IF i = conn[c].id THEN "over" ELSE Phase(i)
    <2>1. CASE i = conn[c].id
      BY <1>1, <1>3, <1>5, <2>1 DEF Phase, ExchangeInv, Numbered
    <2>2. CASE i # conn[c].id
      BY <1>1, <1>5, <2>2 DEF Phase
    <2> QED BY <2>1, <2>2
  <1> QED BY <1>4, <1>6 DEF Abstract!Becomes

\* A challenge that decodes opens an exchange.
LEMMA OpenStep ==
  ASSUME ExchangeInv, NEW c \in Conns, NEW offer \in Offers, Challenged(c, offer)
  PROVE Abstract!Open
  <1> DEFINE r == [conn[c] EXCEPT !.pc = "select", !.offer = offer,
                                  !.id = exchanges + 1, !.body = Spent(@)]
             new == exchanges + 1
  <1>1. r.pc = "select" /\ r.id = new /\ conn' = [conn EXCEPT ![c] = r]
    BY ConnType DEF ExchangeInv, Connection, Challenged
  <1> HIDE DEF r
  <1>2. /\ conn'[c] = r /\ \A d \in Conns : d # c => conn'[d] = conn[d]
        /\ UNCHANGED <<grants, signed, transactions>> /\ exchanges' = new
        /\ exchanges \in Nat /\ new \in ExchangeIds
    BY <1>1, PayProxyAssumption
    DEF ExchangeInv, TypeInv, TypeOK, Challenged, storeVars, ExchangeIds
  <1>4. /\ InExchange(c)' /\ ~ InExchange(c)
        /\ \A d \in Conns : d # c => (InExchange(d)' <=> InExchange(d))
    BY <1>1, <1>2 DEF InExchange, Challenged, At
  <1>5. Phase(new) = "new"
    BY <1>2 DEF Phase
  <1>6. ASSUME NEW i \in ExchangeIds
        PROVE Phase(i)' = IF i = new THEN "open" ELSE Phase(i)
    <2>1. i \in Nat
      BY DEF ExchangeIds
    <2>2. CASE i = new
      BY <1>1, <1>2, <1>4, <2>2 DEF Phase
    <2>3. CASE i # new
      BY <1>1, <1>2, <1>4, <2>1, <2>3 DEF Phase
    <2> QED BY <2>2, <2>3
  <1> HIDE DEF new
  <1>7. Abstract!Becomes({new}, "open")
    BY <1>6 DEF Abstract!Becomes
  <1> QED BY <1>2, <1>5, <1>7 DEF Abstract!Open

\* A signature pays for an open exchange; what it is worth is PaymentBacked.
LEMMA PayStep ==
  ASSUME ExchangeInv, PaymentBacked', NEW c \in Conns, Sign(c)
  PROVE Abstract!Pay
  <1> DEFINE r == [conn[c] EXCEPT !.pc = "retry"]
             p == [id |-> conn[c].id, user |-> conn[c].user, wallet |-> conn[c].wallet,
                   amount |-> Option1(c).amount, at |-> clock]
  <1>1. /\ conn[c].pc = "sign" /\ conn[c].id \in Nat
        /\ r.pc = "retry" /\ r.id = conn[c].id /\ conn' = [conn EXCEPT ![c] = r]
    BY ConnType DEF ExchangeInv, Connection, Sign, At
  <1>2. /\ p.id = conn[c].id /\ p.user = conn[c].user /\ p.wallet = conn[c].wallet
        /\ signed' = signed \cup {p}
    BY DEF Sign
  <1> HIDE DEF r, p
  <1>3. /\ conn'[c] = r /\ \A d \in Conns : d # c => conn'[d] = conn[d]
        /\ exchanges \in 0..MaxExchanges
        /\ UNCHANGED <<grants, exchanges, transactions>>
    BY <1>1 DEF ExchangeInv, TypeInv, TypeOK, Sign, storeVars
  <1>5. InExchange(c)
    BY <1>1 DEF InExchange
  <1>6. \A q \in signed : q.id # p.id
    BY <1>1, <1>2, <1>5 DEF ExchangeInv, Stage
  <1>7. \A d \in Conns : conn'[d].id = conn[d].id /\ (InExchange(d)' <=> InExchange(d))
    BY <1>1, <1>3 DEF InExchange
  <1>8. \A i \in ExchangeIds : Phase(i)' = Phase(i)
    BY <1>3, <1>7 DEF Phase
  <1>9. p.id \in ExchangeIds /\ Phase(p.id) = "open"
    <2>1. conn[c].id # 0 /\ conn[c].id <= exchanges
      BY <1>5 DEF ExchangeInv, Numbered
    <2> QED BY <1>1, <1>2, <1>3, <1>5, <2>1, PayProxyAssumption DEF ExchangeIds, Phase
  <1>10. Abstract!Allowed(p)
    BY <1>2, <1>3 DEF PaymentBacked, Abstract!Allowed
  <1> QED BY <1>2, <1>3, <1>6, <1>8, <1>9, <1>10 DEF Abstract!Pay

\* A row closes it.
LEMMA CloseStep ==
  ASSUME ExchangeInv, NEW c \in Conns, Record(c)
  PROVE Abstract!Close
  <1> DEFINE r == Fresh(conn[c].tunnel)
             t == [id |-> conn[c].id, user |-> conn[c].user, wallet |-> conn[c].wallet,
                   amount |-> Option1(c).amount, status |-> conn[c].status,
                   createdAt |-> clock]
  <1>1. r.pc = "idle" /\ r.id = 0 /\ conn' = [conn EXCEPT ![c] = r]
    BY DEF Record, Fresh
  <1>2. /\ t.id = conn[c].id /\ t.user = conn[c].user /\ t.wallet = conn[c].wallet
        /\ t.amount = Option1(c).amount /\ t.status = conn[c].status
        /\ transactions' = transactions \cup {t}
    BY DEF Record, InsertTransaction
  <1> HIDE DEF r, t
  <1>3. conn[c].pc = "record" /\ InExchange(c)
    BY DEF Record, At, InExchange
  <1>4. UNCHANGED <<grants, exchanges, signed>>
    BY DEF Record, InsertTransaction
  <1>5. /\ t.id \in ExchangeIds /\ Phase(t.id) = "open"
        /\ Abstract!Becomes({t.id}, "over")
    BY <1>1, <1>2, <1>3, <1>4, Ended DEF Outside
  <1>6. \A row \in transactions : row.id # t.id
    BY <1>2, <1>3 DEF ExchangeInv, Stage
  <1>7. Abstract!Truthful(t)
    BY <1>2, <1>3 DEF ExchangeInv, Stage, Abstract!Truthful, Abstract!Denials
  <1> QED BY <1>2, <1>4, <1>5, <1>6, <1>7 DEF Abstract!Close

\* No option is left, or the row cannot be written.
LEMMA AbandonStep ==
  ASSUME ExchangeInv, NEW c \in Conns, GiveUp(c) \/ RecordFails(c)
  PROVE Abstract!Abandon
  <1> DEFINE r == Fresh(conn[c].tunnel)
  <1>1. r.pc = "idle" /\ r.id = 0
    BY DEF Fresh
  <1>2. /\ conn' = [conn EXCEPT ![c] = r] /\ InExchange(c)
        /\ UNCHANGED <<grants, exchanges, signed, transactions>>
    BY DEF GiveUp, RecordFails, Answer, Move, storeVars, At, InExchange
  <1> HIDE DEF r
  <1>3. /\ conn[c].id \in ExchangeIds /\ Phase(conn[c].id) = "open"
        /\ Abstract!Becomes({conn[c].id}, "over")
    BY <1>1, <1>2, Ended DEF Outside
  <1> QED BY <1>2, <1>3 DEF Abstract!Abandon

\* A crash ends every exchange that is open.
LEMMA CrashStep == ASSUME ExchangeInv, Crash PROVE Abstract!Abandon
  <1> DEFINE I == {i \in ExchangeIds : Phase(i) = "open"}
  <1>1. /\ \A d \in Conns : ~ InExchange(d)' /\ conn'[d].pc = "idle"
        /\ UNCHANGED <<grants, exchanges, signed, transactions>>
    BY DEF Crash, Fresh, InExchange, storeVars
  <1>3. \A i \in ExchangeIds : Phase(i)' = IF i \in I THEN "over" ELSE Phase(i)
    BY <1>1 DEF Phase
  <1> HIDE DEF I
  <1>4. Abstract!Becomes(I, "over")
    BY <1>3 DEF Abstract!Becomes
  <1> QED BY <1>1, <1>4 DEF Abstract!Abandon, I

-----------------------------------------------------------------------------
(* The steps that an outsider does not see.                                *)

\* The exchange is concluded, and still owes its row.
LEMMA ConcludeStep ==
  ASSUME ExchangeInv, NEW c \in Conns, NEW status, Conclude(c, status),
         conn[c].pc \notin Outside
  PROVE UNCHANGED Abstract!spendingVars
  <1> DEFINE r == [conn[c] EXCEPT !.pc = "record", !.status = status]
  <1>1. r.pc = "record" /\ r.id = conn[c].id /\ Move(c, r)
    BY ConnType DEF Conclude, ExchangeInv, Connection
  <1> HIDE DEF r
  <1> QED BY <1>1, Within DEF Outside

\* Looking for an option.
LEMMA SelectStep ==
  ASSUME ExchangeInv, NEW c \in Conns, SkipOption(c) \/ \E w \in WalletIds : UseWallet(c, w)
  PROVE UNCHANGED Abstract!spendingVars
  <1>1. conn[c] \in Connection
    BY ConnType DEF ExchangeInv
  <1>2. CASE SkipOption(c)
    <2> DEFINE r == [conn[c] EXCEPT !.offer = Tail(conn[c].offer)]
    <2>1. r.pc = "select" /\ conn[c].pc = "select" /\ r.id = conn[c].id /\ Move(c, r)
      BY <1>1, <1>2 DEF SkipOption, At, Connection
    <2> HIDE DEF r
    <2> QED BY <2>1, Within DEF Outside
  <1>3. ASSUME NEW w \in WalletIds, UseWallet(c, w)
        PROVE UNCHANGED Abstract!spendingVars
    <2> DEFINE r == [conn[c] EXCEPT !.pc = "assign", !.wallet = w]
    <2>1. r.pc = "assign" /\ conn[c].pc = "select" /\ r.id = conn[c].id /\ Move(c, r)
      BY <1>1, <1>3 DEF UseWallet, At, Connection
    <2> HIDE DEF r
    <2> QED BY <2>1, Within DEF Outside
  <1> QED BY <1>2, <1>3

\* Reading the assignment and the rows, and comparing.
LEMMA AuthorizeStep ==
  ASSUME ExchangeInv, NEW c \in Conns,
         ReadAssignment(c) \/ ListTransactions(c) \/ CompareBudget(c)
  PROVE UNCHANGED Abstract!spendingVars
  <1>1. conn[c] \in Connection
    BY ConnType DEF ExchangeInv
  <1>2. CASE ReadAssignment(c)
    <2> DEFINE r == [conn[c] EXCEPT !.pc = "sign"]
               q == [conn[c] EXCEPT !.pc = "list", !.budget = userWallet[Pair(c)]]
    <2>1. /\ r.pc = "sign" /\ r.id = conn[c].id
          /\ r.user = conn[c].user /\ r.wallet = conn[c].wallet
          /\ q.pc = "list" /\ q.id = conn[c].id
          /\ q.user = conn[c].user /\ q.wallet = conn[c].wallet
          /\ conn[c].pc = "assign"
          /\ Move(c, r) \/ Move(c, q)
      BY <1>1, <1>2 DEF ReadAssignment, GoTo, At, Connection
    <2> HIDE DEF r, q
    <2> QED BY <2>1, Within DEF Outside
  <1>3. CASE ListTransactions(c)
    <2> DEFINE r == [conn[c] EXCEPT !.pc = "compare",
                                    !.listed = ListTransactionsByUser(conn[c].user)]
    <2>1. /\ conn[c].pc = "list" /\ r.pc = "compare" /\ r.id = conn[c].id
          /\ r.user = conn[c].user /\ r.wallet = conn[c].wallet
          /\ Move(c, r) \/ Conclude(c, "failed_unknown")
      BY <1>1, <1>3 DEF ListTransactions, At, Connection
    <2> HIDE DEF r
    <2> QED BY <1>1, <2>1, Within, ConcludeStep DEF Outside
  <1>4. CASE CompareBudget(c)
    <2> DEFINE r == [conn[c] EXCEPT !.pc = "record", !.status = "budget_exceeded",
                                    !.listed = {}]
               q == [conn[c] EXCEPT !.pc = "sign", !.listed = {}]
    <2>1. /\ conn[c].pc = "compare" /\ r.pc = "record" /\ r.id = conn[c].id
          /\ q.pc = "sign" /\ q.id = conn[c].id
          /\ q.user = conn[c].user /\ q.wallet = conn[c].wallet
          /\ Move(c, r) \/ Move(c, q)
      BY <1>1, <1>4 DEF CompareBudget, At, Connection
    <2> HIDE DEF r, q
    <2> QED BY <1>1, <2>1, Within DEF Outside
  <1> QED BY <1>2, <1>3, <1>4

\* Clients that connect, disconnect or send, and upstreams that ask for nothing.
LEMMA ClientSpending ==
  ASSUME ExchangeInv, NEW c \in Conns, ClientStep(c) \/ PassThrough(c)
  PROVE UNCHANGED Abstract!spendingVars
  <1>1. conn[c] \in Connection /\ (conn[c].pc \in Outside => conn[c].id = 0)
    BY ConnType DEF ExchangeInv, Numbered, InExchange, Outside
  <1>2. ASSUME NEW tunnel, Move(c, Fresh(tunnel)), conn[c].pc \in Outside
        PROVE UNCHANGED Abstract!spendingVars
    <2>1. Fresh(tunnel).pc = "idle" /\ Fresh(tunnel).id = 0
      BY DEF Fresh
    <2> QED BY <1>1, <1>2, <2>1, Within DEF Outside
  <1>3. ASSUME NEW u, NEW body, BeginRequest(c, u, body)
        PROVE UNCHANGED Abstract!spendingVars
    <2> DEFINE r == [conn[c] EXCEPT !.pc = "upstream", !.user = u, !.body = body]
    <2>1. conn[c].pc = "idle" /\ r.pc = "upstream" /\ r.id = conn[c].id /\ Move(c, r)
      BY <1>1, <1>3 DEF BeginRequest, At, Connection
    <2> HIDE DEF r
    <2> QED BY <2>1, Within DEF Outside
  <1> QED BY <1>2, <1>3
      DEF ClientStep, OpenTunnel, CloseTunnel, PassThrough, Answer, At, Outside

\* All steps of a handler.
LEMMA HandlerSpending ==
  ASSUME ExchangeInv, PaymentBacked', NEW c \in Conns, HandlerStep(c)
  PROVE [Abstract!Next]_Abstract!spendingVars
  <1>1. CASE GiveUp(c) \/ RecordFails(c)
    BY <1>1, AbandonStep DEF Abstract!Next
  <1>2. CASE Sign(c)
    BY <1>2, PayStep DEF Abstract!Next
  <1>3. CASE Record(c)
    BY <1>3, CloseStep DEF Abstract!Next
  <1>4. CASE AssignmentFails(c) \/ Unassigned(c) \/ SignFails(c) \/ RetryFails(c)
    BY <1>4, ConcludeStep
    DEF AssignmentFails, Unassigned, SignFails, RetryFails, At, Outside
  <1> QED BY <1>1, <1>2, <1>3, <1>4, SelectStep, AuthorizeStep DEF HandlerStep

\* All that the upstream does.
LEMMA UpstreamSpending ==
  ASSUME ExchangeInv, NEW c \in Conns, UpstreamStep(c)
  PROVE [Abstract!Next]_Abstract!spendingVars
  <1>1. CASE PassThrough(c)
    BY <1>1, ClientSpending
  <1>2. ASSUME NEW offer \in Offers, Challenged(c, offer)
        PROVE [Abstract!Next]_Abstract!spendingVars
    BY <1>2, OpenStep DEF Abstract!Next
  <1>3. CASE RetryAnswered(c)
    BY <1>3, ConcludeStep DEF RetryAnswered, At, Outside
  <1> QED BY <1>1, <1>2, <1>3 DEF UpstreamStep

-----------------------------------------------------------------------------
(* The administrator, the clock, and the whole.                            *)

\* A budget that is set is granted.
LEMMA SetLimitStep ==
  ASSUME UNCHANGED proxyVars, NEW u \in UserIds, NEW w \in WalletIds, NEW limit,
         SetLimit(u, w, limit)
  PROVE Abstract!Grant
  <1> DEFINE g == [user |-> u, wallet |-> w, budget |-> limit]
  <1>1. g.user = u /\ g.wallet = w /\ grants' = grants \cup {g}
    BY DEF SetLimit
  <1> HIDE DEF g
  <1>2. \A i \in ExchangeIds : Phase(i)' = Phase(i)
    BY DEF Phase, InExchange, proxyVars
  <1> QED BY <1>1, <1>2 DEF Abstract!Grant, SetLimit, proxyVars

\* What the administrator does is a grant, or takes rows away.
LEMMA StoreSpending ==
  ASSUME StoreNext
  PROVE [Abstract!Next]_Abstract!spendingVars
  <1>1. UNCHANGED proxyVars
    BY DEF StoreNext
  <1>2. \A i \in ExchangeIds : Phase(i)' = Phase(i)
    BY <1>1 DEF Phase, InExchange, proxyVars
  <1>3. ASSUME UNCHANGED grants PROVE [Abstract!Next]_Abstract!spendingVars
    <2>1. Abstract!Erase
      BY <1>1, <1>2, <1>3, StoreNextRows DEF Abstract!Erase, proxyVars
    <2> QED BY <2>1 DEF Abstract!Next
  <1>4. ASSUME NEW u \in UserIds, NEW w \in WalletIds, NEW limit,
               Assign(u, w, limit) \/ UpdateMonthlyBudget(u, w, limit)
        PROVE [Abstract!Next]_Abstract!spendingVars
    BY <1>1, <1>4, SetLimitStep DEF Assign, UpdateMonthlyBudget, Abstract!Next
  <1>5. CASE Tick
    BY <1>3, <1>5 DEF Tick
  <1>6. CASE AdminNext
    BY <1>3, <1>4, <1>6
    DEF AdminNext, CreateUser, DeleteUser, CreateWallet, DeleteWallet, DeleteUserWallet
  <1> QED BY <1>5, <1>6 DEF StoreNext

\* Every step of PayProxy is one of Spending, or none.
LEMMA StepSpending ==
  ASSUME ExchangeInv, PaymentBacked', [Next]_vars
  PROVE [Abstract!Next]_Abstract!spendingVars
  <1>1. CASE UNCHANGED vars
    <2>1. UNCHANGED <<conn, exchanges, signed, transactions, grants>>
      BY <1>1 DEF vars, storeVars, proxyVars
    <2>2. \A i \in ExchangeIds : Phase(i)' = Phase(i)
      BY <2>1 DEF Phase, InExchange
    <2> QED BY <2>1, <2>2 DEF Abstract!spendingVars
  <1>2. CASE Next
    <2>1. ASSUME NEW c \in Conns, HandlerStep(c) \/ ClientStep(c) \/ UpstreamStep(c)
          PROVE [Abstract!Next]_Abstract!spendingVars
      BY <2>1, HandlerSpending, ClientSpending, UpstreamSpending
    <2>2. CASE Crash
      BY <2>2, CrashStep DEF Abstract!Next
    <2> QED BY <1>2, <2>1, <2>2, StoreSpending DEF Next, ProxyNext
  <1> QED BY <1>1, <1>2

\* For an outsider, all that the proxy, its administrator and its crashes do
\* with money is what Spending allows: an exchange is paid for at most once,
\* while it is open, by a user who was given the wallet and a budget as large
\* as the payment, and closed by at most one row that tells the truth, for any
\* number of connections and offers.
THEOREM ProxyImplementsSpending == Spec => ImplementsSpending
  <1>1. Init => Abstract!Init
    BY InitAbstract
  <1>2. BudgetInv /\ BudgetInv' /\ [Next]_vars => [Abstract!Next]_Abstract!spendingVars
    BY StepSpending DEF BudgetInv
  <1> QED BY <1>1, <1>2, BudgetInvariant, PTL DEF Spec, ImplementsSpending, Abstract!Spec
=============================================================================
