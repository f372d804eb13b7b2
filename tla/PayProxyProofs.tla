--------------------------- MODULE PayProxyProofs ---------------------------
(***************************************************************************)
(* Proofs about PayProxy, for any number of connections, users, wallets    *)
(* and offers, with or without foreign keys.                               *)
(***************************************************************************)
EXTENDS PayProxy, StoreProofs

\* What the steps of one request rely on: from "assign" on there is an option
\* and a wallet, and from "list" to "retry" there is a user.
Ready(r) ==
  /\ r.pc \in {"assign", "list", "compare", "sign", "retry", "record"} =>
       r.offer # <<>> /\ r.wallet \in WalletIds
  /\ r.pc \in {"list", "compare", "sign", "retry"} => r.user \in UserIds

TypeInv == TypeOK /\ \A c \in Conns : Ready(conn[c])

\* A connection without a request is well typed.
LEMMA FreshType ==
  ASSUME NEW tunnel \in UserIds \cup {NoUser}
  PROVE Fresh(tunnel) \in Connection /\ Ready(Fresh(tunnel))
  <1>1. Unlimited \in Limits /\ <<>> \in Seq(Option)
    BY DEF Limits
  <1> QED BY <1>1 DEF Fresh, Connection, Ready, PCs, Statuses

\* At first all is typed.
LEMMA InitType == Init => TypeInv
  <1> SUFFICES ASSUME Init PROVE TypeInv
    OBVIOUS
  <1>1. StoreTypeOK
    BY StoreInitOK DEF Init
  <1>2. Fresh(NoUser) \in Connection /\ Ready(Fresh(NoUser))
    BY FreshType
  <1>3. exchanges \in 0..MaxExchanges /\ signed \subseteq Payment /\ lost \subseteq Nat
    BY PayProxyAssumption DEF Init
  <1> QED BY <1>1, <1>2, <1>3 DEF Init, TypeInv, TypeOK

\* A step that only moves one connection keeps the types.
LEMMA MoveType ==
  ASSUME TypeInv, NEW c \in Conns, NEW r, r \in Connection, Ready(r), Move(c, r)
  PROVE TypeInv'
  <1>1. StoreTypeOK'
    BY DEF TypeInv, TypeOK, StoreTypeOK, Move, storeVars
  <1>2. conn' \in [Conns -> Connection] /\ \A d \in Conns : Ready(conn'[d])
    BY DEF TypeInv, TypeOK, Move
  <1> QED BY <1>1, <1>2 DEF TypeInv, TypeOK, Move

\* What the invariant says of one connection.
LEMMA ConnType ==
  ASSUME TypeInv, NEW c \in Conns
  PROVE conn[c] \in Connection /\ Ready(conn[c])
  BY DEF TypeInv, TypeOK

\* An answered request is gone.
LEMMA AnswerType == ASSUME TypeInv, NEW c \in Conns, Answer(c) PROVE TypeInv'
  <1>1. conn[c].tunnel \in UserIds \cup {NoUser}
    BY ConnType DEF Connection
  <1> DEFINE r == Fresh(conn[c].tunnel)
  <1>2. r \in Connection /\ Ready(r)
    BY <1>1, FreshType
  <1>3. Move(c, r)
    BY DEF Answer
  <1> HIDE DEF r
  <1> QED BY <1>2, <1>3, MoveType

\* A concluded exchange keeps its option and gets a status.
LEMMA ConcludeType ==
  ASSUME TypeInv, NEW c \in Conns, NEW status \in Statuses, Conclude(c, status),
         conn[c].pc \in {"assign", "list", "compare", "sign", "retry"}
  PROVE TypeInv'
  <1> DEFINE r == [conn[c] EXCEPT !.pc = "record", !.status = status]
  <1>1. r \in Connection /\ Ready(r)
    BY ConnType DEF Connection, Ready, PCs
  <1>2. Move(c, r)
    BY DEF Conclude
  <1> HIDE DEF r
  <1> QED BY <1>1, <1>2, MoveType

\* Clients keep the types.
LEMMA ClientType ==
  ASSUME TypeInv, NEW c \in Conns, ClientStep(c) PROVE TypeInv'
  <1>1. ASSUME NEW u \in UserIds, OpenTunnel(c, u) PROVE TypeInv'
    <2> DEFINE r == Fresh(u)
    <2>1. r \in Connection /\ Ready(r) /\ Move(c, r)
      BY <1>1, FreshType DEF OpenTunnel
    <2> HIDE DEF r
    <2> QED BY <2>1, MoveType
  <1>2. ASSUME CloseTunnel(c) PROVE TypeInv'
    <2> DEFINE r == Fresh(NoUser)
    <2>1. r \in Connection /\ Ready(r) /\ Move(c, r)
      BY <1>2, FreshType DEF CloseTunnel
    <2> HIDE DEF r
    <2> QED BY <2>1, MoveType
  <1>3. ASSUME NEW u \in UserIds \cup {NoUser}, NEW body \in {"none", "unread"},
               BeginRequest(c, u, body)
        PROVE TypeInv'
    <2> DEFINE r == [conn[c] EXCEPT !.pc = "upstream", !.user = u, !.body = body]
    <2>1. r \in Connection /\ Ready(r)
      BY ConnType DEF Connection, Ready, PCs
    <2>2. Move(c, r)
      BY <1>3 DEF BeginRequest
    <2> HIDE DEF r
    <2> QED BY <2>1, <2>2, MoveType
  <1> QED BY <1>1, <1>2, <1>3 DEF ClientStep

\* A challenge starts an exchange with what it offers.
LEMMA ChallengedType ==
  ASSUME TypeInv, NEW c \in Conns, NEW offer \in Offers, Challenged(c, offer)
  PROVE TypeInv'
  <1> DEFINE r == [conn[c] EXCEPT !.pc = "select", !.offer = offer,
                                  !.id = exchanges + 1, !.body = Spent(@)]
  <1>1. offer \in Seq(Option) /\ exchanges \in Nat
    BY PayProxyAssumption DEF TypeInv, TypeOK
  <1>2. Spent(conn[c].body) \in {"none", "unread", "spent"} /\ exchanges + 1 \in Nat
    BY <1>1, ConnType DEF Connection, Spent
  <1>3. r \in Connection /\ Ready(r)
    BY <1>1, <1>2, ConnType DEF Connection, Ready, PCs
  <1>4. conn' = [conn EXCEPT ![c] = r]
    BY DEF Challenged
  <1>5. StoreTypeOK'
    BY DEF TypeInv, TypeOK, StoreTypeOK, Challenged, storeVars
  <1>6. exchanges' \in 0..MaxExchanges /\ signed' \subseteq Payment /\ lost' \subseteq Nat
    BY PayProxyAssumption DEF TypeInv, TypeOK, Challenged
  <1> HIDE DEF r
  <1> QED BY <1>3, <1>4, <1>5, <1>6 DEF TypeInv, TypeOK

\* The upstream keeps the types.
LEMMA UpstreamType ==
  ASSUME TypeInv, NEW c \in Conns, UpstreamStep(c) PROVE TypeInv'
  <1>1. CASE PassThrough(c)
    BY <1>1, AnswerType DEF PassThrough
  <1>2. ASSUME NEW offer \in Offers, Challenged(c, offer) PROVE TypeInv'
    BY <1>2, ChallengedType
  <1>3. CASE RetryAnswered(c)
    BY <1>3, ConcludeType DEF RetryAnswered, At, Statuses
  <1> QED BY <1>1, <1>2, <1>3 DEF UpstreamStep

\* Choosing an option and a wallet keeps the types.
LEMMA SelectType ==
  ASSUME TypeInv, NEW c \in Conns,
         SkipOption(c) \/ (\E w \in WalletIds : UseWallet(c, w)) \/ GiveUp(c)
  PROVE TypeInv'
  <1>1. CASE SkipOption(c)
    <2> DEFINE r == [conn[c] EXCEPT !.offer = Tail(conn[c].offer)]
    <2>1. Tail(conn[c].offer) \in Seq(Option) /\ conn[c].pc = "select"
      BY <1>1, ConnType DEF SkipOption, Connection, At
    <2>2. r \in Connection /\ Ready(r)
      BY <2>1, ConnType DEF Connection, Ready
    <2>3. Move(c, r)
      BY <1>1 DEF SkipOption
    <2> HIDE DEF r
    <2> QED BY <2>2, <2>3, MoveType
  <1>2. ASSUME NEW w \in WalletIds, UseWallet(c, w) PROVE TypeInv'
    <2> DEFINE r == [conn[c] EXCEPT !.pc = "assign", !.wallet = w]
    <2>1. r \in Connection /\ Ready(r)
      BY <1>2, ConnType DEF UseWallet, At, Connection, Ready, PCs
    <2>2. Move(c, r)
      BY <1>2 DEF UseWallet
    <2> HIDE DEF r
    <2> QED BY <2>1, <2>2, MoveType
  <1>3. CASE GiveUp(c)
    BY <1>3, AnswerType DEF GiveUp
  <1> QED BY <1>1, <1>2, <1>3

\* So do the queries and the comparison.
LEMMA AuthorizeType ==
  ASSUME TypeInv, NEW c \in Conns,
         \/ AssignmentFails(c) \/ Unassigned(c) \/ ReadAssignment(c)
         \/ ListTransactions(c) \/ CompareBudget(c)
  PROVE TypeInv'
  <1>1. CASE AssignmentFails(c) \/ Unassigned(c)
    BY <1>1, ConcludeType DEF AssignmentFails, Unassigned, At, Statuses
  <1>2. CASE ReadAssignment(c)
    <2>1. conn[c].pc = "assign" /\ conn[c].user \in UserIds /\ userWallet[Pair(c)] \in Limits
      BY <1>2 DEF ReadAssignment, At, Pair, TypeInv, TypeOK, StoreTypeOK
    <2>2. CASE GoTo(c, "sign")
      <3> DEFINE r == [conn[c] EXCEPT !.pc = "sign"]
      <3>1. r \in Connection /\ Ready(r)
        BY <2>1, ConnType DEF Connection, Ready, PCs
      <3>2. Move(c, r)
        BY <2>2 DEF GoTo
      <3> HIDE DEF r
      <3> QED BY <3>1, <3>2, MoveType
    <2>3. CASE Move(c, [conn[c] EXCEPT !.pc = "list", !.budget = userWallet[Pair(c)]])
      <3> DEFINE r == [conn[c] EXCEPT !.pc = "list", !.budget = userWallet[Pair(c)]]
      <3>1. r \in Connection /\ Ready(r)
        BY <2>1, ConnType DEF Connection, Ready, PCs
      <3>2. Move(c, r)
        BY <2>3
      <3> HIDE DEF r
      <3> QED BY <3>1, <3>2, MoveType
    <2> QED BY <1>2, <2>2, <2>3 DEF ReadAssignment
  <1>3. CASE ListTransactions(c)
    <2>1. CASE Conclude(c, "failed_unknown")
      BY <1>3, <2>1, ConcludeType DEF ListTransactions, At, Statuses
    <2>2. CASE Move(c, [conn[c] EXCEPT !.pc = "compare",
                                       !.listed = ListTransactionsByUser(conn[c].user)])
      <3> DEFINE r == [conn[c] EXCEPT !.pc = "compare",
                                      !.listed = ListTransactionsByUser(conn[c].user)]
      <3>1. ListTransactionsByUser(conn[c].user) \in SUBSET Row
        BY DEF ListTransactionsByUser, TypeInv, TypeOK, StoreTypeOK
      <3>2. r \in Connection /\ Ready(r)
        BY <1>3, <3>1, ConnType DEF ListTransactions, At, Connection, Ready, PCs
      <3>3. Move(c, r)
        BY <2>2
      <3> HIDE DEF r
      <3> QED BY <3>2, <3>3, MoveType
    <2> QED BY <1>3, <2>1, <2>2 DEF ListTransactions
  <1>4. CASE CompareBudget(c)
    <2>1. CASE Move(c, [conn[c] EXCEPT !.pc = "record", !.status = "budget_exceeded",
                                       !.listed = {}])
      <3> DEFINE r == [conn[c] EXCEPT !.pc = "record", !.status = "budget_exceeded",
                                      !.listed = {}]
      <3>1. r \in Connection /\ Ready(r)
        BY <1>4, ConnType DEF CompareBudget, At, Connection, Ready, PCs, Statuses
      <3>2. Move(c, r)
        BY <2>1
      <3> HIDE DEF r
      <3> QED BY <3>1, <3>2, MoveType
    <2>2. CASE Move(c, [conn[c] EXCEPT !.pc = "sign", !.listed = {}])
      <3> DEFINE r == [conn[c] EXCEPT !.pc = "sign", !.listed = {}]
      <3>1. r \in Connection /\ Ready(r)
        BY <1>4, ConnType DEF CompareBudget, At, Connection, Ready, PCs
      <3>2. Move(c, r)
        BY <2>2
      <3> HIDE DEF r
      <3> QED BY <3>1, <3>2, MoveType
    <2> QED BY <1>4, <2>1, <2>2 DEF CompareBudget
  <1> QED BY <1>1, <1>2, <1>3, <1>4

\* Where a payment is made or recorded there is an option and a wallet.
LEMMA OptionType ==
  ASSUME TypeInv, NEW c \in Conns, conn[c].pc \in {"sign", "retry", "record"}
  PROVE /\ Option1(c) \in Option
        /\ Option1(c).amount \in Int
        /\ Option1(c).form = "uint" => Option1(c).amount \in Nat
        /\ conn[c].wallet \in WalletIds /\ conn[c].id \in Nat /\ conn[c].status \in Statuses
  <1>1. conn[c].offer \in Seq(Option) /\ conn[c].offer # <<>>
    BY ConnType DEF Connection, Ready
  <1>2. Option1(c) \in Option
    BY <1>1 DEF Option1
  <1>3. ASSUME NEW o \in Option
        PROVE o.amount \in Int /\ (o.form = "uint" => o.amount \in 0..MaxAmount)
    BY DEF Option
  <1>4. Option1(c).amount \in Int /\ (Option1(c).form = "uint" => Option1(c).amount \in 0..MaxAmount)
    BY <1>2, <1>3
  <1>5. conn[c].wallet \in WalletIds /\ conn[c].id \in Nat /\ conn[c].status \in Statuses
    BY ConnType DEF Connection, Ready
  <1> QED BY <1>2, <1>4, <1>5, PayProxyAssumption

\* The signature and the retry keep the types.
LEMMA PayType ==
  ASSUME TypeInv, NEW c \in Conns, Sign(c) \/ SignFails(c) \/ RetryFails(c)
  PROVE TypeInv'
  <1>1. CASE Sign(c)
    <2> DEFINE r == [conn[c] EXCEPT !.pc = "retry"]
               p == [id |-> conn[c].id, user |-> conn[c].user, wallet |-> conn[c].wallet,
                     amount |-> Option1(c).amount, at |-> clock]
    <2>1. r \in Connection /\ Ready(r)
      BY <1>1, ConnType DEF Sign, At, Connection, Ready, PCs
    <2>2. p \in Payment
      BY <1>1, OptionType, ConnType
      DEF Sign, At, Ready, Payment, TypeInv, TypeOK, StoreTypeOK
    <2>3. conn' = [conn EXCEPT ![c] = r] /\ signed' = signed \cup {p}
      BY <1>1 DEF Sign
    <2>4. StoreTypeOK'
      BY <1>1 DEF TypeInv, TypeOK, StoreTypeOK, Sign, storeVars
    <2> HIDE DEF r, p
    <2> QED BY <1>1, <2>1, <2>2, <2>3, <2>4 DEF TypeInv, TypeOK, Sign
  <1>2. CASE SignFails(c) \/ RetryFails(c)
    BY <1>2, ConcludeType DEF SignFails, RetryFails, At, Statuses
  <1> QED BY <1>1, <1>2

\* A row is made of a user, a wallet and an option.
LEMMA RecordType ==
  ASSUME TypeInv, NEW c \in Conns, Record(c) \/ RecordFails(c)
  PROVE TypeInv'
  <1> DEFINE r == Fresh(conn[c].tunnel)
  <1>1. r \in Connection /\ Ready(r) /\ conn[c].user \in UserIds \cup {NoUser}
    BY ConnType, FreshType DEF Connection
  <1>2. conn[c].id \in Nat /\ conn[c].pc = "record"
    BY ConnType DEF Record, RecordFails, At, Connection
  <1>3. CASE Record(c)
    <2>1. StoreTypeOK'
      BY <1>1, <1>2, <1>3, OptionType, InsertTransactionType DEF Record, TypeInv, TypeOK
    <2> HIDE DEF r
    <2>2. conn' = [conn EXCEPT ![c] = r]
      BY <1>3 DEF Record, r
    <2> QED BY <1>1, <1>3, <2>1, <2>2 DEF Record, TypeInv, TypeOK
  <1>4. CASE RecordFails(c)
    <2>1. StoreTypeOK'
      BY <1>4 DEF RecordFails, TypeInv, TypeOK, StoreTypeOK, storeVars
    <2>2. conn' = [conn EXCEPT ![c] = r]
      BY <1>4 DEF RecordFails
    <2> HIDE DEF r
    <2> QED BY <1>1, <1>2, <1>4, <2>1, <2>2 DEF RecordFails, TypeInv, TypeOK
  <1> QED BY <1>3, <1>4

\* A crash leaves fresh connections.
LEMMA CrashType == TypeInv /\ Crash => TypeInv'
  <1> SUFFICES ASSUME TypeInv, Crash PROVE TypeInv'
    OBVIOUS
  <1>1. StoreTypeOK'
    BY DEF TypeInv, TypeOK, StoreTypeOK, Crash, storeVars
  <1>2. Fresh(NoUser) \in Connection /\ Ready(Fresh(NoUser))
    BY FreshType
  <1>3. lost' \subseteq Nat
    BY ConnType DEF Crash, TypeInv, TypeOK, Connection
  <1> QED BY <1>1, <1>2, <1>3 DEF Crash, TypeInv, TypeOK

\* The administrator and the clock do not touch connections.
LEMMA StoreNextType == TypeInv /\ StoreNext => TypeInv'
  <1> SUFFICES ASSUME TypeInv, StoreNext PROVE TypeInv'
    OBVIOUS
  <1>1. StoreTypeOK'
    BY AdminType, TickType DEF StoreNext, TypeInv, TypeOK
  <1> QED BY <1>1 DEF StoreNext, proxyVars, TypeInv, TypeOK

\* Where nothing happens the types stay.
LEMMA StutterType == TypeInv /\ UNCHANGED vars => TypeInv'
  BY DEF TypeInv, TypeOK, StoreTypeOK, vars, storeVars, proxyVars

\* Every step keeps the types.
LEMMA NextType == TypeInv /\ [Next]_vars => TypeInv'
  <1> SUFFICES ASSUME TypeInv, Next PROVE TypeInv'
    BY StutterType
  <1>1. ASSUME NEW c \in Conns, HandlerStep(c) PROVE TypeInv'
    BY <1>1, SelectType, AuthorizeType, PayType, RecordType DEF HandlerStep
  <1>2. ASSUME NEW c \in Conns, ClientStep(c) PROVE TypeInv'
    BY <1>2, ClientType
  <1>3. ASSUME NEW c \in Conns, UpstreamStep(c) PROVE TypeInv'
    BY <1>3, UpstreamType
  <1> QED BY <1>1, <1>2, <1>3, CrashType, StoreNextType DEF Next, ProxyNext

\* Every reachable state is well typed: no handler step ever uses an option, a
\* wallet or a user it does not have, whatever upstreams and the administrator do.
THEOREM TypeCorrect == Spec => []TypeOK
  <1>1. Init => TypeInv
    BY InitType
  <1>2. TypeInv /\ [Next]_vars => TypeInv'
    BY NextType
  <1>3. TypeInv => TypeOK
    BY DEF TypeInv
  <1> QED BY <1>1, <1>2, <1>3, PTL DEF Spec

\* A step of one connection leaves the others where they are.
LEMMA Elsewhere ==
  ASSUME TypeInv, NEW c \in Conns, NEW d \in Conns, c # d,
         HandlerStep(d) \/ ClientStep(d) \/ UpstreamStep(d)
  PROVE conn'[c] = conn[c]
  <1>1. conn \in [Conns -> Connection]
    BY DEF TypeInv, TypeOK
  <1>2. ASSUME NEW r, conn' = [conn EXCEPT ![d] = r] PROVE conn'[c] = conn[c]
    BY <1>1, <1>2
  <1>3. \E r : conn' = [conn EXCEPT ![d] = r]
    <2>1. CASE HandlerStep(d)
      BY <2>1 DEF HandlerStep, SkipOption, UseWallet, GiveUp, AssignmentFails, Unassigned,
                  ReadAssignment, ListTransactions, CompareBudget, Sign, SignFails,
                  RetryFails, Record, RecordFails, Answer, Conclude, GoTo, Move
    <2>2. CASE ClientStep(d) \/ UpstreamStep(d)
      BY <2>2 DEF ClientStep, UpstreamStep, OpenTunnel, CloseTunnel, BeginRequest,
                  PassThrough, Challenged, RetryAnswered, Answer, Conclude, Move
    <2> QED BY <2>1, <2>2
  <1> QED BY <1>2, <1>3

-----------------------------------------------------------------------------
(***************************************************************************)
(* An exchange ends in at most one payment and one row that agree, and a   *)
(* payment does not vanish: one inductive invariant, and what follows.     *)
(***************************************************************************)

\* Exchange ids are counted up, and those in use are in use once.
Numbered ==
  /\ \A c \in Conns : conn[c].id = 0 <=> ~ InExchange(c)
  /\ \A c \in Conns : conn[c].id <= exchanges
  /\ \A c, d \in Conns : InExchange(c) /\ conn[c].id = conn[d].id => c = d
  /\ \A t \in transactions : t.id \in 1..exchanges
  /\ \A p \in signed : p.id \in 1..exchanges

\* How far the exchange of c has got, in the tables and in the history.
Stage(c) == InExchange(c) =>
  /\ \A t \in transactions : t.id # conn[c].id
  /\ \A p \in signed : p.id = conn[c].id =>
       /\ conn[c].pc \in {"retry", "record"}
       /\ conn[c].pc = "record" => conn[c].status \in {"success", "failed_unknown"}
       /\ p.user = conn[c].user /\ p.wallet = conn[c].wallet /\ p.amount = Option1(c).amount
  /\ conn[c].pc = "retry" \/ (conn[c].pc = "record" /\ conn[c].status = "success") =>
       \E p \in signed : p.id = conn[c].id

\* Rows and payments of the same exchange.
Matched ==
  /\ \A r, t \in transactions : r.id = t.id => r = t
  /\ \A p, q \in signed : p.id = q.id => p = q
  /\ \A t \in transactions : t.status = "success" => \E p \in signed : p.id = t.id
  /\ \A t \in transactions : \A p \in signed : t.id = p.id =>
       /\ t.status \in {"success", "failed_unknown"}
       /\ t.user = p.user /\ t.wallet = p.wallet /\ t.amount = p.amount

ExchangeInv == TypeInv /\ Numbered /\ (\A c \in Conns : Stage(c)) /\ Matched

-----------------------------------------------------------------------------
\* At first there is no exchange.
LEMMA InitExchange == Init => Numbered /\ (\A c \in Conns : Stage(c)) /\ Matched
  BY DEF Init, StoreInit, Fresh, InExchange, Numbered, Stage, Matched

LEMMA Moved ==
  ASSUME TypeInv, NEW c \in Conns, NEW r, Move(c, r)
  PROVE /\ conn'[c] = r /\ \A d \in Conns : d # c => conn'[d] = conn[d]
        /\ UNCHANGED <<transactions, signed, exchanges, lost, proxyUsers, wallets, issued>>
  BY DEF Move, storeVars, TypeInv, TypeOK

\* A connection goes on with its exchange, not paid yet.
BeforePayment == {"select", "assign", "list", "compare", "sign"}

LEMMA GoOn ==
  ASSUME ExchangeInv, NEW c \in Conns, NEW r, Move(c, r),
         conn[c].pc \in BeforePayment, r.pc \in BeforePayment \cup {"record"},
         r.pc = "record" => r.status # "success",
         r.id = conn[c].id
  PROVE Numbered' /\ (\A d \in Conns : Stage(d)') /\ Matched'
  <1>1. /\ conn'[c] = r /\ \A d \in Conns : d # c => conn'[d] = conn[d]
        /\ UNCHANGED <<transactions, signed, exchanges>>
    BY Moved DEF ExchangeInv
  <1>2. \A d \in Conns : conn'[d].id = conn[d].id /\ (InExchange(d)' <=> InExchange(d))
    BY <1>1 DEF InExchange, BeforePayment
  <1>3. Numbered'
    BY <1>1, <1>2 DEF ExchangeInv, Numbered
  <1>4. \A d \in Conns : Stage(d)'
    <2>1. Stage(c)'
      BY <1>1 DEF ExchangeInv, Stage, InExchange, BeforePayment
    <2>2. ASSUME NEW d \in Conns, d # c PROVE Stage(d)'
      BY <1>1, <2>2 DEF ExchangeInv, Stage, InExchange, Option1
    <2> QED BY <2>1, <2>2
  <1>5. Matched'
    BY <1>1 DEF ExchangeInv, Matched
  <1> QED BY <1>3, <1>4, <1>5

\* The retry is over, with one of the two outcomes.
LEMMA RetryOver ==
  ASSUME ExchangeInv, NEW c \in Conns, NEW status \in {"success", "failed_unknown"},
         Conclude(c, status), conn[c].pc = "retry"
  PROVE Numbered' /\ (\A d \in Conns : Stage(d)') /\ Matched'
  <1> DEFINE r == [conn[c] EXCEPT !.pc = "record", !.status = status]
  <1>1. /\ r.pc = "record" /\ r.status = status /\ r.id = conn[c].id
        /\ r.user = conn[c].user /\ r.wallet = conn[c].wallet /\ r.offer = conn[c].offer
    BY ConnType DEF ExchangeInv, Connection
  <1>2. Move(c, r)
    BY DEF Conclude
  <1> HIDE DEF r
  <1>3. /\ conn'[c] = r /\ \A d \in Conns : d # c => conn'[d] = conn[d]
        /\ UNCHANGED <<transactions, signed, exchanges>>
    BY <1>2, Moved DEF ExchangeInv
  <1>4. \A d \in Conns : conn'[d].id = conn[d].id /\ (InExchange(d)' <=> InExchange(d))
    BY <1>1, <1>3 DEF InExchange
  <1>5. Numbered'
    BY <1>3, <1>4 DEF ExchangeInv, Numbered
  <1>6. \A d \in Conns : Stage(d)'
    <2>1. Stage(c)'
      BY <1>1, <1>3 DEF ExchangeInv, Stage, InExchange, Option1
    <2>2. ASSUME NEW d \in Conns, d # c PROVE Stage(d)'
      BY <1>3, <2>2 DEF ExchangeInv, Stage, InExchange, Option1
    <2> QED BY <2>1, <2>2
  <1>7. Matched'
    BY <1>3 DEF ExchangeInv, Matched
  <1> QED BY <1>5, <1>6, <1>7

\* A connection ends up outside any exchange, and the tables stay as they are.
LEMMA Leave ==
  ASSUME ExchangeInv, NEW c \in Conns, NEW r, conn' = [conn EXCEPT ![c] = r],
         r.pc \in {"idle", "upstream"}, r.id = 0,
         UNCHANGED <<transactions, signed, exchanges>>
  PROVE Numbered' /\ (\A d \in Conns : Stage(d)') /\ Matched'
  <1>1. conn'[c] = r /\ \A d \in Conns : d # c => conn'[d] = conn[d]
    BY DEF ExchangeInv, TypeInv, TypeOK
  <1>2. ~ InExchange(c)' /\ \A d \in Conns : d # c => (InExchange(d)' <=> InExchange(d))
    BY <1>1 DEF InExchange
  <1>3. Numbered'
    <2>1. exchanges \in Nat /\ \A d \in Conns : conn[d].id \in Nat
      BY ConnType DEF ExchangeInv, TypeInv, TypeOK, Connection
    <2> QED BY <1>1, <1>2, <2>1 DEF ExchangeInv, Numbered
  <1>4. \A d \in Conns : Stage(d)'
    BY <1>1, <1>2 DEF ExchangeInv, Stage, Option1
  <1>5. Matched'
    BY DEF ExchangeInv, Matched
  <1> QED BY <1>3, <1>4, <1>5

\* A new exchange has a number that nothing has yet.
LEMMA ChallengedExchange ==
  ASSUME ExchangeInv, NEW c \in Conns, NEW offer \in Offers, Challenged(c, offer)
  PROVE Numbered' /\ (\A d \in Conns : Stage(d)') /\ Matched'
  <1> DEFINE r == [conn[c] EXCEPT !.pc = "select", !.offer = offer,
                                  !.id = exchanges + 1, !.body = Spent(@)]
  <1>1. r.pc = "select" /\ r.id = exchanges + 1 /\ conn' = [conn EXCEPT ![c] = r]
    BY ConnType DEF ExchangeInv, Connection, Challenged
  <1> HIDE DEF r
  <1>2. /\ conn'[c] = r /\ \A d \in Conns : d # c => conn'[d] = conn[d]
        /\ exchanges' = exchanges + 1 /\ UNCHANGED <<transactions, signed>>
    BY <1>1 DEF ExchangeInv, TypeInv, TypeOK, Challenged, storeVars
  <1>3. exchanges \in Nat /\ \A d \in Conns : conn[d].id \in Nat
    BY ConnType DEF ExchangeInv, TypeInv, TypeOK, Connection
  <1>4. InExchange(c)' /\ \A d \in Conns : d # c => (InExchange(d)' <=> InExchange(d))
    BY <1>1, <1>2 DEF InExchange
  <1>5. Numbered'
    BY <1>1, <1>2, <1>3, <1>4 DEF ExchangeInv, Numbered
  <1>6. \A d \in Conns : Stage(d)'
    <2>1. Stage(c)'
      BY <1>1, <1>2, <1>3 DEF ExchangeInv, Numbered, Stage
    <2>2. ASSUME NEW d \in Conns, d # c PROVE Stage(d)'
      BY <1>2, <2>2 DEF ExchangeInv, Stage, InExchange, Option1
    <2> QED BY <2>1, <2>2
  <1>7. Matched'
    BY <1>2 DEF ExchangeInv, Matched
  <1> QED BY <1>5, <1>6, <1>7

\* A signature is the first of its exchange.
LEMMA SignExchange ==
  ASSUME ExchangeInv, NEW c \in Conns, Sign(c)
  PROVE Numbered' /\ (\A d \in Conns : Stage(d)') /\ Matched'
  <1> DEFINE r == [conn[c] EXCEPT !.pc = "retry"]
             p == [id |-> conn[c].id, user |-> conn[c].user, wallet |-> conn[c].wallet,
                   amount |-> Option1(c).amount, at |-> clock]
  <1>1. /\ r.pc = "retry" /\ r.id = conn[c].id /\ r.user = conn[c].user
        /\ r.wallet = conn[c].wallet /\ r.offer = conn[c].offer
        /\ conn' = [conn EXCEPT ![c] = r]
    BY ConnType DEF ExchangeInv, Connection, Sign
  <1>2. /\ p.id = conn[c].id /\ p.user = conn[c].user /\ p.wallet = conn[c].wallet
        /\ p.amount = Option1(c).amount /\ signed' = signed \cup {p}
    BY DEF Sign
  <1> HIDE DEF r, p
  <1>3. /\ conn'[c] = r /\ \A d \in Conns : d # c => conn'[d] = conn[d]
        /\ UNCHANGED <<transactions, exchanges>>
    BY <1>1 DEF ExchangeInv, TypeInv, TypeOK, Sign, storeVars
  <1>4. conn[c].pc = "sign" /\ InExchange(c)
    BY DEF Sign, At, InExchange
  <1>5. \A d \in Conns : conn'[d].id = conn[d].id /\ (InExchange(d)' <=> InExchange(d))
    BY <1>1, <1>3, <1>4 DEF InExchange
  <1>6. Numbered'
    <2>1. exchanges \in Nat /\ conn[c].id \in Nat
      BY ConnType DEF ExchangeInv, TypeInv, TypeOK, Connection
    <2> QED BY <1>2, <1>3, <1>4, <1>5, <2>1 DEF ExchangeInv, Numbered
  <1>7. \A d \in Conns : Stage(d)'
    <2>1. Stage(c)'
      BY <1>1, <1>2, <1>3, <1>4 DEF ExchangeInv, Stage, InExchange, Option1
    <2>2. ASSUME NEW d \in Conns, d # c, InExchange(d) PROVE Stage(d)'
      <3>1. conn[d].id # p.id
        BY <1>2, <2>2 DEF ExchangeInv, Numbered
      <3> QED BY <1>2, <1>3, <2>2, <3>1 DEF ExchangeInv, Stage, InExchange, Option1
    <2> QED BY <1>5, <2>1, <2>2 DEF Stage
  <1>8. Matched'
    BY <1>2, <1>3, <1>4 DEF ExchangeInv, Stage, Matched
  <1> QED BY <1>6, <1>7, <1>8

\* So is a row, and its connection is out of the exchange then.
LEMMA RecordExchange ==
  ASSUME ExchangeInv, NEW c \in Conns, Record(c)
  PROVE Numbered' /\ (\A d \in Conns : Stage(d)') /\ Matched'
  <1> DEFINE r == Fresh(conn[c].tunnel)
             t == [id |-> conn[c].id, user |-> conn[c].user, wallet |-> conn[c].wallet,
                   amount |-> Option1(c).amount, status |-> conn[c].status,
                   createdAt |-> clock]
  <1>1. r.pc = "idle" /\ r.id = 0 /\ conn' = [conn EXCEPT ![c] = r]
    BY DEF Record, Fresh
  <1>2. /\ t.id = conn[c].id /\ t.user = conn[c].user /\ t.wallet = conn[c].wallet
        /\ t.amount = Option1(c).amount /\ t.status = conn[c].status
        /\ transactions' = transactions \cup {t}
    BY DEF Record, InsertTransaction
  <1> HIDE DEF r, t
  <1>3. /\ conn'[c] = r /\ \A d \in Conns : d # c => conn'[d] = conn[d]
        /\ UNCHANGED <<signed, exchanges>>
    BY <1>1 DEF ExchangeInv, TypeInv, TypeOK, Record
  <1>4. conn[c].pc = "record" /\ InExchange(c)
    BY DEF Record, At, InExchange
  <1>5. ~ InExchange(c)' /\ \A d \in Conns : d # c => (InExchange(d)' <=> InExchange(d))
    BY <1>1, <1>3 DEF InExchange
  <1>6. Numbered'
    <2>1. exchanges \in Nat /\ \A d \in Conns : conn[d].id \in Nat
      BY ConnType DEF ExchangeInv, TypeInv, TypeOK, Connection
    <2> QED BY <1>1, <1>2, <1>3, <1>4, <1>5, <2>1 DEF ExchangeInv, Numbered
  <1>7. \A d \in Conns : Stage(d)'
    <2>1. ASSUME NEW d \in Conns, d # c, InExchange(d) PROVE Stage(d)'
      <3>1. conn[d].id # t.id
        BY <1>2, <2>1 DEF ExchangeInv, Numbered
      <3> QED BY <1>2, <1>3, <2>1, <3>1 DEF ExchangeInv, Stage, InExchange, Option1
    <2> QED BY <1>5, <2>1 DEF Stage
  <1>8. Matched'
    BY <1>2, <1>3, <1>4 DEF ExchangeInv, Stage, Matched
  <1> QED BY <1>6, <1>7, <1>8

\* After a crash nobody is in an exchange.
LEMMA CrashExchange ==
  ASSUME ExchangeInv, Crash
  PROVE Numbered' /\ (\A d \in Conns : Stage(d)') /\ Matched'
  <1>1. /\ \A d \in Conns : ~ InExchange(d)' /\ conn'[d].id = 0
        /\ UNCHANGED <<transactions, signed, exchanges>>
    BY DEF Crash, Fresh, InExchange, storeVars
  <1>2. exchanges \in Nat
    BY DEF ExchangeInv, TypeInv, TypeOK
  <1> QED BY <1>1, <1>2 DEF ExchangeInv, Numbered, Stage, Matched

\* The administrator and the clock take rows away, and add none.
LEMMA StoreNextRows == ASSUME StoreNext PROVE transactions' \subseteq transactions
  <1>1. Tick => transactions' \subseteq transactions
    BY DEF Tick, tables
  <1>2. AdminNext => transactions' \subseteq transactions
    BY DEF AdminNext, CreateUser, DeleteUser, CreateWallet, DeleteWallet, Cascade, Assign,
           UpdateMonthlyBudget, SetLimit, DeleteUserWallet
  <1> QED BY <1>1, <1>2 DEF StoreNext

\* Rows go, and none comes.
LEMMA StoreNextExchange ==
  ASSUME ExchangeInv, StoreNext
  PROVE Numbered' /\ (\A d \in Conns : Stage(d)') /\ Matched'
  <1>1. transactions' \subseteq transactions /\ UNCHANGED <<conn, signed, exchanges>>
    BY StoreNextRows DEF StoreNext, proxyVars
  <1>2. \A d \in Conns : Stage(d)'
    BY <1>1 DEF ExchangeInv, Stage, InExchange, Option1
  <1> QED BY <1>1, <1>2 DEF ExchangeInv, Numbered, InExchange, Matched

\* The same, for the connection that starts afresh.
LEMMA LeaveFresh ==
  ASSUME ExchangeInv, NEW c \in Conns, NEW tunnel,
         conn' = [conn EXCEPT ![c] = Fresh(tunnel)],
         UNCHANGED <<transactions, signed, exchanges>>
  PROVE Numbered' /\ (\A d \in Conns : Stage(d)') /\ Matched'
  <1>1. Fresh(tunnel).pc = "idle" /\ Fresh(tunnel).id = 0
    BY DEF Fresh
  <1> QED BY <1>1, Leave

\* All steps of a handler.
LEMMA HandlerExchange ==
  ASSUME ExchangeInv, NEW c \in Conns, HandlerStep(c)
  PROVE Numbered' /\ (\A d \in Conns : Stage(d)') /\ Matched'
  <1>1. conn[c] \in Connection
    BY ConnType DEF ExchangeInv
  <1>2. ASSUME conn[c].pc \in BeforePayment, NEW status \in Statuses \ {"success"},
               Conclude(c, status)
        PROVE Numbered' /\ (\A d \in Conns : Stage(d)') /\ Matched'
    <2> DEFINE r == [conn[c] EXCEPT !.pc = "record", !.status = status]
    <2>1. r.pc = "record" /\ r.status = status /\ r.id = conn[c].id /\ Move(c, r)
      BY <1>1, <1>2 DEF Connection, Conclude
    <2> HIDE DEF r
    <2> QED BY <1>2, <2>1, GoOn
  <1>3. CASE SkipOption(c)
    <2> DEFINE r == [conn[c] EXCEPT !.offer = Tail(conn[c].offer)]
    <2>1. conn[c].pc = "select" /\ r.pc = "select" /\ r.id = conn[c].id /\ Move(c, r)
      BY <1>1, <1>3 DEF SkipOption, At, Connection
    <2> HIDE DEF r
    <2> QED BY <2>1, GoOn DEF BeforePayment
  <1>4. ASSUME NEW w \in WalletIds, UseWallet(c, w)
        PROVE Numbered' /\ (\A d \in Conns : Stage(d)') /\ Matched'
    <2> DEFINE r == [conn[c] EXCEPT !.pc = "assign", !.wallet = w]
    <2>1. conn[c].pc = "select" /\ r.pc = "assign" /\ r.id = conn[c].id /\ Move(c, r)
      BY <1>1, <1>4 DEF UseWallet, At, Connection
    <2> HIDE DEF r
    <2> QED BY <2>1, GoOn DEF BeforePayment
  <1>5. CASE GiveUp(c)
    BY <1>5, LeaveFresh DEF GiveUp, Answer, Move, storeVars
  <1>6. CASE AssignmentFails(c) \/ Unassigned(c) \/ SignFails(c)
    BY <1>2, <1>6 DEF AssignmentFails, Unassigned, SignFails, At, BeforePayment, Statuses
  <1>7. CASE ReadAssignment(c)
    <2> DEFINE r == [conn[c] EXCEPT !.pc = "sign"]
               q == [conn[c] EXCEPT !.pc = "list", !.budget = userWallet[Pair(c)]]
    <2>1. /\ conn[c].pc = "assign"
          /\ r.pc = "sign" /\ r.id = conn[c].id /\ q.pc = "list" /\ q.id = conn[c].id
          /\ Move(c, r) \/ Move(c, q)
      BY <1>1, <1>7 DEF ReadAssignment, At, GoTo, Connection
    <2> HIDE DEF r, q
    <2> QED BY <2>1, GoOn DEF BeforePayment
  <1>8. CASE ListTransactions(c)
    <2> DEFINE r == [conn[c] EXCEPT !.pc = "compare",
                                    !.listed = ListTransactionsByUser(conn[c].user)]
    <2>1. /\ conn[c].pc = "list" /\ r.pc = "compare" /\ r.id = conn[c].id
          /\ Move(c, r) \/ Conclude(c, "failed_unknown")
      BY <1>1, <1>8 DEF ListTransactions, At, Connection
    <2> HIDE DEF r
    <2> QED BY <1>2, <2>1, GoOn DEF BeforePayment, Statuses
  <1>9. CASE CompareBudget(c)
    <2> DEFINE r == [conn[c] EXCEPT !.pc = "record", !.status = "budget_exceeded",
                                    !.listed = {}]
               q == [conn[c] EXCEPT !.pc = "sign", !.listed = {}]
    <2>1. /\ conn[c].pc = "compare"
          /\ r.pc = "record" /\ r.status # "success" /\ r.id = conn[c].id
          /\ q.pc = "sign" /\ q.id = conn[c].id
          /\ Move(c, r) \/ Move(c, q)
      BY <1>1, <1>9 DEF CompareBudget, At, Connection
    <2> HIDE DEF r, q
    <2> QED BY <2>1, GoOn DEF BeforePayment
  <1>10. CASE RetryFails(c)
    BY <1>10, RetryOver DEF RetryFails, At
  <1>11. CASE RecordFails(c)
    BY <1>11, LeaveFresh DEF RecordFails, storeVars
  <1> QED BY <1>3, <1>4, <1>5, <1>6, <1>7, <1>8, <1>9, <1>10, <1>11,
             SignExchange, RecordExchange DEF HandlerStep

\* All other steps.
LEMMA OthersExchange ==
  ASSUME ExchangeInv, NEW c \in Conns, ClientStep(c) \/ UpstreamStep(c)
  PROVE Numbered' /\ (\A d \in Conns : Stage(d)') /\ Matched'
  <1>1. conn[c] \in Connection
    BY ConnType DEF ExchangeInv
  <1>2. ASSUME NEW u, OpenTunnel(c, u)
        PROVE Numbered' /\ (\A d \in Conns : Stage(d)') /\ Matched'
    BY <1>2, LeaveFresh DEF OpenTunnel, Move, storeVars
  <1>3. CASE CloseTunnel(c) \/ PassThrough(c)
    BY <1>3, LeaveFresh DEF CloseTunnel, PassThrough, Answer, Move, storeVars
  <1>4. ASSUME NEW u, NEW body, BeginRequest(c, u, body)
        PROVE Numbered' /\ (\A d \in Conns : Stage(d)') /\ Matched'
    <2> DEFINE r == [conn[c] EXCEPT !.pc = "upstream", !.user = u, !.body = body]
    <2>1. r.pc = "upstream" /\ r.id = conn[c].id /\ Move(c, r)
      BY <1>1, <1>4 DEF BeginRequest, Connection
    <2>2. conn[c].id = 0
      BY <1>4 DEF BeginRequest, At, ExchangeInv, Numbered, InExchange
    <2> HIDE DEF r
    <2> QED BY <2>1, <2>2, Leave DEF Move, storeVars
  <1>5. CASE RetryAnswered(c)
    BY <1>5, RetryOver DEF RetryAnswered, At
  <1> QED BY <1>2, <1>3, <1>4, <1>5, ChallengedExchange DEF ClientStep, UpstreamStep

\* Every step keeps ExchangeInv.
LEMMA NextExchange == ExchangeInv /\ [Next]_vars => ExchangeInv'
  <1> SUFFICES ASSUME ExchangeInv, [Next]_vars PROVE ExchangeInv'
    OBVIOUS
  <1>1. TypeInv'
    BY NextType DEF ExchangeInv
  <1>2. CASE UNCHANGED vars
    <2>1. UNCHANGED <<conn, transactions, signed, exchanges>>
      BY <1>2 DEF vars, storeVars, proxyVars
    <2>2. \A d \in Conns : Stage(d)'
      BY <2>1 DEF ExchangeInv, Stage, InExchange, Option1
    <2> QED BY <1>1, <2>1, <2>2 DEF ExchangeInv, Numbered, InExchange, Matched
  <1>3. CASE Next
    BY <1>1, <1>3, HandlerExchange, OthersExchange, CrashExchange, StoreNextExchange
    DEF Next, ProxyNext, ExchangeInv
  <1> QED BY <1>2, <1>3

\* The invariant the next two theorems rest on: exchange ids are in use once,
\* an exchange under way has no row, and has a payment only from its retry on.
THEOREM ExchangeInvariant == Spec => []ExchangeInv
  <1>1. Init => ExchangeInv
    BY InitType, InitExchange DEF ExchangeInv
  <1> QED BY <1>1, NextExchange, PTL DEF Spec

\* An exchange is paid for at most once and written down at most once, by any
\* number of connections, through every failure and crash of the model.
THEOREM PaidAtMostOnce == Spec => []AtMostOnce
  <1>1. ExchangeInv => AtMostOnce
    BY DEF ExchangeInv, Numbered, Matched, AtMostOnce
  <1> QED BY <1>1, ExchangeInvariant, PTL

\* The history never shows a payment that was not signed for, nor a denial of
\* one that was.
THEOREM HistoryMatches == Spec => []RowMatchesPayment
  <1>1. ExchangeInv => RowMatchesPayment
    BY DEF ExchangeInv, Matched, RowMatchesPayment
  <1> QED BY <1>1, ExchangeInvariant, PTL

-----------------------------------------------------------------------------
(***************************************************************************)
(* A signed payment leaves a trace.  Ids are never issued twice, so that a *)
(* deleted user or wallet stays deleted and explains a row that is gone.   *)
(***************************************************************************)

\* The ids that a connection holds were issued at some time.
Holds(r) == /\ {r.tunnel, r.user} \subseteq issued \cup {NoUser}
            /\ r.wallet \in issued \cup {NoWallet}

Issued ==
  /\ DOMAIN proxyUsers \subseteq issued /\ DOMAIN wallets \subseteq issued
  /\ \A c \in Conns : Holds(conn[c])
  /\ \A p \in signed : p.user \in issued /\ p.wallet \in issued

LossInv == ExchangeInv /\ Issued /\ NoSilentLoss

-----------------------------------------------------------------------------
\* At first nothing was paid.
LEMMA InitLoss == Init => Issued /\ NoSilentLoss
  BY EmptyTable DEF Init, StoreInit, Fresh, Issued, Holds, NoSilentLoss

\* A step that moves one connection, and does not leave a payment unrecorded.
LEMMA LossMove ==
  ASSUME LossInv, NEW c \in Conns, NEW r, Move(c, r), Holds(r),
         conn[c].pc \in {"retry", "record"} =>
           r.pc \in {"retry", "record"} /\ r.id = conn[c].id
  PROVE Issued' /\ NoSilentLoss'
  <1>1. /\ conn'[c] = r /\ \A d \in Conns : d # c => conn'[d] = conn[d]
        /\ UNCHANGED <<transactions, signed, lost, proxyUsers, wallets, issued>>
    BY Moved DEF LossInv, ExchangeInv
  <1>2. Issued'
    BY <1>1 DEF LossInv, Issued, Holds
  <1>3. NoSilentLoss'
    BY <1>1 DEF LossInv, NoSilentLoss
  <1> QED BY <1>2, <1>3

\* One lemma per step; where an exchange ends without a row it is counted as lost.
LEMMA LossAnswer ==
  ASSUME LossInv, NEW c \in Conns, Answer(c), conn[c].pc \notin {"retry", "record"}
  PROVE Issued' /\ NoSilentLoss'
  <1> DEFINE r == Fresh(conn[c].tunnel)
  <1>1. Holds(r)
    BY DEF Fresh, LossInv, Issued, Holds
  <1>2. Move(c, r)
    BY DEF Answer
  <1> HIDE DEF r
  <1> QED BY <1>1, <1>2, LossMove

\* A concluded exchange still owes its row.
LEMMA LossConclude ==
  ASSUME LossInv, NEW c \in Conns, NEW status, Conclude(c, status), conn[c].pc # "record"
  PROVE Issued' /\ NoSilentLoss'
  <1> DEFINE r == [conn[c] EXCEPT !.pc = "record", !.status = status]
  <1>1. Holds(conn[c]) /\ conn[c] \in Connection
    BY ConnType DEF LossInv, ExchangeInv, Issued
  <1>2. Holds(r) /\ r.pc = "record" /\ r.id = conn[c].id /\ Move(c, r)
    BY <1>1 DEF Conclude, Holds, Connection
  <1> HIDE DEF r
  <1> QED BY <1>2, LossMove

\* Clients are not in an exchange.
LEMMA LossClient ==
  ASSUME LossInv, NEW c \in Conns, ClientStep(c)
  PROVE Issued' /\ NoSilentLoss'
  <1>1. Holds(conn[c]) /\ conn[c] \in Connection /\ DOMAIN proxyUsers \subseteq issued
    BY ConnType DEF LossInv, ExchangeInv, Issued
  <1>2. ASSUME NEW u \in UserIds, OpenTunnel(c, u) PROVE Issued' /\ NoSilentLoss'
    <2> DEFINE r == Fresh(u)
    <2>1. Holds(r) /\ Move(c, r) /\ conn[c].pc = "idle"
      BY <1>1, <1>2 DEF OpenTunnel, Authenticates, At, Fresh, Holds
    <2> HIDE DEF r
    <2> QED BY <2>1, LossMove
  <1>3. ASSUME CloseTunnel(c) PROVE Issued' /\ NoSilentLoss'
    <2> DEFINE r == Fresh(NoUser)
    <2>1. Holds(r) /\ Move(c, r) /\ conn[c].pc = "idle"
      BY <1>3 DEF CloseTunnel, At, Fresh, Holds
    <2> HIDE DEF r
    <2> QED BY <2>1, LossMove
  <1>4. ASSUME NEW u, NEW body, BeginRequest(c, u, body) PROVE Issued' /\ NoSilentLoss'
    <2> DEFINE r == [conn[c] EXCEPT !.pc = "upstream", !.user = u, !.body = body]
    <2>1. Holds(r) /\ Move(c, r) /\ conn[c].pc = "idle"
      BY <1>1, <1>4 DEF BeginRequest, Authenticates, At, Holds, Connection
    <2> HIDE DEF r
    <2> QED BY <2>1, LossMove
  <1> QED BY <1>2, <1>3, <1>4 DEF ClientStep

\* An answer to the retry concludes.
LEMMA LossUpstream ==
  ASSUME LossInv, NEW c \in Conns, UpstreamStep(c)
  PROVE Issued' /\ NoSilentLoss'
  <1>1. CASE PassThrough(c)
    BY <1>1, LossAnswer DEF PassThrough, At
  <1>2. ASSUME NEW offer \in Offers, Challenged(c, offer) PROVE Issued' /\ NoSilentLoss'
    <2> DEFINE r == [conn[c] EXCEPT !.pc = "select", !.offer = offer,
                                    !.id = exchanges + 1, !.body = Spent(@)]
    <2>1. Holds(conn[c]) /\ conn[c] \in Connection /\ conn \in [Conns -> Connection]
      BY ConnType DEF LossInv, ExchangeInv, TypeInv, TypeOK, Issued
    <2>2. Holds(r) /\ conn' = [conn EXCEPT ![c] = r] /\ conn[c].pc = "upstream"
      BY <1>2, <2>1 DEF Challenged, At, Holds, Connection
    <2> HIDE DEF r
    <2>3. /\ conn'[c] = r /\ \A d \in Conns : d # c => conn'[d] = conn[d]
          /\ UNCHANGED <<transactions, signed, lost, proxyUsers, wallets, issued>>
      BY <1>2, <2>1, <2>2 DEF Challenged, storeVars
    <2>4. Issued'
      BY <2>2, <2>3 DEF LossInv, Issued, Holds
    <2>5. NoSilentLoss'
      BY <2>2, <2>3 DEF LossInv, NoSilentLoss
    <2> QED BY <2>4, <2>5
  <1>3. CASE RetryAnswered(c)
    BY <1>3, LossConclude DEF RetryAnswered, At
  <1> QED BY <1>1, <1>2, <1>3 DEF UpstreamStep

\* Nothing is paid yet.
LEMMA LossAuthorize ==
  ASSUME LossInv, NEW c \in Conns,
         \/ SkipOption(c) \/ (\E w \in WalletIds : UseWallet(c, w)) \/ GiveUp(c)
         \/ AssignmentFails(c) \/ Unassigned(c) \/ ReadAssignment(c)
         \/ ListTransactions(c) \/ CompareBudget(c)
  PROVE Issued' /\ NoSilentLoss'
  <1>1. Holds(conn[c]) /\ conn[c] \in Connection
    BY ConnType DEF LossInv, ExchangeInv, Issued
  <1>2. CASE SkipOption(c)
    <2> DEFINE r == [conn[c] EXCEPT !.offer = Tail(conn[c].offer)]
    <2>1. Holds(r) /\ Move(c, r) /\ conn[c].pc = "select"
      BY <1>1, <1>2 DEF SkipOption, At, Holds, Connection
    <2> HIDE DEF r
    <2> QED BY <2>1, LossMove
  <1>3. ASSUME NEW w \in WalletIds, UseWallet(c, w) PROVE Issued' /\ NoSilentLoss'
    <2> DEFINE r == [conn[c] EXCEPT !.pc = "assign", !.wallet = w]
    <2>1. w \in issued
      BY <1>3 DEF UseWallet, WalletsFor, GetWalletByChain, LossInv, Issued
    <2>2. Holds(r) /\ Move(c, r) /\ conn[c].pc = "select"
      BY <1>1, <1>3, <2>1 DEF UseWallet, At, Holds, Connection
    <2> HIDE DEF r
    <2> QED BY <2>2, LossMove
  <1>4. CASE GiveUp(c)
    BY <1>4, LossAnswer DEF GiveUp, At
  <1>5. CASE AssignmentFails(c) \/ Unassigned(c)
    BY <1>5, LossConclude DEF AssignmentFails, Unassigned, At
  <1>6. CASE ReadAssignment(c)
    <2> DEFINE r == [conn[c] EXCEPT !.pc = "sign"]
               q == [conn[c] EXCEPT !.pc = "list", !.budget = userWallet[Pair(c)]]
    <2>1. Holds(r) /\ Holds(q) /\ conn[c].pc = "assign" /\ (Move(c, r) \/ Move(c, q))
      BY <1>1, <1>6 DEF ReadAssignment, GoTo, At, Holds, Connection
    <2> HIDE DEF r, q
    <2> QED BY <2>1, LossMove
  <1>7. CASE ListTransactions(c)
    <2> DEFINE r == [conn[c] EXCEPT !.pc = "compare",
                                    !.listed = ListTransactionsByUser(conn[c].user)]
    <2>1. /\ Holds(r) /\ conn[c].pc = "list"
          /\ Move(c, r) \/ Conclude(c, "failed_unknown")
      BY <1>1, <1>7 DEF ListTransactions, At, Holds, Connection
    <2> HIDE DEF r
    <2> QED BY <2>1, LossMove, LossConclude
  <1>8. CASE CompareBudget(c)
    <2> DEFINE r == [conn[c] EXCEPT !.pc = "record", !.status = "budget_exceeded",
                                    !.listed = {}]
               q == [conn[c] EXCEPT !.pc = "sign", !.listed = {}]
    <2>1. Holds(r) /\ Holds(q) /\ conn[c].pc = "compare" /\ (Move(c, r) \/ Move(c, q))
      BY <1>1, <1>8 DEF CompareBudget, At, Holds, Connection
    <2> HIDE DEF r, q
    <2> QED BY <2>1, LossMove
  <1> QED BY <1>2, <1>3, <1>4, <1>5, <1>6, <1>7, <1>8

\* A payment is in flight.
LEMMA LossSign ==
  ASSUME LossInv, NEW c \in Conns, Sign(c)
  PROVE Issued' /\ NoSilentLoss'
  <1> DEFINE r == [conn[c] EXCEPT !.pc = "retry"]
             p == [id |-> conn[c].id, user |-> conn[c].user, wallet |-> conn[c].wallet,
                   amount |-> Option1(c).amount, at |-> clock]
  <1>1. /\ Holds(conn[c]) /\ conn[c] \in Connection /\ conn \in [Conns -> Connection]
        /\ conn[c].user \in UserIds /\ conn[c].wallet \in WalletIds
    BY ConnType DEF LossInv, ExchangeInv, TypeInv, TypeOK, Issued, Ready, Sign, At
  <1>2. /\ Holds(r) /\ r.pc = "retry" /\ r.id = conn[c].id
        /\ conn' = [conn EXCEPT ![c] = r] /\ conn[c].pc = "sign"
    BY <1>1 DEF Sign, At, Holds, Connection
  <1>3. /\ p.id = conn[c].id /\ signed' = signed \cup {p}
        /\ p.user \in issued /\ p.wallet \in issued
    BY <1>1, PayProxyAssumption DEF Sign, Holds
  <1> HIDE DEF r, p
  <1>4. /\ conn'[c] = r /\ \A d \in Conns : d # c => conn'[d] = conn[d]
        /\ UNCHANGED <<transactions, lost, proxyUsers, wallets, issued>>
    BY <1>1, <1>2 DEF Sign, storeVars
  <1>5. Issued'
    BY <1>2, <1>3, <1>4 DEF LossInv, Issued, Holds
  <1>6. NoSilentLoss'
    BY <1>2, <1>3, <1>4 DEF LossInv, NoSilentLoss
  <1> QED BY <1>5, <1>6

\* A row, or a loss that is counted.
LEMMA LossRecord ==
  ASSUME LossInv, NEW c \in Conns, Record(c) \/ RecordFails(c)
  PROVE Issued' /\ NoSilentLoss'
  <1> DEFINE r == Fresh(conn[c].tunnel)
  <1>1. /\ Holds(r) /\ conn' = [conn EXCEPT ![c] = r] /\ conn \in [Conns -> Connection]
    BY DEF Record, RecordFails, Fresh, Holds, LossInv, Issued, ExchangeInv, TypeInv, TypeOK
  <1> HIDE DEF r
  <1>2. /\ conn'[c] = r /\ \A d \in Conns : d # c => conn'[d] = conn[d]
        /\ UNCHANGED <<signed, proxyUsers, wallets, issued>>
        /\ transactions \subseteq transactions' /\ lost \subseteq lost'
    BY <1>1 DEF Record, RecordFails, InsertTransaction, storeVars
  <1>3. conn[c].id \in lost' \/ \E t \in transactions' : t.id = conn[c].id
    <2> DEFINE t == [id |-> conn[c].id, user |-> conn[c].user, wallet |-> conn[c].wallet,
                     amount |-> Option1(c).amount, status |-> conn[c].status,
                     createdAt |-> clock]
    <2>1. t.id = conn[c].id /\ (Record(c) => t \in transactions')
      BY DEF Record, InsertTransaction
    <2> HIDE DEF t
    <2> QED BY <2>1 DEF RecordFails
  <1>4. Issued'
    BY <1>1, <1>2 DEF LossInv, Issued, Holds
  <1>5. NoSilentLoss'
    BY <1>2, <1>3 DEF LossInv, NoSilentLoss
  <1> QED BY <1>4, <1>5

\* All that was in flight is counted as lost.
LEMMA LossCrash == ASSUME LossInv, Crash PROVE Issued' /\ NoSilentLoss'
  <1>1. /\ \A d \in Conns : Holds(conn'[d])
        /\ UNCHANGED <<transactions, signed, proxyUsers, wallets, issued>>
        /\ lost \subseteq lost' /\ \A d \in Conns : InExchange(d) => conn[d].id \in lost'
    BY DEF Crash, Fresh, Holds, storeVars
  <1>2. Issued'
    BY <1>1 DEF LossInv, Issued, Holds
  <1>3. NoSilentLoss'
    BY <1>1 DEF LossInv, NoSilentLoss, InExchange
  <1> QED BY <1>2, <1>3

\* A row that the administrator takes away belonged to what is deleted.
LEMMA RowsTakenAway ==
  ASSUME StoreNext, NEW t \in transactions, t \notin transactions'
  PROVE /\ ForeignKeys
        /\ t.user \notin DOMAIN proxyUsers' \/ t.wallet \notin DOMAIN wallets'
  <1>1. ~ Tick
    BY DEF Tick, tables
  <1>2. ASSUME NEW u \in UserIds, DeleteUser(u)
        PROVE ForeignKeys /\ t.user \notin DOMAIN proxyUsers'
    BY <1>2 DEF DeleteUser, Cascade, Drop, Restrict
  <1>3. ASSUME NEW w \in WalletIds, DeleteWallet(w)
        PROVE ForeignKeys /\ t.wallet \notin DOMAIN wallets'
    BY <1>3 DEF DeleteWallet, Cascade, Drop, Restrict
  <1> QED BY <1>1, <1>2, <1>3
       DEF StoreNext, AdminNext, CreateUser, CreateWallet, Assign, UpdateMonthlyBudget,
           SetLimit, DeleteUserWallet

\* New users and wallets have new ids.
LEMMA NewIds ==
  ASSUME Issued, StoreNext
  PROVE /\ issued \subseteq issued'
        /\ DOMAIN proxyUsers' \subseteq issued' /\ DOMAIN wallets' \subseteq issued'
        /\ DOMAIN proxyUsers' \cap issued \subseteq DOMAIN proxyUsers
        /\ DOMAIN wallets' \cap issued \subseteq DOMAIN wallets
  <1>1. DOMAIN proxyUsers \subseteq issued /\ DOMAIN wallets \subseteq issued
    BY DEF Issued
  <1>2. CASE Tick \/ UNCHANGED <<proxyUsers, wallets, issued>>
    BY <1>1, <1>2 DEF Tick, tables
  <1>3. ASSUME NEW u \in UserIds, NEW name \in Usernames, CreateUser(u, name)
        PROVE DOMAIN proxyUsers' = DOMAIN proxyUsers \cup {u}
    BY <1>3 DEF CreateUser, Put
  <1>4. ASSUME NEW w \in WalletIds, NEW chain \in Chains, CreateWallet(w, chain)
        PROVE DOMAIN wallets' = DOMAIN wallets \cup {w}
    BY <1>4 DEF CreateWallet, Put
  <1>5. ASSUME NEW u \in UserIds, DeleteUser(u)
        PROVE DOMAIN proxyUsers' = DOMAIN proxyUsers \ {u}
    BY <1>5 DEF DeleteUser, Drop, Restrict
  <1>6. ASSUME NEW w \in WalletIds, DeleteWallet(w)
        PROVE DOMAIN wallets' = DOMAIN wallets \ {w}
    BY <1>6 DEF DeleteWallet, Drop, Restrict
  <1> QED BY <1>1, <1>2, <1>3, <1>4, <1>5, <1>6
       DEF StoreNext, AdminNext, CreateUser, CreateWallet, DeleteUser, DeleteWallet,
           Assign, UpdateMonthlyBudget, SetLimit, DeleteUserWallet

\* Rows go only with their users and wallets.
LEMMA LossStore == ASSUME LossInv, StoreNext PROVE Issued' /\ NoSilentLoss'
  <1>1. UNCHANGED <<conn, signed, lost>>
    BY DEF StoreNext, proxyVars
  <1>2. Issued'
    BY <1>1, NewIds DEF LossInv, Issued, Holds
  <1>3. ASSUME NEW p \in signed,
               p.user \notin DOMAIN proxyUsers \/ p.wallet \notin DOMAIN wallets
        PROVE p.user \notin DOMAIN proxyUsers' \/ p.wallet \notin DOMAIN wallets'
    BY <1>3, NewIds DEF LossInv, Issued
  <1>4. ASSUME NEW p \in signed, NEW t \in transactions, t.id = p.id, t \notin transactions'
        PROVE /\ ForeignKeys
              /\ p.user \notin DOMAIN proxyUsers' \/ p.wallet \notin DOMAIN wallets'
    BY <1>4, RowsTakenAway DEF LossInv, ExchangeInv, Matched
  <1>5. NoSilentLoss'
    BY <1>1, <1>3, <1>4 DEF LossInv, NoSilentLoss
  <1> QED BY <1>2, <1>5

\* Every step keeps LossInv.
LEMMA NextLoss == LossInv /\ [Next]_vars => LossInv'
  <1> SUFFICES ASSUME LossInv, [Next]_vars PROVE LossInv'
    OBVIOUS
  <1>1. ExchangeInv'
    BY NextExchange DEF LossInv
  <1>2. CASE UNCHANGED vars
    BY <1>1, <1>2 DEF LossInv, vars, storeVars, proxyVars, Issued, Holds, NoSilentLoss
  <1>3. ASSUME NEW c \in Conns, HandlerStep(c) PROVE Issued' /\ NoSilentLoss'
    <2>1. CASE SignFails(c) \/ RetryFails(c)
      BY <2>1, LossConclude DEF SignFails, RetryFails, At
    <2> QED BY <1>3, <2>1, LossAuthorize, LossSign, LossRecord DEF HandlerStep
  <1>4. CASE Next
    BY <1>1, <1>3, <1>4, LossClient, LossUpstream, LossCrash, LossStore
    DEF Next, ProxyNext, LossInv
  <1> QED BY <1>2, <1>4

\* Every payment that was signed is accounted for, until its user or its wallet
\* is deleted: in flight, in a row, or among the exchanges whose row was lost.
THEOREM NothingVanishes == Spec => []NoSilentLoss
  <1>1. Init => LossInv
    BY InitType, InitExchange, InitLoss DEF LossInv, ExchangeInv
  <1>2. LossInv => NoSilentLoss
    BY DEF LossInv
  <1> QED BY <1>1, <1>2, NextLoss, PTL DEF Spec
=============================================================================
