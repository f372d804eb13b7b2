------------------------------ MODULE Standing ------------------------------
(***************************************************************************)
(* The proxy, watched: what was in the tables at some time since a         *)
(* connection began to serve the request it has in hand.                   *)
(*                                                                         *)
(* The user is read at CONNECT or with the request, wallet, assignment and *)
(* rows later, none is looked at again before the payment is signed, and   *)
(* the administrator changes them all the time.  The history variable      *)
(* stood tells how old what a payment is based on may be.                  *)
(***************************************************************************)
EXTENDS PayProxy

VARIABLE stood  \* history: for each connection, what its request can have found

watchedVars == <<vars, stood>>

Nothing == [users |-> {}, assignments |-> {}]

\* What the tables have of one user.
InTables(u) ==
  [users |-> {u} \cap DOMAIN proxyUsers,
   assignments |-> {[user |-> u, wallet |-> p[2], budget |-> userWallet[p]] :
                      p \in {q \in DOMAIN userWallet : q[1] = u}}]

Unpaid(c) == conn[c].pc \notin {"idle", "retry", "record"}

\* What stands after a step was there while each request not yet paid for was
\* in hand.
Watch ==
  stood' = [c \in Conns |->
             IF Unpaid(c)'
             THEN LET now == InTables(conn[c].user)'
                  IN [users |-> stood[c].users \cup now.users,
                      assignments |-> stood[c].assignments \cup now.assignments]
             ELSE Nothing]

WatchedInit == Init /\ stood = [c \in Conns |-> Nothing]
WatchedNext == Next /\ Watch
WatchedSpec == WatchedInit /\ [][WatchedNext]_watchedVars

-----------------------------------------------------------------------------
Allows(g, p) == /\ g.user = p.user /\ g.wallet = p.wallet
                /\ g.budget = Unlimited \/ p.amount <= g.budget

\* The assignment is read once and used some steps later, when the
\* administrator may have lowered its budget or taken it away (server.go:320).
\* That only reaches requests already being served: what is signed was allowed,
\* by itself, by an assignment that stood while its own request was served.
WithdrawnAtOnce ==
  [][\A p \in signed' \ signed : \E c \in Conns :
       conn[c].id = p.id /\ \E g \in stood[c].assignments : Allows(g, p)]_watchedVars

\* README: "Basic-auth credentials for clients using the proxy"; migration 004:
\* ON DELETE CASCADE.  Nothing is signed for a user who was deleted before the
\* request began.
DeletedUserPaysNothing ==
  [][\A p \in signed' \ signed : \E c \in Conns :
       conn[c].id = p.id /\ p.user \in stood[c].users]_watchedVars
=============================================================================
