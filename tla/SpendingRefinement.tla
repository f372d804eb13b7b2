------------------------- MODULE SpendingRefinement -------------------------
(* The proxy seen as Spending: exchanges are numbered, an exchange is open   *)
(* while a connection is in it, and what was signed, written and granted is  *)
(* what it is.                                                               *)
EXTENDS PayProxy

Phase(i) == IF i > exchanges THEN "new"
            ELSE IF \E c \in Conns : InExchange(c) /\ conn[c].id = i THEN "open"
            ELSE "over"

ExchangeIds == 1..MaxExchanges

Abstract == INSTANCE Spending WITH
           Ids <- ExchangeIds, Users <- UserIds, Wallets <- WalletIds, NoLimit <- Unlimited,
           phase <- [i \in ExchangeIds |-> Phase(i)],
           paid <- signed, history <- transactions, granted <- grants

\* The proxy, its administrator and its crashes together do nothing that
\* Spending does not allow: payAndRetry is, for an outsider, one exchange that
\* is paid at most once, by a user who was given the wallet and a budget for it,
\* and one row.
ImplementsSpending == Abstract!Spec
=============================================================================
