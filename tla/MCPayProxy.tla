----------------------------- MODULE MCPayProxy -----------------------------
(* Instances of PayProxy for TLC: what upstreams ask for, and tables that an *)
(* administrator has already filled, a state AdminNext reaches from Init.    *)
EXTENDS SpendingRefinement

Asks(network, form, amount) ==
  [scheme |-> "exact", network |-> network, form |-> form, amount |-> amount]

\* Payments of two sizes.
TwoPrices == {<<Asks("solana", "uint", 1)>>, <<Asks("solana", "uint", 2)>>}

\* Every way through selectPayment, and every kind of amount.
AllKindsOfOffers ==
  {<<>>,
   <<[Asks("solana", "uint", 1) EXCEPT !.scheme = "other"], Asks("solana", "uint", 1)>>,
   <<Asks("other", "uint", 1), Asks("algorand", "float", -1)>>,
   <<Asks("algorand", "uint", 2), Asks("solana", "uint", 1)>>,
   <<Asks("solana", "text", 0)>>}

\* Two options for the same wallet, and one that only Algorand can pay.
SecondChoices ==
  {<<Asks("solana", "uint", 1), Asks("solana", "uint", 2)>>, <<Asks("algorand", "uint", 2)>>}

NoTraffic ==
  /\ transactions = {} /\ clock = 0
  /\ conn = [c \in Conns |-> Fresh(NoUser)]
  /\ exchanges = 0 /\ signed = {} /\ lost = {}

\* One user assigned to one wallet of that chain.
Seeded(chain, limit) ==
  /\ \E u \in UserIds, w \in WalletIds, name \in Usernames :
       /\ proxyUsers = (u :> name)
       /\ wallets = (w :> [chain |-> chain, createdAt |-> 0])
       /\ userWallet = (<<u, w>> :> limit)
       /\ issued = {u, w}
       /\ grants = {[user |-> u, wallet |-> w, budget |-> limit]}
  /\ NoTraffic

SeededInit == \E limit \in Budgets : Seeded("solana", limit)

\* One user assigned to the newer of two Solana wallets.
NewerWalletInit ==
  /\ \E u \in UserIds, old, new \in WalletIds, name \in Usernames, limit \in Budgets :
       /\ old # new
       /\ proxyUsers = (u :> name)
       /\ wallets = (old :> [chain |-> "solana", createdAt |-> 0])
                      @@ (new :> [chain |-> "solana", createdAt |-> 1])
       /\ userWallet = (<<u, new>> :> limit)
       /\ issued = {u, old, new}
       /\ grants = {[user |-> u, wallet |-> new, budget |-> limit]}
  /\ transactions = {} /\ clock = 1
  /\ conn = [c \in Conns |-> Fresh(NoUser)]
  /\ exchanges = 0 /\ signed = {} /\ lost = {}

\* The administrator only changes budgets and withdraws the assignment;
\* everything else may happen.
AccessChange ==
  /\ \E u \in UserIds, w \in WalletIds :
       \/ \E limit \in Limits : UpdateMonthlyBudget(u, w, limit)
       \/ DeleteUserWallet(u, w)
  /\ UNCHANGED proxyVars

Passing == Tick /\ UNCHANGED proxyVars

SeededNext == ProxyNext \/ Crash \/ AccessChange \/ Passing
SeededSpec == (\E chain \in Chains, limit \in Budgets : Seeded(chain, limit))
              /\ [][SeededNext]_vars

\* Clients that pay: credentials with every request, no body, no crash.
PayingStep(c) ==
  \/ \E u \in DOMAIN proxyUsers : BeginRequest(c, u, "none")
  \/ \E offer \in Offers : Challenged(c, offer)
  \/ RetryAnswered(c)
  \/ HandlerStep(c)

\* An administrator who never lifts the limit.
LimitChange ==
  /\ \E u \in UserIds, w \in WalletIds, limit \in Budgets : UpdateMonthlyBudget(u, w, limit)
  /\ UNCHANGED proxyVars

PayingNext == (\E c \in Conns : PayingStep(c)) \/ LimitChange \/ Passing
PayingSpec == SeededInit /\ [][PayingNext]_vars

\* The proxy alone.
AloneNext == ProxyNext \/ Crash
NewerWalletSpec == NewerWalletInit /\ [][AloneNext]_vars

ConnSymmetry == Permutations(Conns)

-----------------------------------------------------------------------------
(* What the documentation says, and the code does not do.                  *)

\* README: "define payment caps".  What a user has spent through a wallet this
\* month never exceeds every budget the assignment has had.
PaymentCapKept ==
  \A u \in UserIds, w \in WalletIds :
    LET spent == CurrentMonthConsumption(ListTransactionsByUser(u), w)
    IN \/ spent = 0
       \/ \E g \in grants : /\ g.user = u /\ g.wallet = w
                            /\ g.budget = Unlimited \/ spent <= g.budget

\* README: "assign wallets and budgets to proxy users".  A user assigned to a
\* wallet of the chain is not told that no wallet matches.
AssignedWalletUsed ==
  \A t \in transactions : t.status = "no_matching_wallet_found" =>
    \A p \in DOMAIN userWallet :
      p[1] = t.user => wallets[p[2]].chain # wallets[t.wallet].chain

\* README: "Retries upstream request".  The retry carries what the request did.
RetrySendsWholeRequest == \A c \in Conns : At(c, "retry") => conn[c].body # "spent"
=============================================================================
