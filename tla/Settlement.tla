----------------------------- MODULE Settlement -----------------------------
(***************************************************************************)
(* The proxy with the upstreams' facilitators: once the retry has carried  *)
(* a signature out, the payment may settle on chain at any time, whatever  *)
(* the upstream then answers, and even when its answer comes too late.     *)
(***************************************************************************)
EXTENDS PayProxy

VARIABLE settled  \* ids of the payments that settled on chain

Settle(p) ==
  /\ p \in signed /\ p.id \notin settled
  /\ settled' = settled \cup {p.id}
  /\ UNCHANGED vars

SettlementInit == Init /\ settled = {}
SettlementNext == (Next /\ UNCHANGED settled) \/ \E p \in signed : Settle(p)
SettlementSpec == SettlementInit /\ [][SettlementNext]_<<vars, settled>>

SettledBy(u, w) ==
  {p \in signed : p.id \in settled /\ p.user = u /\ p.wallet = w /\ p.at >= StartOfMonth}

\* README: "define payment caps, track consumption in real time".  What has
\* left a wallet for a user this month is within some budget of the assignment.
SettledWithinCap ==
  \A u \in UserIds, w \in WalletIds :
    LET spent == MapThenSumSet(AmountOf, SettledBy(u, w))
    IN \/ spent = 0
       \/ \E g \in grants : /\ g.user = u /\ g.wallet = w
                            /\ g.budget = Unlimited \/ spent <= g.budget
=============================================================================
