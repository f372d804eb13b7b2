------------------------------ MODULE Spending ------------------------------
(***************************************************************************)
(* What the proxy promises about money, without saying how: an exchange    *)
(* with an upstream is opened once, paid for at most once and only while   *)
(* it is open, for a user and a wallet that the administrator had brought  *)
(* together with a budget as large as the payment by itself, and closed    *)
(* either by one row that tells the truth or by none.                      *)
(*                                                                         *)
(* Payments and rows are chosen among those of the next state, which says  *)
(* the same as choosing them from infinite sets of records.                *)
(***************************************************************************)
EXTENDS Integers

CONSTANTS Ids,      \* exchanges
          Users,
          Wallets,
          NoLimit   \* an assignment without a budget

VARIABLES phase,    \* of each exchange: "new", "open" or "over"
          paid,     \* payments signed
          history,  \* rows the administrator can read
          granted   \* budgets of a user for a wallet, past and present

spendingVars == <<phase, paid, history, granted>>

Denials == {"budget_exceeded", "no_matching_wallet_found"}

Becomes(I, p) == phase' = [i \in Ids |-> IF i \in I THEN p ELSE phase[i]]

\* Some budget, past or present, allows the payment by itself.
Allowed(p) == \E g \in granted : /\ g.user = p.user /\ g.wallet = p.wallet
                                 /\ g.budget = NoLimit \/ p.amount <= g.budget

\* A row tells the truth: success has a payment of its own, a denial none.
Truthful(t) ==
  /\ t.status = "success" =>
       \E p \in paid : p.id = t.id /\ p.user = t.user /\ p.wallet = t.wallet
                                   /\ p.amount = t.amount
  /\ t.status \in Denials => \A p \in paid : p.id # t.id

Init == /\ phase = [i \in Ids |-> "new"]
        /\ paid = {} /\ history = {}
        /\ \A g \in granted : g.user \in Users /\ g.wallet \in Wallets

Open == /\ \E i \in Ids : phase[i] = "new" /\ Becomes({i}, "open")
        /\ UNCHANGED <<paid, history, granted>>

Pay == /\ \E p \in paid' :
            /\ p.id \in Ids /\ phase[p.id] = "open"
            /\ \A q \in paid : q.id # p.id
            /\ Allowed(p)
            /\ paid' = paid \cup {p}
       /\ UNCHANGED <<phase, history, granted>>

Close == /\ \E t \in history' :
              /\ t.id \in Ids /\ phase[t.id] = "open"
              /\ \A r \in history : r.id # t.id
              /\ Truthful(t)
              /\ history' = history \cup {t}
              /\ Becomes({t.id}, "over")
         /\ UNCHANGED <<paid, granted>>

\* The client is answered without payment, the row cannot be written, or the
\* process stops, which ends every exchange that is open.
Abandon == /\ \E I \in SUBSET Ids : /\ \A i \in I : phase[i] = "open"
                                    /\ Becomes(I, "over")
           /\ UNCHANGED <<paid, history, granted>>

Grant == /\ \E g \in granted' : /\ g.user \in Users /\ g.wallet \in Wallets
                                /\ granted' = granted \cup {g}
         /\ UNCHANGED <<phase, paid, history>>

\* Deleting a user or a wallet takes its rows away, and changes none.
Erase == /\ history' \subseteq history
         /\ UNCHANGED <<phase, paid, granted>>

Next == Open \/ Pay \/ Close \/ Abandon \/ Grant \/ Erase

Spec == Init /\ [][Next]_spendingVars
=============================================================================
