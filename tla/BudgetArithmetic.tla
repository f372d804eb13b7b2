-------------------------- MODULE BudgetArithmetic --------------------------
(***************************************************************************)
(* The comparison of a payment with what is left of a budget, in binary    *)
(* floating point (authorizeWalletPayment, currentMonthConsumption and     *)
(* parsePaymentAmount in internal/proxy/server.go), one payment after the  *)
(* other.  PayProxy has the same comparison over integers; here is what    *)
(* rounding makes of it.                                                   *)
(*                                                                         *)
(* A float is an integer n that stands for n / Grid, and has at most       *)
(* Precision significant bits.  float64 has 53 of them and a unit is a     *)
(* millionth; TLC takes a handful of each, which is coarser.               *)
(***************************************************************************)
EXTENDS Integers, Sequences, SequencesExt

CONSTANTS
  Precision, \* bits of a significand
  Grid,      \* a power of two, fine enough for the smallest amount
  Unit,      \* units in one USDC
  Prices,    \* amounts upstreams ask for, in units
  Budgets,   \* budgets the admin types, in units
  MaxRows    \* bound on the payments

Power[n \in Nat] == IF n = 0 THEN 1 ELSE 2 * Power[n - 1]

\* Integers up to 2^Precision are floats, so that ParseFloat of a price is exact.
ASSUME ArithmeticAssumption ==
  /\ Precision \in Nat \ {0} /\ Grid \in Nat /\ Unit \in Nat \ {0}
  /\ Grid >= Unit * Power[Precision - 1]
  /\ Prices \subseteq 1..Power[Precision] /\ Budgets \subseteq Nat
  /\ MaxRows \in Nat

\* How much a month may hold before rounding errors can add up to a unit.  The
\* code has no such limit; with 53 bits and a millionth as the unit it is met by
\* a budget of a million USDC and 4000 payments, or of 1000 USDC and 4 million.
ASSUME PrecisionAssumption ==
  \A b \in Budgets : 2 * (MaxRows + 1) * (b + 1) <= Power[Precision]

VARIABLES
  budget,  \* monthly_budget, as it was typed
  rows,    \* amounts of the success rows of the month, newest first
  refused  \* the last request: the amount that was refused, or 0

vars == <<budget, rows, refused>>

-----------------------------------------------------------------------------
(* IEEE 754, to nearest and ties to even.                                  *)

RoundHalfEven(a, b) ==
  LET q == a \div b  twice == 2 * (a % b)
  IN  IF twice < b \/ (twice = b /\ q % 2 = 0) THEN q ELSE q + 1

\* The spacing of the floats around the quotient a / b.
Spacing(a, b, bits) ==
  Power[CHOOSE e \in 0..a : /\ a < b * Power[bits + e]
                            /\ e > 0 => a >= b * Power[bits + e - 1]]

Float(a, b, bits) ==
  LET spacing == Spacing(a, b, bits) IN spacing * RoundHalfEven(a, b * spacing)

\* ParseFloat of a decimal, and amount / 1_000_000.
FromUnits(k) == Float(k * Grid, Unit, Precision)

\* Fault model: sums are kept in single precision.
AddSingle(x, y) == Float(x + y, 1, Precision \div 2)

\* Fault model: sums are kept in half precision.
AddHalf(x, y) == Float(x + y, 1, Precision \div 4)

Add(x, y) == Float(x + y, 1, Precision)

-----------------------------------------------------------------------------
Consumption == FoldLeft(LAMBDA total, k : Add(total, FromUnits(k)), 0, rows)

OverBudget(k) == Add(Consumption, FromUnits(k)) > FromUnits(budget)

\* created_at has seconds: the newest rows may come back in any order, so that
\* the new one takes any place.
Recorded(k) == \E i \in 1..(Len(rows) + 1) : rows' = InsertAt(rows, i, k)

Pay(k) ==
  /\ Len(rows) < MaxRows
  /\ IF OverBudget(k) THEN refused' = k /\ UNCHANGED rows
     ELSE Recorded(k) /\ refused' = 0
  /\ UNCHANGED budget

ChangeBudget(b) == budget' = b /\ refused' = 0 /\ UNCHANGED rows

NewMonth == rows' = <<>> /\ refused' = 0 /\ UNCHANGED budget

Init == budget \in Budgets /\ rows = <<>> /\ refused = 0

Next == \/ \E k \in Prices : Pay(k)
        \/ \E b \in Budgets : ChangeBudget(b)
        \/ NewMonth

Spec == Init /\ [][Next]_vars

-----------------------------------------------------------------------------
(* What rounding may do.                                                   *)

\* The sum of amounts in units, without rounding.
Exact(amounts) == FoldLeft(LAMBDA total, k : total + k, 0, amounts)

\* No payment is let through because a sum was rounded down: what is spent
\* through an assignment is within the budget that allowed it, to the unit
\* (server.go line 341).
AcceptedWithinBudget == [][rows' # rows => Exact(rows') <= budget]_vars

\* No payment is refused because a sum was rounded up, unless it would have
\* used the budget up to its last unit.
RefusedOnlyAtTheEdge == refused # 0 => Exact(rows) + refused >= budget
=============================================================================
