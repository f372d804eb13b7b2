------------------------- MODULE MCBudgetArithmetic -------------------------
(* Instances of BudgetArithmetic for TLC.                                    *)
EXTENDS BudgetArithmetic

UpTo3 == 1..3
UpTo12 == 0..12

\* For comparison, what an administrator would expect, and rounding does not
\* give: a payment that uses the budget up exactly is not refused.
ExactFitAccepted == refused # 0 => Exact(rows) + refused > budget
=============================================================================
