---------------------------- MODULE MCTokenBudget ----------------------------
(* Instances of TokenBudget for TLC: customer a, whose budget one of its jobs *)
(* fills, and customer b with one HIGH job that only overflow can admit.      *)
EXTENDS TokenBudget

CONSTANTS a, b, a1, a2, b1

Owners == [j \in Jobs |-> IF j = b1 THEN b ELSE a]

Estimates == [j \in Jobs |-> IF j = b1 THEN 2 ELSE 1]

Budgets == [j \in Jobs |-> 1]
==============================================================================
