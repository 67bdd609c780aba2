------------------------ MODULE MCAdmissionScheduler ------------------------
(* Instances of AdmissionScheduler for TLC: a noisy customer with recurring HIGH *)
(* jobs that overrun its budget and fill a batch, and a MEDIUM one with an       *)
(* unreadable budget, and a quiet one whose LOW or MEDIUM jobs come last.        *)
EXTENDS AdmissionScheduler

CONSTANTS w1, w2, noisy, quiet, high1, high2, low1, medium1, bad1

Owners == [j \in Jobs |-> IF j \in {low1, medium1} THEN quiet ELSE noisy]

Estimates == [j \in Jobs |-> 1]

Budgets == [j \in Jobs |-> 1]

\* What came up in the calls; one of the urgent ones also has a low-value outcome.
Texts == [j \in Jobs |-> CASE j = high1 -> {"demo"}
                           [] j = high2 -> {"demo", "not interested"}
                           [] j = low1 -> {"wrong number"}
                           [] OTHER -> {"later"}]

Highs == {j \in Jobs : Classify(Texts[j]) = "HIGH"}
=============================================================================
