---------------------------- MODULE JobLifecycle ----------------------------
(***************************************************************************)
(* What the job queue promises, with nothing of how it does it: a job that *)
(* has not ended is leased to at most one worker at a time, only the       *)
(* worker that holds the lease may end it, and a job ends once, as a       *)
(* success or as a failure, leaving exactly one record of its end (the     *)
(* "succeeded" audit event or the dead_letter_jobs row).                   *)
(***************************************************************************)
EXTENDS Naturals

CONSTANTS Jobs, Workers, Nobody

VARIABLES holder,    \* who has the lease of a job
          outcome,   \* "open" until the job ends
          records    \* how many ends are on record for a job

lifecycleVars == <<holder, outcome, records>>

Init ==
  /\ holder = [j \in Jobs |-> Nobody]
  /\ outcome = [j \in Jobs |-> "open"]
  /\ records = [j \in Jobs |-> 0]

\* A worker takes a batch of open jobs that nobody holds.
Lease(w, S) ==
  /\ \A j \in S : outcome[j] = "open" /\ holder[j] = Nobody
  /\ holder' = [j \in Jobs |-> IF j \in S THEN w ELSE holder[j]]
  /\ UNCHANGED <<outcome, records>>

\* It gives jobs back without having ended them: a retry, or a crash.
Release(w, S) ==
  /\ \A j \in S : holder[j] = w
  /\ holder' = [j \in Jobs |-> IF j \in S THEN Nobody ELSE holder[j]]
  /\ UNCHANGED <<outcome, records>>

\* It ends one of its jobs.
End(w, j, o) ==
  /\ holder[j] = w
  /\ outcome' = [outcome EXCEPT ![j] = o]
  /\ records' = [records EXCEPT ![j] = @ + 1]
  /\ holder' = [holder EXCEPT ![j] = Nobody]

Next ==
  \E w \in Workers :
    \/ \E S \in SUBSET Jobs : Lease(w, S) \/ Release(w, S)
    \/ \E j \in Jobs, o \in {"succeeded", "failed"} : End(w, j, o)

Spec == Init /\ [][Next]_lifecycleVars
=============================================================================
