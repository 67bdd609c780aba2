------------------------- MODULE JobQueueRefinement -------------------------
(***************************************************************************)
(* The job queue as an implementation of JobLifecycle.                     *)
(*                                                                         *)
(* A worker holds the lease of the jobs it has in memory.  The end of a    *)
(* job is read off its status column, the record of the end off the audit  *)
(* and dead-letter tables.                                                 *)
(***************************************************************************)
EXTENDS JobQueue

CONSTANT Nobody          \* not a worker

ASSUME NobodyAssumption == Nobody \notin Workers

holderBar ==
  [j \in Jobs |-> IF Owned(j) THEN CHOOSE w \in Workers : j \in Mine(w) ELSE Nobody]

outcomeBar ==
  [j \in Jobs |-> CASE rows[j].status = "SUCCEEDED" -> "succeeded"
                    [] rows[j].status = "DEAD_LETTERED" -> "failed"
                    [] OTHER -> "open"]

recordsBar == [j \in Jobs |-> succeeded[j] + deadLetters[j]]

Lifecycle == INSTANCE JobLifecycle
               WITH holder <- holderBar, outcome <- outcomeBar, records <- recordsBar

\* The queue implements the lifecycle: every claim leases jobs that are open and
\* free, and a job is ended once, by the worker that holds it.
ImplementsLifecycle == Lifecycle!Spec
=============================================================================
