----------------------------- MODULE MCJobQueue -----------------------------
(* Instances of JobQueue for TLC. *)
EXTENDS JobQueueRefinement

\* Every worker asks for every job: one kind of worker, many processes.
TakesAll == [w \in Workers |-> Jobs]

\* The recovering workers ask for none of the jobs: they are the orchestrator,
\* whose tick recovers the rows of every job_type and claims only its own.
TakesByRole == [w \in Workers |-> IF w \in Recoverers THEN {} ELSE Jobs]
=============================================================================
