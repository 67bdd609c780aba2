--------------------------- MODULE PostCallOutcome ---------------------------
(***************************************************************************)
(* The jobs of an interaction implement CallOutcome, as long as no worker  *)
(* outlives its lease: the stage is in the keys of the result jobs.        *)
(***************************************************************************)
EXTENDS PostCallWorkflow

Decided == {s \in AllStages : jobs[Signal(s)] # "absent" \/ jobs[Lead(s)] # "absent"}

StageOfCall ==
  IF jobs[Orchestrate] = "absent" THEN "new"
  ELSE IF Decided # {} THEN CHOOSE s \in Decided : TRUE
  ELSE IF "dead" \in {jobs[Orchestrate], jobs[Llm]} THEN "lost"
  ELSE "open"

ResultOf(name) ==
  LET status == IF Decided = {} THEN "absent" ELSE jobs[<<name, StageOfCall>>]
  IN  CASE status = "absent"    -> "none"
        [] status = "succeeded" -> "done"
        [] status = "dead"      -> "lost"
        [] OTHER                -> "due"

Applied == {name \in {"signal", "lead"} : \E s \in AllStages : effects[<<name, s>>] > 0}

\* A payload may name a lead that does not exist.
Void == IF jobs[Orchestrate] # "absent" /\ ~payload.lead THEN {"lead"} ELSE {}

Outcome == INSTANCE CallOutcome WITH
             Stages  <- AllStages,
             stage   <- StageOfCall,
             results <- [name \in {"signal", "lead"} |-> ResultOf(name)],
             applied <- Applied,
             void    <- Void

\* What the repository promises for a call (SUBMISSION.md:8, jobs.py:56): however the
\* webhook is repeated, whatever crashes and is retried, a queued interaction comes to
\* one outcome, whose results are applied before they are called done, as far as there is
\* something to apply them to.
ImplementsOutcome == Outcome!Spec
=============================================================================
