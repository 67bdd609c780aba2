----------------------------- MODULE MCRowLocks -----------------------------
(* Instances of RowLocks for TLC: one worker of each kind, over one or two          *)
(* interactions.                                                                   *)
EXTENDS RowLocks

CONSTANTS llm1, orch1, rec1, res1, i1, i2

KindsByName == [w \in Workers |-> CASE w = orch1 -> "orchestrate"
                                    [] w = rec1  -> "recording"
                                    [] w = res1  -> "result"
                                    [] OTHER     -> "llm"]

\* The recording jobs come first, and last those of the orchestrator.
SomeIds ==
  [r \in JobRows |-> (CASE r[1] = "recording" -> 0 [] r[1] = "llm"    -> 2 [] r[1] = "signal" -> 4
                        [] r[1] = "lead"      -> 6 [] OTHER           -> 8)
                       + (IF r[2] = i1 THEN 0 ELSE 1)]
=============================================================================
