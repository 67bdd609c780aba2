------------------------ MODULE MCOrchestratorBatch ------------------------
(* Instances of OrchestratorBatch for TLC: a sound payload or two, and one of each *)
(* kind that raises.                                                               *)
EXTENDS OrchestratorBatch

CONSTANTS sound1, sound2, early1, late1

Payloads == [i \in Interactions |-> IF i = early1 THEN "early"
                                    ELSE IF i = late1 THEN "late" ELSE "never"]
=============================================================================
