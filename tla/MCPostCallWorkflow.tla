------------------------- MODULE MCPostCallWorkflow -------------------------
(* Instances of PostCallWorkflow for TLC. *)
EXTENDS PostCallOutcome

Normal(short, sid) == [short |-> short, callSid |-> sid, raises |-> "never", lead |-> TRUE]

Broken(when) == [short |-> FALSE, callSid |-> TRUE, raises |-> when, lead |-> TRUE]

\* Of a lead that does not exist.
Leadless(short) == [Normal(short, FALSE) EXCEPT !.lead = FALSE]

\* Short and long calls, with and without a recording or a lead, and malformed ones.
AllPayloads == {Normal(TRUE, TRUE), Normal(TRUE, FALSE), Normal(FALSE, TRUE),
                Normal(FALSE, FALSE), Broken("early"), Broken("late"),
                Leadless(TRUE), Leadless(FALSE)}

\* One call long enough to be analysed, without a recording, of a lead or not.
Unrecorded == {Normal(FALSE, FALSE), Leadless(FALSE)}

OneOfEach == [e \in Events |-> 1]

\* A worker or a delivery may die once, and the delivery be repeated once.
CrashAndRepeat == [e \in Events |-> IF e \in {"crash", "redelivery"} THEN 1 ELSE 0]
=============================================================================
