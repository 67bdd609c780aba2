----------------------------- MODULE CallOutcome -----------------------------
(***************************************************************************)
(* What the pipeline promises for one interaction, without its jobs and    *)
(* workers: once it is queued it gets one stage or is given up, and a      *)
(* stage has two results, signals sent and the lead moved, each of which   *)
(* is applied before it counts as done, or is given up.  A result may be   *)
(* void, with nothing to be applied to, and then counts as done all the    *)
(* same.                                                                   *)
(***************************************************************************)
CONSTANTS Stages      \* call_stage values, that of a short call included

Results == {"signal", "lead"}

VARIABLES
  stage,      \* new, open, a member of Stages, or lost
  results,    \* none, due, done or lost
  applied,    \* the results whose effect has happened, once or more often
  void        \* the results that have nothing to be applied to

vars == <<stage, results, applied, void>>

Init ==
  /\ stage = "new"
  /\ results = [x \in Results |-> "none"]
  /\ applied = {} /\ void = {}

Queue ==
  /\ stage = "new" /\ stage' = "open"
  /\ void' \in SUBSET Results
  /\ UNCHANGED <<results, applied>>

Decide(s) ==
  /\ stage = "open" /\ stage' = s
  /\ results' = [x \in Results |-> "due"]
  /\ UNCHANGED <<applied, void>>

GiveUp == stage = "open" /\ stage' = "lost" /\ UNCHANGED <<results, applied, void>>

Apply(x) ==
  /\ results[x] = "due" /\ x \notin void
  /\ applied' = applied \cup {x}
  /\ UNCHANGED <<stage, results, void>>

Settle(x) ==
  /\ results[x] = "due"
  /\ \E end \in {"lost"} \cup (IF x \in applied \cup void THEN {"done"} ELSE {}) :
       results' = [results EXCEPT ![x] = end]
  /\ UNCHANGED <<stage, applied, void>>

Conclude == GiveUp \/ \E s \in Stages : Decide(s)

Next == Queue \/ Conclude \/ \E x \in Results : Apply(x) \/ Settle(x)

Safety == Init /\ [][Next]_vars

\* A queued interaction is concluded, and what is due is settled.
Spec == Safety /\ WF_vars(Conclude) /\ \A x \in Results : WF_vars(Settle(x))
=============================================================================
