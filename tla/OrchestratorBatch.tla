-------------------------- MODULE OrchestratorBatch --------------------------
(***************************************************************************)
(* Orchestrators at work on the ORCHESTRATE_INTERACTION jobs of several    *)
(* interactions.  A tick is one transaction: it claims a batch, and for    *)
(* each job writes the children and the outcome.  The caller commits when  *)
(* run_once returns.                                                       *)
(*                                                                         *)
(* Two kinds of failure differ here.  An exception of _create_child_jobs   *)
(* is caught: that job gets a retry or a dead letter, and the batch goes   *)
(* on.  After an error of the database the except branch has no usable     *)
(* transaction left, raises itself, and takes the whole batch with it, the *)
(* attempts and the children of the other jobs included.                   *)
(*                                                                         *)
(* PostCallWorkflow has the variety of one interaction's children, and     *)
(* RowLocks the interactions' and the children's row locks.                *)
(***************************************************************************)
EXTENDS Naturals, FiniteSets

CONSTANTS Interactions,
          Orchestrators,
          Raises,          \* what _create_child_jobs does on the payload: never raises, or
                           \* does so early, before its first write, or late, after the
                           \* recording job and before the LLM job
          BatchLimit,      \* limit of run_once
          MaxAttempts,
          MaxRollbacks     \* bound of the environment

ASSUME OrchestratorBatchAssumption ==
  /\ Raises \in [Interactions -> {"never", "early", "late"}]
  /\ BatchLimit \in Nat \ {0} /\ MaxAttempts \in Nat \ {0} /\ MaxRollbacks \in Nat

Children == {"recording", "llm"}

Statuses == {"absent", "ready", "running", "backoff", "succeeded", "dead"}

\* What belongs to an interaction: its orchestrate job, the jobs created for it, and the
\* entries that the orchestrator's failures have left in its error log.
Row == [status : Statuses, attempts : Nat, children : SUBSET Children, errors : Nat]

NewRow == [status |-> "absent", attempts |-> 0, children |-> {}, errors |-> 0]

VARIABLES
  rows,       \* what is committed
  draft,      \* what an orchestrator's open transaction makes of its batch
  todo,       \* the jobs of its batch it has not come to
  rollbacks

vars == <<rows, draft, todo, rollbacks>>

NoDraft == [i \in {} |-> NewRow]

Init ==
  /\ rows = [i \in Interactions |-> NewRow]
  /\ draft = [w \in Orchestrators |-> NoDraft]
  /\ todo = [w \in Orchestrators |-> {}]
  /\ rollbacks = 0

Batch(w) == DOMAIN draft[w]

Locked == UNION {Batch(w) : w \in Orchestrators}

-----------------------------------------------------------------------------

\* The webhook queues the job.
Queue(i) ==
  /\ rows[i].status = "absent"
  /\ rows' = [rows EXCEPT ![i].status = "ready"]
  /\ UNCHANGED <<draft, todo, rollbacks>>

\* What the claim query returns.
Claimable == {i \in Interactions : rows[i].status = "ready"} \ Locked

Taken(i) == [rows[i] EXCEPT !.status = "running", !.attempts = @ + 1]

\* Mutant: the claim is committed on its own, as the other workers do.
ClaimAndCommit(w) ==
  /\ Batch(w) = {} /\ Claimable # {}
  /\ \E S \in SUBSET Claimable :
       /\ S # {} /\ Cardinality(S) <= BatchLimit
       /\ draft' = [draft EXCEPT ![w] = [i \in S |-> Taken(i)]]
       /\ todo' = [todo EXCEPT ![w] = S]
       /\ rows' = [i \in Interactions |-> IF i \in S THEN [rows[i] EXCEPT !.attempts = @ + 1]
                                                     ELSE rows[i]]
  /\ UNCHANGED rollbacks

\* claim_ready_jobs.  Any batch up to the limit: the jobs have the same priority, the
\* order of their creation is left open, and so is which ready rows another
\* transaction's lock hides for a moment.
Claim(w) ==
  /\ Batch(w) = {} /\ Claimable # {}
  /\ \E S \in SUBSET Claimable :
       /\ S # {} /\ Cardinality(S) <= BatchLimit
       /\ draft' = [draft EXCEPT ![w] = [i \in S |-> Taken(i)]]
       /\ todo' = [todo EXCEPT ![w] = S]
  /\ UNCHANGED <<rows, rollbacks>>

Written(w, i, row) ==
  /\ draft' = [draft EXCEPT ![w] = [@ EXCEPT ![i] = row]]
  /\ todo' = [todo EXCEPT ![w] = @ \ {i}]
  /\ UNCHANGED <<rows, rollbacks>>

\* Mutant: the success is left out, so the job is queued again.
OrchestrateOnly(w, i) ==
  /\ i \in todo[w] /\ Raises[i] = "never"
  /\ Written(w, i, [draft[w][i] EXCEPT !.children = Children, !.status = "ready"])

\* _process_job: create_if_absent for each child, mark_succeeded.
Orchestrate(w, i) ==
  /\ i \in todo[w] /\ Raises[i] = "never"
  /\ Written(w, i, [draft[w][i] EXCEPT !.children = Children, !.status = "succeeded"])

\* What the batch holds of the children when _create_child_jobs raises.
Partial(i) == IF Raises[i] = "late" THEN {"recording"} ELSE {}

\* Mutant: one attempt more than max_attempts.
RaiseOnceMore(w, i) ==
  /\ i \in todo[w] /\ Raises[i] # "never"
  /\ LET row == draft[w][i]
     IN  Written(w, i, [row EXCEPT !.children = @ \cup Partial(i),
                                   !.errors = @ + 1,
                                   !.status = IF row.attempts <= MaxAttempts THEN "backoff" ELSE "dead"])

\* The except branch: append_error, then defer or dead_letter.
Raise(w, i) ==
  /\ i \in todo[w] /\ Raises[i] # "never"
  /\ LET row == draft[w][i]
     IN  Written(w, i, [row EXCEPT !.children = @ \cup Partial(i),
                                   !.errors = @ + 1,
                                   !.status = IF row.attempts < MaxAttempts THEN "backoff" ELSE "dead"])

Close(w) ==
  /\ draft' = [draft EXCEPT ![w] = NoDraft]
  /\ todo' = [todo EXCEPT ![w] = {}]

\* Mutant: the session is closed without a commit.
CommitMissing(w) ==
  /\ Batch(w) # {} /\ todo[w] = {}
  /\ Close(w)
  /\ UNCHANGED <<rows, rollbacks>>

\* The end of the caller's session.begin() block.
Commit(w) ==
  /\ Batch(w) # {} /\ todo[w] = {}
  /\ rows' = [i \in Interactions |-> IF i \in Batch(w) THEN draft[w][i] ELSE rows[i]]
  /\ Close(w)
  /\ UNCHANGED rollbacks

\* A statement or the commit fails in the database, or the process dies.
Rollback(w) ==
  /\ Batch(w) # {} /\ rollbacks < MaxRollbacks
  /\ rollbacks' = rollbacks + 1
  /\ Close(w)
  /\ UNCHANGED rows

\* run_after of a deferred job is reached.
RetryDue(i) ==
  /\ rows[i].status = "backoff"
  /\ rows' = [rows EXCEPT ![i].status = "ready"]
  /\ UNCHANGED <<draft, todo, rollbacks>>

ProcessJob(w) == \E i \in Interactions : Orchestrate(w, i) \/ Raise(w, i)

\* Every job that was queued has ended.
Rest ==
  /\ \A i \in Interactions : rows[i].status \in {"succeeded", "dead"}
  /\ UNCHANGED vars

Next ==
  \/ \E w \in Orchestrators : Claim(w) \/ ProcessJob(w) \/ Commit(w) \/ Rollback(w)
  \/ \E i \in Interactions : Queue(i) \/ RetryDue(i)
  \/ Rest

Spec == Init /\ [][Next]_vars

\* Ticks come again and again, an open transaction goes on, and delays pass.  No webhook
\* need come.
FairSpec ==
  /\ Spec
  /\ \A w \in Orchestrators : WF_vars(Claim(w)) /\ WF_vars(ProcessJob(w)) /\ WF_vars(Commit(w))
  /\ \A i \in Interactions : WF_vars(RetryDue(i))

-----------------------------------------------------------------------------
(* Properties *)

\* Types; what is committed is never RUNNING, and a transaction has its batch locked.
TypeOK ==
  /\ rows \in [Interactions -> Row] /\ \A i \in Interactions : rows[i].status # "running"
  /\ DOMAIN draft = Orchestrators
  /\ \A w \in Orchestrators : Batch(w) \subseteq Interactions /\ draft[w] \in [Batch(w) -> Row]
  /\ todo \in [Orchestrators -> SUBSET Interactions]
  /\ \A w \in Orchestrators : todo[w] \subseteq Batch(w)
  /\ rollbacks \in Nat

\* SKIP LOCKED keeps the batches of two orchestrators apart.
BatchesDisjoint ==
  \A v, w \in Orchestrators : v # w => Batch(v) \cap Batch(w) = {}

Worked(row) == row.errors + (IF row.status = "succeeded" THEN 1 ELSE 0)

\* Every committed attempt of a job is a failure of its own, or its success: a batch that
\* is rolled back for the sake of one job costs the others nothing,
AttemptsAreOwn == \A i \in Interactions : rows[i].attempts = Worked(rows[i])

\* ... and a job is dead-lettered for its own payload only, after all its attempts.
DeadForOwnErrors ==
  \A i \in Interactions : rows[i].status = "dead" =>
    Raises[i] # "never" /\ rows[i].errors = MaxAttempts

\* The children and the success of a job become visible together, and of a failed one at
\* most the recording job.
ChildrenWithOutcome ==
  \A i \in Interactions :
    /\ rows[i].status = "succeeded" <=> "llm" \in rows[i].children
    /\ rows[i].children # {} => rows[i].attempts > 0
    /\ Raises[i] = "early" => rows[i].children = {}

\* However the batches are put together and rolled back, every queued job ends.
EveryJobEnds ==
  \A i \in Interactions : rows[i].status = "ready" ~> rows[i].status \in {"succeeded", "dead"}
=============================================================================
