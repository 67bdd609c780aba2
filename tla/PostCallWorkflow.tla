-------------------------- MODULE PostCallWorkflow --------------------------
(***************************************************************************)
(* The jobs of one interaction, from the call-end webhook to the signal    *)
(* and lead-stage jobs.  Interactions share no job, so one is enough.      *)
(*                                                                         *)
(*   delivery -> orchestrate -> recording                                  *)
(*                           -> llm -> signal, lead   (stage of the call)  *)
(*                           -> signal, lead          (short call)         *)
(*                                                                         *)
(* A job is known by its idempotency key.  How claims, leases and stale    *)
(* locks work is JobQueue's subject; here a claimed job is "leased", and   *)
(* a worker that outlives its lease (an overrun) goes on all the same.     *)
(*                                                                         *)
(* Deliveries are the webhook, possibly repeated, and the legacy Celery    *)
(* task.  A webhook updates the interaction's row before it looks for the  *)
(* job (autoflush), and so holds that row until it commits; the legacy     *)
(* task touches the job only.                                              *)
(***************************************************************************)
EXTENDS Naturals, FiniteSets

CONSTANTS Webhooks, LegacyTasks,    \* deliveries
          Stages,                   \* call_stage values the analysis may return
          Payloads,                 \* what the delivered payload may be
          MaxAttempts,              \* max_attempts of every job
          Limits,                   \* how often each event of the environment happens
          Nobody

Deliveries == Webhooks \cup LegacyTasks

AllStages == Stages \cup {"short_call"}

\* What the workflow looks at in a payload: fewer than four turns, a call_sid, whether
\* _create_child_jobs raises on it (early, reading the transcript, or late, estimating the
\* tokens of one that is long enough), and whether lead_id is that of a lead.
Payload == [short : BOOLEAN, callSid : BOOLEAN, raises : {"never", "early", "late"},
            lead : BOOLEAN]

Events == {"crash", "overrun", "denial", "redelivery"}

ASSUME PostCallWorkflowAssumption ==
  /\ Webhooks \cap LegacyTasks = {} /\ Nobody \notin Deliveries
  /\ "short_call" \notin Stages
  /\ Payloads # {} /\ Payloads \subseteq {p \in Payload : p.raises = "late" => ~p.short}
  /\ MaxAttempts \in Nat \ {0}
  /\ Limits \in [Events -> Nat]

\* The idempotency keys of the interaction, interaction id and version left out.
Orchestrate == <<"orchestrate", "any">>
Recording   == <<"recording", "any">>
Llm         == <<"llm", "any">>
Signal(s)   == <<"signal", s>>
Lead(s)     == <<"lead", s>>

ResultKeys == {"signal", "lead"} \X AllStages

Keys == {Orchestrate, Recording, Llm} \cup ResultKeys

\* Where a worker is with a job it claimed: before the call the job is for (provider,
\* recording, signal dispatch, lead update), after it, and past the check that the
\* job is still RUNNING.
Phases == {"claimed", "called", "checked"}

VARIABLES
  jobs,        \* status of the job with a key, "absent" when there is none
  attempts,    \* its attempts
  at,          \* how many workers are with it, by phase
  payload,     \* what the orchestrate job carries
  dpc,         \* where a delivery is
  rowLock,     \* the webhook whose transaction has updated the interaction's row
  ended,       \* interactions.status = ENDED
  analysis,    \* interaction_metadata.analysis_status
  effects,     \* per result job: times trigger_signal_jobs ran, or a lead got the job's
               \* stage (history)
  author,      \* the delivery that inserted the orchestrate job (history)
  collided,    \* deliveries that violated the unique key (history)
  spent        \* events so far (bound)

deliveryVars == <<dpc, rowLock, ended, payload, author, collided>>
resultVars   == <<analysis, effects>>
vars == <<jobs, attempts, at, deliveryVars, resultVars, spent>>

Init ==
  /\ jobs = [k \in Keys |-> "absent"]
  /\ attempts = [k \in Keys |-> 0]
  /\ at = [k \in Keys |-> [p \in Phases |-> 0]]
  /\ payload = CHOOSE p \in Payloads : TRUE      \* of no meaning until a delivery inserts
  /\ dpc = [d \in Deliveries |-> "new"]
  /\ rowLock = Nobody
  /\ ended = FALSE
  /\ analysis = "none"
  /\ effects = [k \in ResultKeys |-> 0]
  /\ author = Nobody /\ collided = {}
  /\ spent = [e \in Events |-> 0]

Spend(e) == spent[e] < Limits[e] /\ spent' = [spent EXCEPT ![e] = @ + 1]

\* create_if_absent for each of the keys ks, inside one transaction.
Created(table, ks) ==
  [k \in Keys |-> IF k \in ks /\ table[k] = "absent" THEN "ready" ELSE table[k]]

-----------------------------------------------------------------------------
(* Deliveries *)

\* Mutant: the status is committed before the job is looked for.
MarkEndedAtOnce(d) ==
  /\ d \in Webhooks /\ dpc[d] = "new" /\ rowLock = Nobody
  /\ ended' = TRUE /\ rowLock' = d
  /\ dpc' = [dpc EXCEPT ![d] = "marked"]
  /\ UNCHANGED <<jobs, attempts, at, payload, author, collided, resultVars, spent>>

\* Mutant: the webhook does not update the interaction first.
MarkEndedLater(d) ==
  /\ d \in Webhooks /\ dpc[d] = "new"
  /\ dpc' = [dpc EXCEPT ![d] = "marked"]
  /\ UNCHANGED <<jobs, attempts, at, rowLock, ended, payload, author, collided, resultVars, spent>>

\* mark_ended, flushed by the query that follows: the UPDATE waits for the row.
MarkEnded(d) ==
  /\ d \in Webhooks /\ dpc[d] = "new" /\ rowLock = Nobody
  /\ rowLock' = d
  /\ dpc' = [dpc EXCEPT ![d] = "marked"]
  /\ UNCHANGED <<jobs, attempts, at, ended, payload, author, collided, resultVars, spent>>

LeaveAs(d, outcome) ==
  /\ dpc' = [dpc EXCEPT ![d] = outcome]
  /\ rowLock' = IF rowLock = d THEN Nobody ELSE rowLock
  /\ UNCHANGED <<attempts, at, resultVars>>

\* The commit of a delivery; a webhook answers ok.
Deliver(d) ==
  /\ LeaveAs(d, "done")
  /\ ended' = (ended \/ d \in Webhooks)
  /\ UNCHANGED <<collided, spent>>

ReadyToLook(d) == dpc[d] = IF d \in Webhooks THEN "marked" ELSE "new"

\* The SELECT of create_if_absent finds the job: nothing to insert, commit.
FindQueued(d) ==
  /\ ReadyToLook(d) /\ jobs[Orchestrate] # "absent"
  /\ Deliver(d)
  /\ UNCHANGED <<jobs, payload, author>>

\* The SELECT finds nothing.
FindAbsent(d) ==
  /\ ReadyToLook(d) /\ jobs[Orchestrate] = "absent"
  /\ dpc' = [dpc EXCEPT ![d] = "inserting"]
  /\ UNCHANGED <<jobs, attempts, at, rowLock, ended, payload, author, collided, resultVars, spent>>

\* The INSERT and the commit.  The payload is checked on its way only by the webhook,
\* which reads the transcript itself and fails before this on one it cannot read, and
\* takes the lead from the interaction's row, where it is a foreign key.
Insert(d) ==
  /\ dpc[d] = "inserting" /\ jobs[Orchestrate] = "absent"
  /\ jobs' = Created(jobs, {Orchestrate})
  /\ payload' \in {p \in Payloads : d \in Webhooks => p.raises = "never" /\ p.lead}
  /\ author' = d
  /\ Deliver(d)

\* The INSERT finds the key taken: rollback, and the webhook answers 500.
Collide(d) ==
  /\ dpc[d] = "inserting" /\ jobs[Orchestrate] # "absent"
  /\ LeaveAs(d, "failed")
  /\ collided' = collided \cup {d}
  /\ UNCHANGED <<jobs, ended, payload, author, spent>>

\* The process dies before the commit.
DeliveryCrashes(d) ==
  /\ dpc[d] \in {"marked", "inserting"}
  /\ LeaveAs(d, "failed")
  /\ Spend("crash")
  /\ UNCHANGED <<jobs, ended, payload, author, collided>>

\* The caller repeats a delivery, answered or not.
Redeliver(d) ==
  /\ dpc[d] \in {"done", "failed"}
  /\ dpc' = [dpc EXCEPT ![d] = "new"]
  /\ Spend("redelivery")
  /\ UNCHANGED <<jobs, attempts, at, rowLock, ended, payload, author, collided, resultVars>>

-----------------------------------------------------------------------------
(* The orchestrator: claim, children and outcome in one transaction, which    *)
(* updates the interaction's row and so waits for a webhook that holds it.    *)

RetryOrBury(tries) == IF tries < MaxAttempts THEN "ready" ELSE "dead"

RecordingKeys == IF payload.callSid THEN {Recording} ELSE {}

\* Mutant: a short call is analysed as well.
ChildrenWithLlm ==
  RecordingKeys \cup {Llm}
    \cup (IF payload.short THEN {Signal("short_call"), Lead("short_call")} ELSE {})

\* The jobs _create_child_jobs creates.
Children ==
  RecordingKeys \cup (IF payload.short THEN {Signal("short_call"), Lead("short_call")}
                                       ELSE {Llm})

\* Mutant: the children are committed, and the job is left to be claimed again.
OrchestrateLeavingJob ==
  /\ jobs[Orchestrate] = "ready" /\ payload.raises = "never" /\ rowLock = Nobody
  /\ jobs' = Created(jobs, Children)
  /\ analysis' = IF payload.short THEN "skipped" ELSE "queued"
  /\ UNCHANGED <<attempts, at, deliveryVars, effects, spent>>

OrchestrateSucceeds ==
  /\ jobs[Orchestrate] = "ready" /\ payload.raises = "never" /\ rowLock = Nobody
  /\ jobs' = [Created(jobs, Children) EXCEPT ![Orchestrate] = "succeeded"]
  /\ attempts' = [attempts EXCEPT ![Orchestrate] = @ + 1]
  /\ analysis' = IF payload.short THEN "skipped" ELSE "queued"
  /\ UNCHANGED <<at, deliveryVars, effects, spent>>

\* The except branch of _process_job: what was written before the exception is
\* committed with the retry or the dead letter.
OrchestrateRaises ==
  /\ jobs[Orchestrate] = "ready" /\ payload.raises # "never" /\ rowLock = Nobody
  /\ attempts' = [attempts EXCEPT ![Orchestrate] = @ + 1]
  /\ LET late == payload.raises = "late"
     IN  /\ jobs' = [Created(jobs, IF late THEN RecordingKeys ELSE {})
                       EXCEPT ![Orchestrate] = RetryOrBury(attempts'[Orchestrate])]
         /\ analysis' = IF late THEN "queued" ELSE analysis
  /\ UNCHANGED <<at, deliveryVars, effects, spent>>

-----------------------------------------------------------------------------
(* The recording, LLM and result workers.  Every outcome transaction updates  *)
(* the job; those of the recording and LLM workers, and all failures, update  *)
(* the interaction's row too.                                                 *)

WorkerKeys == Keys \ {Orchestrate}

AtWork(k) == {p \in Phases : at[k][p] > 0}

Enter(k, p) == at' = [at EXCEPT ![k][p] = @ + 1]
Leave(k, p) == at[k][p] > 0 /\ at' = [at EXCEPT ![k][p] = @ - 1]

\* Mutant: a worker goes on with a job it does not have.
MoveAnyway(k, p, q) == at' = [at EXCEPT ![k][p] = @ - 1, ![k][q] = @ + 1]

Move(k, p, q) == at[k][p] > 0 /\ at' = [at EXCEPT ![k][p] = @ - 1, ![k][q] = @ + 1]

\* Mutant: the analysis waits for the recording.
LeaseAfterRecording(k) ==
  /\ jobs[k] = "ready"
  /\ k = Llm => jobs[Recording] \notin {"ready", "leased"}
  /\ jobs' = [jobs EXCEPT ![k] = "leased"]
  /\ attempts' = [attempts EXCEPT ![k] = @ + 1]
  /\ Enter(k, "claimed")
  /\ UNCHANGED <<deliveryVars, resultVars, spent>>

\* The claim commits; so does, for an LLM job, the reservation of tokens.
Lease(k) ==
  /\ jobs[k] = "ready"
  /\ jobs' = [jobs EXCEPT ![k] = "leased"]
  /\ attempts' = [attempts EXCEPT ![k] = @ + 1]
  /\ Enter(k, "claimed")
  /\ UNCHANGED <<deliveryVars, resultVars, spent>>

\* The rate limiter denies the tokens: claimed and deferred in one transaction.
Deny ==
  /\ jobs[Llm] = "ready"
  /\ attempts' = [attempts EXCEPT ![Llm] = @ + 1]
  /\ Spend("denial")
  /\ UNCHANGED <<jobs, at, deliveryVars, resultVars>>

\* The call of a result job has an effect, but for update_lead_stage when there is no such
\* lead: it returns, and the job goes on as if it had.
Effective(k) == k \in ResultKeys /\ (k[1] = "lead" => payload.lead)

\* Mutant: results are only ever applied on the first attempt.
CallOnce(k) ==
  /\ Move(k, "claimed", "called")
  /\ effects' = IF Effective(k) /\ attempts[k] = 1 THEN [effects EXCEPT ![k] = @ + 1] ELSE effects
  /\ UNCHANGED <<jobs, attempts, deliveryVars, analysis, spent>>

\* The call succeeds.  Signals are dispatched, and the lead updated, before and apart
\* from the transaction that marks the job.
Call(k) ==
  /\ Move(k, "claimed", "called")
  /\ effects' = IF Effective(k) THEN [effects EXCEPT ![k] = @ + 1] ELSE effects
  /\ UNCHANGED <<jobs, attempts, deliveryVars, analysis, spent>>

\* The job is read again, without a lock: go on only if it is RUNNING.
StillRunning(k) ==
  /\ jobs[k] = "leased"
  /\ Move(k, "called", "checked")
  /\ UNCHANGED <<jobs, attempts, deliveryVars, resultVars, spent>>

NoLongerRunning(k) ==
  /\ jobs[k] # "leased"
  /\ Leave(k, "called")
  /\ UNCHANGED <<jobs, attempts, deliveryVars, resultVars, spent>>

\* The outcome of a recording, signal or lead job.
Succeed(k) ==
  /\ k # Llm /\ (k = Recording => rowLock = Nobody)
  /\ Leave(k, "checked")
  /\ jobs' = [jobs EXCEPT ![k] = "succeeded"]
  /\ UNCHANGED <<attempts, deliveryVars, resultVars, spent>>

\* The analysis, the success of the job and the result jobs, in one transaction.
Analyse(s) ==
  /\ rowLock = Nobody
  /\ Leave(Llm, "checked")
  /\ jobs' = [Created(jobs, {Signal(s), Lead(s)}) EXCEPT ![Llm] = "succeeded"]
  /\ analysis' = "completed"
  /\ UNCHANGED <<attempts, deliveryVars, effects, spent>>

\* The call fails: job_failure_handler, whatever the job's status is by now.
Fail(k) ==
  /\ rowLock = Nobody
  /\ Leave(k, "claimed")
  /\ jobs' = [jobs EXCEPT ![k] = RetryOrBury(attempts[k])]
  /\ UNCHANGED <<attempts, deliveryVars, resultVars, spent>>

\* RecordingUnavailable is not retried.
GiveUpRecording ==
  /\ rowLock = Nobody
  /\ Leave(Recording, "claimed")
  /\ jobs' = [jobs EXCEPT ![Recording] = "dead"]
  /\ UNCHANGED <<attempts, deliveryVars, resultVars, spent>>

WorkerDies(k) ==
  /\ \E p \in Phases : Leave(k, p)
  /\ Spend("crash")
  /\ UNCHANGED <<jobs, attempts, deliveryVars, resultVars>>

\* The lock of a worker that is gone times out.
Recover(k) ==
  /\ jobs[k] = "leased" /\ AtWork(k) = {}
  /\ jobs' = [jobs EXCEPT ![k] = "ready"]
  /\ UNCHANGED <<attempts, at, deliveryVars, resultVars, spent>>

\* The lock of a worker that is still at work times out.
Overrun(k) ==
  /\ jobs[k] = "leased" /\ AtWork(k) # {}
  /\ jobs' = [jobs EXCEPT ![k] = "ready"]
  /\ Spend("overrun")
  /\ UNCHANGED <<attempts, at, deliveryVars, resultVars>>

-----------------------------------------------------------------------------

DeliveryStep(d) ==
  \/ MarkEnded(d) \/ FindQueued(d) \/ FindAbsent(d) \/ Insert(d) \/ Collide(d)
  \/ DeliveryCrashes(d) \/ Redeliver(d)

JobStep(k) ==
  \/ Lease(k) \/ Call(k) \/ StillRunning(k) \/ NoLongerRunning(k) \/ Succeed(k)
  \/ Fail(k) \/ WorkerDies(k) \/ Recover(k) \/ Overrun(k)

Over == {"absent", "succeeded", "dead"}

\* Nothing is left to do.
Rest ==
  /\ \A k \in Keys : jobs[k] \in Over /\ AtWork(k) = {}
  /\ \A d \in Deliveries : dpc[d] \in {"done", "failed"}
  /\ UNCHANGED vars

Next ==
  \/ \E d \in Deliveries : DeliveryStep(d)
  \/ OrchestrateSucceeds \/ OrchestrateRaises
  \/ \E k \in WorkerKeys : JobStep(k)
  \/ Deny \/ GiveUpRecording
  \/ \E s \in Stages : Analyse(s)
  \/ Rest

Spec == Init /\ [][Next]_vars

\* Workers tick again and again and calls return, with success or without; the
\* recording worker alone is allowed to hang.  Nobody need deliver, and nothing that
\* Limits bounds need happen.
FairSpec ==
  /\ Spec
  /\ WF_vars(OrchestrateSucceeds \/ OrchestrateRaises)
  /\ \A k \in {Llm} \cup ResultKeys :
       /\ WF_vars(Lease(k)) /\ WF_vars(Call(k) \/ Fail(k))
       /\ WF_vars(StillRunning(k) \/ NoLongerRunning(k))
       /\ WF_vars(Succeed(k)) /\ WF_vars(Recover(k))
  /\ WF_vars(\E s \in Stages : Analyse(s))
  /\ \A d \in Deliveries :
       WF_vars(d \in Webhooks /\ (FindQueued(d) \/ FindAbsent(d) \/ Insert(d) \/ Collide(d)))

-----------------------------------------------------------------------------
(* Properties *)

\* Types of the tables and of the workers' places.
TypeOK ==
  /\ jobs \in [Keys -> {"absent", "ready", "leased", "succeeded", "dead"}]
  /\ attempts \in [Keys -> Nat]
  /\ at \in [Keys -> [Phases -> Nat]]
  /\ payload \in Payloads
  /\ dpc \in [Deliveries -> {"new", "marked", "inserting", "done", "failed"}]
  /\ rowLock \in Webhooks \cup {Nobody}
  /\ ended \in BOOLEAN
  /\ analysis \in {"none", "queued", "skipped", "completed"}
  /\ effects \in [ResultKeys -> Nat]
  /\ author \in Deliveries \cup {Nobody} /\ collided \subseteq Deliveries
  /\ spent \in [Events -> Nat]

\* An interaction is marked ended together with its durable job, whatever crashes:
\* the promise of the endpoint's docstring.
EndedIsQueued == ended => jobs[Orchestrate] # "absent"

\* Two webhooks never violate the unique key between them: the interaction's row
\* makes the second wait, and then it finds the job.  A webhook's insert fails only
\* on a job that a legacy task put in between.
WebhooksTakeTurns == collided \cap Webhooks # {} => author \in LegacyTasks

Outcomes(name) == {s \in AllStages : jobs[<<name, s>>] # "absent"}

\* However often deliveries and workers repeat, an interaction has one outcome: the
\* signal and the lead job of one stage, there when and only when the analysis is
\* completed or the call was short.  The keys of the result jobs alone do not give it,
\* as the stage is part of them: two workers that analyse the same call break it.
OneOutcome ==
  /\ Outcomes("signal") = Outcomes("lead") /\ Cardinality(Outcomes("signal")) <= 1
  /\ Outcomes("signal") # {} <=> (analysis \in {"completed", "skipped"})
  /\ analysis = "completed" <=> jobs[Llm] = "succeeded"
  /\ analysis = "skipped" => Outcomes("signal") = {"short_call"} /\ jobs[Llm] = "absent"

\* A result job that succeeded has had its effect: the signals of its stage are out, its
\* stage is on the lead, if the payload names one; and no effect, however often workers
\* die or outlive their leases, comes without a claim of that job to pay for it.
EffectsPrecedeSuccess ==
  \A s \in AllStages :
    /\ jobs[Signal(s)] = "succeeded" => effects[Signal(s)] > 0
    /\ jobs[Lead(s)] = "succeeded" /\ payload.lead => effects[Lead(s)] > 0
    /\ \A k \in {Signal(s), Lead(s)} : effects[k] <= attempts[k]

\* The analysis status the dashboard reads never goes back: neither a repeated
\* delivery nor a retried orchestration overwrites an outcome.
AnalysisMovesOn ==
  [][(analysis \in {"skipped", "completed"}) => analysis' = analysis]_vars

\* Once the job is queued the analysis path ends, recording or no recording.
AnalysisPathEnds ==
  jobs[Orchestrate] # "absent" ~>
    \/ jobs[Orchestrate] = "dead" \/ jobs[Llm] = "dead"
    \/ \E s \in AllStages : /\ jobs[Signal(s)] \in {"succeeded", "dead"}
                            /\ jobs[Lead(s)] \in {"succeeded", "dead"}
=============================================================================
