# A TLA+ model of the post-call processing pipeline

The pipeline takes a call-end webhook, stores a durable job in Postgres, and lets a pool of
workers turn that job into a recording upload, an LLM analysis, signals and a lead stage.
Postgres is the only coordinator: workers share the table `interaction_jobs` and the token
ledger `customer_token_usage`, and nothing else. Whether the pipeline is right is therefore a
question about transactions, row locks, lock timeouts and processes that die, and that is what
the modules here describe. Paths below are relative to the repository root.

## The system

| Component | State | Operations | Talks to | What makes it correct |
|---|---|---|---|---|
| Webhook endpoint (`src/api/endpoints.py`, `src/queues/durable.py`) | none of its own | end the interaction and queue its job in one transaction | interactions, job table, Celery nudge | an ended interaction always has its job; repeats change nothing |
| Legacy Celery task (`src/tasks/celery_tasks.py`) | none | queue the job, tick the orchestrator | job table | same job, whoever comes first |
| Job table (`src/repositories/jobs.py`) | `interaction_jobs`, `dead_letter_jobs` | `create_if_absent`, `claim_ready_jobs`, `recover_stale_running_jobs`, `mark_succeeded`, `defer`, `dead_letter` | every worker | one worker per job, ends are final and recorded, every job ends |
| Orchestrator (`src/orchestrator/workflow.py`) | batch transaction | recover stale locks, create the child jobs | job table, interactions, classifier | one outcome per interaction, recording and analysis independent |
| LLM worker (`src/llm_workers/worker.py`) | snapshots of its batch | recover, claim, reserve, call, record, queue result jobs | job table, ledger, provider | calls paid for by attempts and reservations |
| Recording worker (`src/recording/worker.py`) | snapshots | claim, poll once, store key | job table, Exotel | never holds up the analysis |
| Result worker (`src/workers/result_worker.py`) | snapshots | claim, dispatch signals or update the lead, mark | job table, leads | no success without its effect |
| Failure handler, retry policy (`src/workers/failure_handler.py`, `src/retries/policy.py`) | none | retry or dead-letter, append to the error log | job table, interactions | retries are bounded and all used |
| Token ledger, admission (`src/repositories/token_usage.py`, `src/rate_limiter/`) | one row per account and minute | `reserve`, `record_usage`, `decide` | LLM worker | limits hold, no lost update |
| Interaction and lead rows (`src/repositories/interactions.py`) | `status`, `interaction_metadata`, `error_log`, lead stage | partial updates | endpoint, orchestrator, workers | an outcome is never overwritten by an earlier stage |
| Classifier (`src/scheduler/classifier.py`) | none | priority of a call's jobs | orchestrator | an urgent call is not queued behind a casual one |
| LLM client, prompt, storage, audit log, metrics, security, circuit breaker, priority pressure | none that the workflow reads | | | not modelled, see the end |

What is hard here is concurrency without a coordinator. Status checks are made without row locks,
an UPDATE sends only the columns that changed against what the session had loaded, stale locks are
recovered by reading first and writing later, batches are worked off sequentially under one lock
stamp, effects and their bookkeeping sit in different transactions, rows that do not exist yet
cannot be locked, and one transaction may hold the work of several jobs. The entries under `hazards`
in `PROJECT.json` name each place and the properties that watch it.

## The modules

**The queue.** `JobRow` is one row of `interaction_jobs` and the writes the repository makes to it.
A write takes two rows, the one in the database and the one the session loaded, because that is how
SQLAlchemy flushes. Timestamps are abstracted to what the code compares them with: a lock stamp is
`null`, `fresh` or `expired`, `run_after` is `due` or `later`. `JobQueue` is the table with its
workers. The state of a worker is where it is in `run_once`; there is an action for each transaction,
and a read and a later write without a lock in between are two actions (`LoadStale` and `ClaimBatch`
for the recovery, `Load` and `Succeed`, `Retry` or `DeadLetter` for the outcome).

| Code | Action |
|---|---|
| SELECT of `recover_stale_running_jobs` | `LoadStale` |
| its UPDATE, `claim_ready_jobs`, admission and deferral, commit | `ClaimBatch` |
| the provider call, poll or dispatch | `CallExternal` |
| `job_repository.get` and the check of the status | `Load` |
| `mark_succeeded` and audit event; `defer`; `dead_letter` and its record | `Succeed`; `Retry`; `DeadLetter` |
| a process dies or an exception leaves `run_once` | `Crash` |
| `JOB_LOCK_TIMEOUT_SECONDS` pass, worker gone / still busy | `LockExpires` / `LockOverrun` |
| `run_after` is reached | `RunAfterPasses` |

`JobLifecycle` is what the queue promises: a free job is leased to one worker, who releases it or
ends it, once. `JobQueueRefinement` maps the queue to it (holder = the worker that has the job in
memory, outcome = the terminal status, records = audit events plus dead letters).

**The ledger.** `TokenBudget` has one row per account and minute, where the platform is an account
like the customers. A claim transaction drafts the rows it has locked (`draft`), a commit overlays
them on the committed ones (`ledger`). Both reservation and record read the platform's row FOR UPDATE
first, so it is the lock on its minute. The query and what follows the lock are two actions
(`SelectForReserve`/`Reserve`, `SelectForRecord`/`Record`): in between the rows of a new minute may
appear, and the INSERT fails (`Abort`). `granted`, `load` and `successes` are history: what was committed,
what the provider was sent, and the successes that were written. Recovery goes by the age of a job's lock, so a job may
be claimed again while its worker is calling or recording (`Overrun`): the check of the status (`FindRunning`, `FindOver`) and
the record behind it are apart, two workers can both record, and a failure can undo a success. A record that finds its
job claimed again holds the minute and waits for the row (`WaitForRow`), which can end in a deadlock.

**The workflow.** `PostCallWorkflow` follows one interaction: deliveries (webhooks and legacy tasks)
racing for its first job, the orchestrator's children, and the LLM, recording and result workers up
to the last effect. A job is known by its idempotency key. A webhook's UPDATE of the interaction,
flushed by the query after it, locks that row until the commit (`rowLock`); every transaction that
updates the interaction waits for it. How claims and locks work in detail is left to `JobQueue`:
here a job is leased, and a worker that outlives its lease goes on all the same (`Overrun`). The check of
the status and the write behind it are again two actions (`StillRunning`; `Succeed`, `Analyse`). `effects` counts
per result job what its calls did; a lead job has no effect if the payload names a lead that does not exist,
since `update_lead_stage` then returns silently and the job succeeds all the same (`Effective`).

`CallOutcome` is what the pipeline promises for one call: a queued call gets one stage or is given up,
and a stage has two results, each applied before it counts as done, unless it is void, with nothing to be
applied to. `PostCallOutcome` maps the workflow to it (the stage is the one in the keys of the result jobs, a
result is void if its lead does not exist).

**The interaction's row.** `InteractionRow` has the columns the webhook and all jobs write, dictionaries
and lists included. Every writer is two steps, `Load` (or `Receive`) and a write of the columns that differ from
what it loaded (`Flush`); anything may come in between.

**Shared transactions.** `OrchestratorBatch` has several interactions and orchestrators whose tick is one
transaction: an exception in one job is caught (`Raise`) and committed with the others, an error of the
database takes the batch with it (`Rollback`). `todo` is the loop over the batch.

**The order of the claims.** `AdmissionScheduler` takes the policy (`AdmissionPolicy`, which `TokenBudget` also
uses) and the priorities (`Classifier`) and lets them run for ever: finished HIGH jobs come again as new ones, the
counters start again with each minute. A claim transaction is many steps, and those of several workers interleave: `Claim` is the
query (`Before` its ORDER BY, where `older` stands for `created_at`; `Batch` its LIMIT; what others hold it skips), then the
loop comes to one job after the other (`NextUp`), takes the rows of the minute it is by then (`Consult`; `locker` has them until
its transaction ends, `draft` is what it sees) and lets the job through or defers it (`Admit`, `Refuse`), then `Commit`. `NextMinute` may come
between any two of them. What was refused is `deferred` from then on, and is ready again when its second is up (`Due`): in between,
other jobs find fresh counters. `Raise` rolls a claim back since the job the loop has come to has a budget that `int()` refuses,
`Fail` since the worker dies or loses the race for a minute's rows.

**Row locks.** `RowLocks` has the transactions of orchestrators, LLM, recording and result workers as
lists of rows of three tables to lock (`todo`), and who holds which (`holder`). The claim query skips
locked rows, an UPDATE waits (`Recover` is the UPDATE of a recovery). A success locks what it writes in the order of the code; a failure writes
the interaction and the job row in one flush, in either order, whatever the worker (`Program`). An orchestration commits
its children with its success, and its recording job also with a retry (`CommitOrchestration`), so that orchestrators and
closing workers contend for the interaction. A deadlock is a circle of transactions, from which Postgres aborts one (`Abort`).

| Code | Where |
|---|---|
| `mark_ended`, `mark_processing`, `update_analysis_result`, `mark_short_call`, `update_recording_key`, `append_error` | writes of `InteractionRow` |
| `run_once`, `_process_job` of the orchestrator | `Claim`, `Orchestrate`, `Raise`, `Commit`, `Rollback` of `OrchestratorBatch` |
| `_claim_admitted_jobs` over a batch in `ORDER BY priority, created_at` | `Claim`, `Admit`, `Refuse`, `Commit`, `Raise` of `AdmissionScheduler` |
| `minute_window`; `_seconds_to_next_window` | `NextMinute`; `Due` of `AdmissionScheduler` |
| `BudgetAdmissionPolicy.decide` | `Admits` of `AdmissionPolicy` |
| `InteractionClassifier.classify` | `Classify` of `Classifier` |

A module whose name begins with MC gives the constants of another their values for TLC.
Operators marked "Mutant" in the modules are plausible bugs of the definition that follows them;
replacing the definition by its mutant must break the property named in `PROJECT.json`.

## What the runs check

| Run | Instance | Result |
|---|---|---|
| `JobQueueSafe` | 2 jobs, 3 workers of which 1 recovers, batches of 2, 2 attempts, 2 crashes, 1 deferral, no overrun | `SafeInv` (the inductive invariant of the proofs), `Exclusive`, `EveryCallPaidFor`, `CallsBounded`, `TerminalIsFinal`, `RetriesSpent`, and `ImplementsLifecycle` |
| `JobQueueRace` | 1 job, 2 workers that both recover, 1 crash, 2 overruns, 1 deferral, with fairness | `TypeOK`, `OutcomeRecorded`, `EveryJobEnds` |
| `TokenLedger` | 2 customers with a job each, 2 workers, batches of 2, 2 minutes, 3 tokens and 2 requests a minute, 1 failing call, 1 crash, 1 overrun, with fairness | the ledger is the sum of the committed grants and counts every success, is within the limits, never shrinks, overflow is for HIGH jobs, a transaction locks minutes in their order, and every transaction ends |
| `WorkflowDeliveries` | 2 webhooks and the legacy task, a call to analyse, of a lead or of none, 1 crash, 1 repeat, 1 denial, 1 overrun, 1 attempt | `EndedIsQueued`, `WebhooksTakeTurns`, `EffectsPrecedeSuccess`, `AnalysisMovesOn` |
| `WorkflowOutcome` | the legacy task, eight kinds of payload, 2 stages, 2 attempts, 1 crash, 1 repeat, with fairness | `OneOutcome`, `AnalysisPathEnds`, and `ImplementsOutcome`, liveness included |
| `InteractionColumns` | one webhook sent again and again, all five kinds of jobs, 2 attempts, 1 crash | `DashboardAgrees`, `ErrorLogHonest` |
| `BatchShared` | 4 interactions (2 sound payloads, one that raises early, one late), 2 orchestrators, batches of 2, 2 rollbacks, with fairness | `AttemptsAreOwn`, `DeadForOwnErrors`, `ChildrenWithOutcome`, `EveryJobEnds` |
| `SchedulerShares` | 2 recurring HIGH jobs, a LOW one of another customer, one that cannot be read; 2 workers, batches of 2, at least 1 tick a minute, 1 failure, with fairness | `RefusalsStand`, `NoOvertaking`, `UrgentFirst`, `OthersContinueIfNotCrowded` |
| `LocksLate` | 1 interaction, an LLM worker and an orchestrator that both recover, a recording and a result worker, batches of 1, 1 crash, 1 overrun | `DeadlockIsOverOneJob`: where jobs are exclusive there is no deadlock |

Three runs end in a violation, each of something the repository says of itself; `findings` in
`PROJECT.json` quotes the lines.

| Run | What goes wrong |
|---|---|
| `JobQueueStranded` | three workers that recover and claim, which is a role scaled out: they read the same expired lock, two of them have the job at once, and their writes leave its row RUNNING with `locked_at` NULL. Recovery never looks there, so if its worker dies the job never ends |
| `TokenLoad` | calls reserved in one minute are made in the next, on top of that minute's own |
| `SchedulerUnreadable` | one payload with a budget that is no number rolls back every claim it is part of: it is never dead-lettered, and the jobs that share its batch, other customers' too, wait for ever |

More can be seen with other constants in the same configurations:

- `TerminalIsFinal` fails in `JobQueueSafe` with `MaxOverruns = 1`: a call that fails after its lock expired takes
  a job out of its final status, as failure handlers do not look at the status.
- `Exclusive` fails in `JobQueueSafe` with two recoverers, without any overrun: both read the expired lock of a dead
  worker, one claims, and the UPDATE of the other undoes the claim and takes the job again.
- `NoJobStranded` fails also with two workers that ask for the job and a third that only recovers. One process
  per role is safe from it (`SmallCrewsStrandNothing` below), and scaling a role out is not. `EveryJobEnds` is
  checked for two workers, and fails wherever a row is stranded and its worker dies.
- Deferrals count as attempts (`Deniable`, `MaxDenials`): with one deferral a job of two attempts is
  dead-lettered after one call. `RetriesSpent` counts them.
- `OneOutcome` fails in `WorkflowOutcome` with one overrun (`Limits <- OneOfEach`): two workers that analyse the same call queue result
  jobs for two stages, since the stage is in the idempotency key.
- `OthersContinue` also fails without any unreadable payload, in `SchedulerShares` with `Jobs = {high1, high2, low1}` and `Unreadable = {}`: the
  HIGH jobs of the noisy customer come again as fast as they are served and fill every batch, and the quiet
  customer's LOW job is never claimed, though its budget is untouched. Jobs that ask for more than their customer's
  budget do the same: they are deferred for ever, and attempts count no limit until a call fails. So
  "a noisy customer over budget is deferred while other customers can continue" (SUBMISSION.md:61) is true of a job only if not
  always a full batch is ahead of it, and no unreadable one is (`OthersContinueIfNotCrowded`).
- Across minutes a younger job may be admitted past a deferred one: the counters start again with the minute, the
  deferred job is due up to a second later (token_usage.py:176-178). And a job another worker holds may be passed. `NoOvertaking`
  says what is left: within a minute, within a batch, and at the query.

The models also show where the repository contradicts itself elsewhere, or is silent:

- "already booked" is one of the LOW keywords (classifier.py:35), and `tests/fixtures/sample_transcripts.json:69-82` ("I already booked it
  through your website") and SUBMISSION.md:69 ("already done") expect such a call to be of low value; but it contains the HIGH keyword
  "booked", which is looked for first, so the call is HIGH (`Classifier`, `Inside`).
- "Every retry and terminal failure writes an audit event" (SUBMISSION.md:82, of recordings); the recovery of a
  stale lock, which is what retries the job of a dead worker, writes neither an audit event nor an error log entry (jobs.py:133-139).
- A repeated webhook that first brings the `call_sid` does not get its recording fetched (`InteractionRow`, `EndInteraction`); no line
  says that it should.

**A safe deployment.** The violation of the queue has two causes: more than one process that recovers stale
locks, and batches that outlive their lock. `SafeDeployment` in `JobQueue` excludes just these:
`MaxOverruns = 0` and at most one recoverer, say the LLM tick scheduled as one process, with any
number of other workers, crashes and deferrals. `JobQueueSafe` checks what then holds, and the
theorems prove it for every size. `JobQueueRace` checks what survives without it, for two recoverers. The
deployment the repository ships does not enforce either condition. `OneOutcome` and the refinement of
`CallOutcome` need the second one only. The ledger needs neither: `TokenLedger` has a job that outlives its lock.

**Bounds.** `MaxCrashes`, `MaxRollbacks`, `MaxOverruns`, `MaxDenials`, `MaxFailures` and `Limits` bound the events of
the environment, `LastMinute` the clock. Each bound lets its event hit every step: one crash in every phase of
a tick, with another worker in every phase of its own. Two jobs are needed for batches in which one
waits while the other is called; two workers for every race but the stranded row, which needs three.
Two attempts give each retry decision both answers. In `TokenLedger` a job of 1 token within a budget of 1, and a HIGH one of 2 against
the same, with a limit of 3 tokens and 2 requests, are the smallest for which the platform's
limits, the customer's budget and overflow each decide, repeated claims included. Two minutes are
enough for a call to fall into another minute than its reservation and for new rows to be raced for; one overrun is enough for two
workers to close one job in every order.
`WorkflowDeliveries` gives the races of deliveries and overruns, and one attempt keeps it small;
`WorkflowOutcome` gives retries and the payloads, and its delivery is the legacy task, the one that takes malformed
payloads too. `AdmissionScheduler` has no bounded clock: a minute lasts for `TicksPerMinute` ticks at least and for as many more as
like, and a finished recurring job is the next call's. Its 4 tokens a minute against
estimates of 1 stand for 90000 against some thousands: overflow ends at 3, which is 70% of 4, and leaves
room for one job within its budget. Batches of 2 with two HIGH jobs that come again are full for ever if the calls come fast enough, so that
`OthersContinueIfNotCrowded` has crowded and uncrowded behaviours to tell apart; with one tick a minute a minute may end inside
any claim, and a deferred job may come late to any later one. `MaxFailures` bounds the failed calls that are retried and the claims
that fail. In `InteractionColumns` one
webhook that is repeated at any time gives every stale copy that several would. Batches of 2 out of 4 interactions in `BatchShared`
let each kind of failure share a transaction with each other. `LocksLate` has one worker of each kind, with which every pair of transactions
meets but two of the same kind; any number of these is in the proof.

**Deadlock.** It is checked wherever the system goes on for ever; `Rest` marks the states in which
nothing is left to do. `TokenBudget` has a last minute and its jobs end, so it really stops there, and
its runs switch the check off; that no transaction waits for ever is `TransactionsEnd` and `LocksInOrder`.

**Fairness.** README.md:64-65 has the ticks "scheduled repeatedly", and an asyncio tick runs on until
it ends: each worker's step is weakly fair, in `PostCallWorkflow` each job's next step, in
`OrchestratorBatch` claim, loop and commit, in `AdmissionScheduler` claim, commit and exception of each worker. A transaction that
waits for a row queues for it, and gets it when its turn comes, so the steps that wait for a row others take again and again are
strongly fair: the decision of a claim in `AdmissionScheduler`, the record in `TokenBudget`. Time
passes, so lock expiry, `run_after` and the minutes are weakly fair. Nothing forces a crash, a rollback, an overrun, a
denial, a failing call or a delivery. In `PostCallWorkflow` the recording has no fairness at all, so
`AnalysisPathEnds` says that a recording that hangs for ever holds up nothing (SUBMISSION.md:12). Provider
calls do return: the recording client has a timeout, and a call that never came back would be an overrun.
`CallOutcome` asks only that a queued call is concluded and its results settled.

## What is proved

All proofs are checked by TLAPS for every value of the constants, from the constants' assumptions
(`JobQueueAssumption`, `MaxAttemptsAssumption`, `NobodyAssumption`, `TokenBudgetAssumption`, `PostCallWorkflowAssumption`,
`OrchestratorBatchAssumption`, `InteractionRowAssumption`, `AdmissionSchedulerAssumption`, `RowLocksAssumption`)
alone, except where `SafeDeployment`, `SmallCrews`, `SafeLocks` (`SafeDeployment` for `RowLocks`) or the absence of
overruns (`Limits["overrun"] = 0`) is named. Three of the assumptions ask for finite sets: the jobs of `JobQueue`, the jobs and workers of `TokenBudget`, the
interactions of `RowLocks`. Every safety invariant and action property that a passing run checks is stated by one of the
theorems, some of them under one of these conditions.

- `JobQueueProofs`: `TypeCorrect` and `EndsAreRecorded`, in every deployment. The second is inductive
  together with the type: only `Succeed` and `DeadLetter` write a terminal status, each with its record,
  and a flush that leaves the status alone leaves one that already has its record. Under `SafeDeployment`:
  `SafeDeploymentInvariant`, and from it
  `OneWorkerPerJob`, `CallsArePaidFor`, `CallsStayBounded`, `EndsAreFinal`, `RetriesAreSpent` and `NoneStranded`. One worker
  per job is not inductive: it needs that what a worker holds is RUNNING under a lock that has not expired (`HoldersRun`), so
  that no claim or recovery can see it; that needs the copy a session loaded to be still what the table
  holds (`CopiesCurrent`), since otherwise a flush writes half a row; and that in turn needs exclusion.
  `OneRecord`, `CallBudget` and `AttemptsSpent` account for ends, calls and attempts. `QueueImplementsLifecycle`:
  initial states map to initial states, and under
  `SafeInv` each action is a lease of the batch, a release, an end, or a stutter. `SmallCrewsStrandNothing` is about the
  deployments that are not safe, with any overruns and recoverers: one worker asks for each job, or two workers at most may have it
  (`SmallCrews`). With one taker (`LoneInv`) nobody claims the job while its worker closes it. With two (`PairInv`) a late writer may end a row and leave the
  other's stamp on it; but then the other alone has the job, and nothing becomes RUNNING between its load and its write.
- `TokenLedgerProofs`: `TypeCorrect`; `ReservationsStayWithinLimits`, `BudgetsHoldWithoutHigh` and
  `ReservationsAreNeverLost`, from the
  invariant that the drafts of two transactions never share a minute, that a draft is itself
  within limits and budgets, and that it extends the committed row it will replace. `LocksAreOrdered` adds
  that what a transaction has locked or selected is no later than the clock (`LocksPast`); with
  exclusive drafts it gives `NoCircularWait`: along any chain of waiting reservations the minutes grow.
- `TokenAccountProofs`: `GrantsAreCharged`, `SuccessesAreCounted` and `CallsAreReserved`. Each compares a sum kept in rows with
  one over history. A draft is what is committed and, of grants, those of its own transaction (`DraftsCharged`, `DraftsUsed`), so
  that committing it adds these once. A usage counter is the sum of the successes written, since record and success are one
  transaction that has the minute locked; that without an overrun a job has one success needs that no two workers are at one job, and that a job
  some worker is at is still RUNNING (`JobsApart`). What the provider was sent by the end of a minute and what is still owed a call
  cost no more than the grants by then (`Covers`), since a call is made in no earlier minute than its grant. The sums
  are folds over sets; the first part of the
  module proves that the folds exist, that the order does not matter, and how they change with a function and with its domain.
- `AdmissionSchedulerProofs`: `TypeCorrect`, `DeferralsHold`, `NobodyOvertakes` and `UrgentCallsFirst`, for any number of workers. Priority and age order
  the ready jobs, so a claim of one of them claims whatever comes before it and is in no other claim (`ClaimsFromTheHead`), and the loop comes to
  it first. Jobs that do not fit are skipped, so that is not enough: what the limiter admits under larger counters it admits under
  smaller ones, with anything that asks for no more (`AdmitsEasier`). `SchedulerInv` says that what is committed is no more than
  what the worker who has the rows sees (`Grown`), and that a refusal in an open claim is that worker's (`LockerRefused`). Hence refusals stand when other
  claims are committed, and also when the claim of the refusal or another one is rolled back (`RefusalsStand`), until the minute ends. A
  job admitted past an older, refused one that asks for no more would contradict them.
- `RowLocksProofs`: `TypeCorrect`; `DeadlocksAreOverOneJob`, result workers' failures and retried orchestrations included. The invariant (`LockInv`) says for each kind of transaction what it may hold and
  what it has yet to lock. From it: in a circle in which no two workers have the same job, nobody waits for anything but
  a stale row that a recovery has updated; and recoveries update in the order of the keys, so they close no circle.
  `SafeDeploymentsDoNotDeadlock`: under `SafeLocks` no two workers have the same job, so there is no circle at all.
- `PostCallWorkflowProofs`: `TypeCorrect`, `EndedInteractionsAreQueued`, `WebhooksSerialise`, `EffectsComeFirst`
  and `AnalysisOnlyMovesOn` in every deployment, overruns included. `DeliveryInv` ties the row lock to where
  a webhook is in its transaction, so that a webhook that found no job can only lose it to a legacy task; `EffectInv` says that
  whoever is past the call of a result job has left that job's effect, if there was a lead to have it, and counts each effect against a claim of its own; `AnalysisInv`
  says that nobody works on a job that is not there, and what the analysis can be before the orchestrator is through. Without
  overruns: `OutcomeIsOne`, for which `OutcomeInv` adds that one worker has a
  job, hence that the LLM job is answered once; and `WorkflowImplementsOutcome`, the safety part of `CallOutcome`: every
  action is `Queue`, `Decide`, `GiveUp`, `Apply`, `Settle` or a stutter. Its fairness is checked by `WorkflowOutcome`.
- `OrchestratorBatchProofs`: `TypeCorrect`, `NobodyPaysForAnother`, `NobodyDiesForAnother`, `ChildrenComeWithOutcome` and
  `BatchesStayApart`, for any number of rollbacks. The invariant (`BatchInv`) says of the
  rows of a draft what the properties say of a committed one (`Settled`) where the loop is through with the job, and
  that one attempt is open (`Open`) where it is not.
- `InteractionRowProofs`: `TypeCorrect`, `RowAgreesWithJobs` and `ErrorLogIsHonest`, for any number of webhooks. A flush sends
  what differs from a copy that may be old, so the properties are not inductive: no copy may be ahead of
  the row in a column that moves one way, and whoever may write the metadata (the orchestrator while its job is ready,
  the LLM worker while its job runs) must have the current ones (`CopiesInv`).

Where an argument is an induction (over the size of a set, or along a circle) it takes the least counterexample: the set of
the numbers for which a statement fails has a least element if it has any (`LeastNumber`), and there it holds after all. The library's
induction theorems, which take the statement as a parameter, are beyond the installed provers.

**Only model-checked.** Liveness (`EveryJobEnds`, `TransactionsEnd`, `AnalysisPathEnds`, `OthersContinueIfNotCrowded`) is out of the
prover's reach, as is everything about fairness and ENABLED, the fairness of `CallOutcome` in `ImplementsOutcome` included.
Beyond the deployments the theorems name, `TerminalIsFinal`, `NoJobStranded` and `OneOutcome` fail, as said above.

## What is not modelled

- Provider I/O and text (`src/llm/`, the prompt, `src/recording/storage.py`): the models take the answers as
  external choices and the estimate as a constant.
- The audit log and metrics, which the program never reads back; webhook signatures and PII redaction, which
  have no state; configuration, wiring and schema.
- `src/services/circuit_breaker.py` and `src/scheduler/priority.py`: nothing calls them, so in which order their
  operations come cannot be told from the code.
- The Celery nudge: ticks are scheduled without it. Broker routing is configuration.
- The length of a retry delay: a delay passes, sooner or later.
- In `TokenBudget` a failed call is always retried (how retries end is in `JobQueue`), and actual usage equals the
  estimate, since no decision reads it. In `AdmissionScheduler` one lock and one table of counters stand for the minute's two rows of
  a claim, and what is recorded after the calls is left to `TokenBudget`. In `RowLocks` the ledger is one row (its minutes are in
  `TokenBudget`), and three transactions are left out, as no circle can pass through them: the legacy task's and the update of
  a lead's stage hold nothing while they wait, and the webhook's waits only for a legacy task that waits for nobody.

## Plan

Done: the queue, its refinement and proofs; the ledger, its accounts and proofs; the workflow, its refinement of
`CallOutcome` and the proofs of both; the interaction's row; shared batches; the scheduler and its order; row locks and deadlocks.

Left, in order of importance:

1. Two interactions of one lead, whose lead jobs overwrite each other's stage.
2. The retry policy's backoff as an operator checked against a reference definition.
