------------------------------ MODULE JobQueue ------------------------------
(***************************************************************************)
(* The durable job queue: the interaction_jobs table, and the workers that *)
(* share it (LLM, recording and result workers, and the orchestrator in    *)
(* its role of recovering the others' rows).                               *)
(*                                                                         *)
(* A worker tick (run_once) is a sequence of database transactions with    *)
(* slow external calls in between:                                         *)
(*                                                                         *)
(*   idle -> [recovering] -> working -> answered -> loaded -> working ...  *)
(*                                                                         *)
(*   recovering  the SELECT of recover_stale_running_jobs has returned; it *)
(*               takes no lock, its UPDATE comes later in the transaction  *)
(*   working     a batch is claimed and committed; the worker takes its    *)
(*               jobs one after the other                                  *)
(*   answered    the external call for the job `cur` is over               *)
(*   loaded      the closing transaction has read the row (again without a *)
(*               lock) and has not written it yet                          *)
(*                                                                         *)
(* Everything another worker may do between two of these steps is an       *)
(* interleaving here.  A crash loses a worker's memory, never the table.   *)
(***************************************************************************)
EXTENDS JobRow, Sequences, FiniteSets

CONSTANTS Jobs,          \* rows of interaction_jobs
          Workers,       \* worker processes
          Recoverers,    \* the workers whose tick begins with stale-lock recovery
          NoJob,         \* not a job
          Takes,         \* the jobs whose job_type a worker asks for
          BatchLimit,    \* LIMIT of the claim query
          Deniable,      \* the jobs the rate limiter may turn away (LLM_ANALYSIS)
          MaxCrashes, MaxOverruns, MaxDenials    \* bounds of the environment

ASSUME JobQueueAssumption ==
  /\ IsFiniteSet(Jobs)
  /\ NoJob \notin Jobs
  /\ Recoverers \subseteq Workers
  /\ Takes \in [Workers -> SUBSET Jobs]
  /\ BatchLimit \in Nat \ {0}
  /\ Deniable \subseteq Jobs
  /\ MaxCrashes \in Nat /\ MaxOverruns \in Nat /\ MaxDenials \in Nat

VARIABLES
  rows,         \* interaction_jobs
  deadLetters,  \* dead_letter_jobs rows per original_job_id
  succeeded,    \* number of "succeeded" audit events per job
  calls,        \* number of external calls made for a job (history)
  pc,           \* where a worker is in its tick
  found,        \* rows its recovery SELECT returned, as they were then
  held,         \* claimed jobs it has not started yet
  cur,          \* the job it is processing
  answer,       \* how the external call for cur ended
  copy,         \* cur's row as the closing transaction loaded it
  crashes, overruns, denials

dbVars     == <<rows, deadLetters, succeeded>>
workerVars == <<pc, found, held, cur, answer, copy>>
envVars    == <<crashes, overruns, denials>>
vars       == <<dbVars, calls, workerVars, envVars>>

NoRows == [j \in {} |-> NewRow]

Answers == {"ok", "retryable", "permanent"}

Init ==
  /\ rows = [j \in Jobs |-> NewRow]
  /\ deadLetters = [j \in Jobs |-> 0]
  /\ succeeded = [j \in Jobs |-> 0]
  /\ calls = [j \in Jobs |-> 0]
  /\ pc = [w \in Workers |-> "idle"]
  /\ found = [w \in Workers |-> NoRows]
  /\ held = [w \in Workers |-> {}]
  /\ cur = [w \in Workers |-> NoJob]
  /\ answer = [w \in Workers |-> "ok"]
  /\ copy = [w \in Workers |-> NewRow]
  /\ crashes = 0 /\ overruns = 0 /\ denials = 0

-----------------------------------------------------------------------------
(* The claim transaction *)

\* SELECT of recover_stale_running_jobs: every RUNNING row past the timeout.
LoadStale(w) ==
  /\ pc[w] = "idle" /\ w \in Recoverers
  /\ pc' = [pc EXCEPT ![w] = "recovering"]
  /\ found' = [found EXCEPT ![w] = [j \in {i \in Jobs : Stale(rows[i])} |-> rows[j]]]
  /\ UNCHANGED <<dbVars, calls, held, cur, answer, copy, envVars>>

\* The table after the recovery UPDATE, inside the transaction of w.
AfterRecovery(w) ==
  [j \in Jobs |-> IF j \in DOMAIN found[w] THEN WriteRecovered(rows[j], found[w][j])
                                          ELSE rows[j]]

\* What the session of w believes the row to be when it claims it.  The claim
\* query locks and reads the row, but does not refresh one the session knows.
SessionCopy(w, j) ==
  IF j \in DOMAIN found[w] THEN Recovered(found[w][j]) ELSE rows[j]

Claimable(w) == {j \in Takes[w] : Ready(AfterRecovery(w)[j])}

\* SKIP LOCKED may hide any of the ready rows, so the batch is any of them, and
\* empty only when there is nothing to claim.
Batches(w) ==
  {S \in SUBSET Claimable(w) :
     Cardinality(S) <= BatchLimit /\ (S = {} => Claimable(w) = {})}

\* The table after the claim of a batch, of which the rate limiter denied some.
AfterClaim(w, batch, denied) ==
  [j \in Jobs |->
     LET recovered == AfterRecovery(w)[j]
         claimed   == WriteClaimed(recovered, SessionCopy(w, j))
     IN  IF j \in denied THEN WriteDeferred(claimed, Claimed(SessionCopy(w, j)))
         ELSE IF j \in batch THEN claimed
         ELSE recovered]

\* UPDATE of the recovery, claim of a batch, admission of its jobs by the rate
\* limiter, deferral of the denied ones, commit.
Claim(w, batch, denied) ==
  /\ denials' = denials + Cardinality(denied)
  /\ rows' = AfterClaim(w, batch, denied)
  /\ held' = [held EXCEPT ![w] = batch \ denied]
  /\ pc' = [pc EXCEPT ![w] = IF batch \ denied = {} THEN "idle" ELSE "working"]
  /\ found' = [found EXCEPT ![w] = NoRows]
  /\ UNCHANGED <<deadLetters, succeeded, calls, cur, answer, copy, crashes, overruns>>

ClaimBatch(w) ==
  /\ pc[w] = IF w \in Recoverers THEN "recovering" ELSE "idle"
  /\ \E batch \in Batches(w) : \E denied \in SUBSET (batch \cap Deniable) :
       denials + Cardinality(denied) <= MaxDenials /\ Claim(w, batch, denied)

-----------------------------------------------------------------------------
(* Processing one claimed job *)

\* The provider call, made outside every transaction.
CallExternal(w) ==
  /\ pc[w] = "working"
  /\ \E j \in held[w], a \in Answers :
       /\ held' = [held EXCEPT ![w] = @ \ {j}]
       /\ cur' = [cur EXCEPT ![w] = j]
       /\ answer' = [answer EXCEPT ![w] = a]
       /\ calls' = [calls EXCEPT ![j] = @ + 1]
  /\ pc' = [pc EXCEPT ![w] = "answered"]
  /\ UNCHANGED <<dbVars, found, copy, envVars>>

\* The worker forgets cur: on to its next job, or the tick is over.
NextJob(w) ==
  /\ pc' = [pc EXCEPT ![w] = IF held[w] = {} THEN "idle" ELSE "working"]
  /\ cur' = [cur EXCEPT ![w] = NoJob]
  /\ answer' = [answer EXCEPT ![w] = "ok"]
  /\ copy' = [copy EXCEPT ![w] = NewRow]

\* job_repository.get in the closing transaction.  Only the success path looks
\* at the status; the failure handlers go on whatever it is.
Load(w) ==
  /\ pc[w] = "answered"
  /\ IF answer[w] = "ok" /\ rows[cur[w]].status # "RUNNING"
       THEN NextJob(w)
       ELSE /\ pc' = [pc EXCEPT ![w] = "loaded"]
            /\ copy' = [copy EXCEPT ![w] = rows[cur[w]]]
            /\ UNCHANGED <<cur, answer>>
  /\ UNCHANGED <<dbVars, calls, found, held, envVars>>

\* mark_succeeded, the audit event, commit.
Succeed(w) ==
  /\ pc[w] = "loaded" /\ answer[w] = "ok"
  /\ rows' = [rows EXCEPT ![cur[w]] = WriteSucceeded(@, copy[w])]
  /\ succeeded' = [succeeded EXCEPT ![cur[w]] = @ + 1]
  /\ NextJob(w)
  /\ UNCHANGED <<deadLetters, calls, found, held, envVars>>

\* JobFailureHandler.handle when the retry policy grants another attempt.
Retry(w) ==
  /\ pc[w] = "loaded" /\ answer[w] = "retryable" /\ ShouldRetry(copy[w])
  /\ rows' = [rows EXCEPT ![cur[w]] = WriteDeferred(@, copy[w])]
  /\ NextJob(w)
  /\ UNCHANGED <<deadLetters, succeeded, calls, found, held, envVars>>

\* Mutant: the row without its record.
DeadLetterUnrecorded(w) ==
  /\ pc[w] = "loaded"
  /\ \/ answer[w] = "permanent"
     \/ answer[w] = "retryable" /\ ~ShouldRetry(copy[w])
  /\ rows' = [rows EXCEPT ![cur[w]] = WriteDeadLettered(@, copy[w])]
  /\ NextJob(w)
  /\ UNCHANGED <<deadLetters, succeeded, calls, found, held, envVars>>

\* JobFailureHandler.handle otherwise: the row and its dead_letter_jobs record.
DeadLetter(w) ==
  /\ pc[w] = "loaded"
  /\ \/ answer[w] = "permanent"
     \/ answer[w] = "retryable" /\ ~ShouldRetry(copy[w])
  /\ rows' = [rows EXCEPT ![cur[w]] = WriteDeadLettered(@, copy[w])]
  /\ deadLetters' = [deadLetters EXCEPT ![cur[w]] = @ + 1]
  /\ NextJob(w)
  /\ UNCHANGED <<succeeded, calls, found, held, envVars>>

-----------------------------------------------------------------------------
(* The environment *)

\* A process dies, or an exception leaves run_once: an open transaction rolls
\* back and the jobs of the batch keep the rows the claim committed.
Crash(w) ==
  /\ pc[w] # "idle" /\ crashes < MaxCrashes
  /\ crashes' = crashes + 1
  /\ pc' = [pc EXCEPT ![w] = "idle"]
  /\ found' = [found EXCEPT ![w] = NoRows]
  /\ held' = [held EXCEPT ![w] = {}]
  /\ cur' = [cur EXCEPT ![w] = NoJob]
  /\ answer' = [answer EXCEPT ![w] = "ok"]
  /\ copy' = [copy EXCEPT ![w] = NewRow]
  /\ UNCHANGED <<dbVars, calls, overruns, denials>>

Mine(w) == held[w] \cup ({cur[w]} \ {NoJob})

Owned(j) == \E w \in Workers : j \in Mine(w)

\* JOB_LOCK_TIMEOUT_SECONDS pass since the claim.
Expire(j) ==
  /\ rows[j].status = "RUNNING" /\ rows[j].lockedAt = "fresh"
  /\ rows' = [rows EXCEPT ![j].lockedAt = "expired"]
  /\ UNCHANGED <<deadLetters, succeeded, calls, workerVars, crashes, denials>>

\* ... and its worker is gone,
LockExpires(j) == ~Owned(j) /\ Expire(j) /\ UNCHANGED overruns

\* ... or still busy with it, or with the jobs it took before it.
LockOverrun(j) ==
  Owned(j) /\ overruns < MaxOverruns /\ Expire(j) /\ overruns' = overruns + 1

\* run_after is reached.
RunAfterPasses(j) ==
  /\ rows[j].runAfter = "later"
  /\ rows' = [rows EXCEPT ![j].runAfter = "due"]
  /\ UNCHANGED <<deadLetters, succeeded, calls, workerVars, envVars>>

WorkerStep(w) ==
  \/ LoadStale(w) \/ ClaimBatch(w) \/ CallExternal(w)
  \/ Load(w) \/ Succeed(w) \/ Retry(w) \/ DeadLetter(w)

ClockStep(j) == LockExpires(j) \/ RunAfterPasses(j)

Next ==
  \/ \E w \in Workers : WorkerStep(w) \/ Crash(w)
  \/ \E j \in Jobs : ClockStep(j) \/ LockOverrun(j)

\* Ticks are scheduled again and again and time passes; nothing forces a crash
\* or an overrun.
Fairness ==
  /\ \A w \in Workers : WF_vars(WorkerStep(w))
  /\ \A j \in Jobs : WF_vars(ClockStep(j))

Spec == Init /\ [][Next]_vars

FairSpec == Spec /\ Fairness

-----------------------------------------------------------------------------
(* Properties *)

\* Every variable keeps its type.
TypeOK ==
  /\ rows \in [Jobs -> Row]
  /\ deadLetters \in [Jobs -> Nat] /\ succeeded \in [Jobs -> Nat]
  /\ calls \in [Jobs -> Nat]
  /\ pc \in [Workers -> {"idle", "recovering", "working", "answered", "loaded"}]
  /\ DOMAIN found = Workers
  /\ \A w \in Workers : /\ DOMAIN found[w] \subseteq Jobs
                        /\ found[w] \in [DOMAIN found[w] -> Row]
  /\ held \in [Workers -> SUBSET Jobs]
  /\ cur \in [Workers -> Jobs \cup {NoJob}]
  /\ answer \in [Workers -> Answers]
  /\ copy \in [Workers -> Row]
  /\ crashes \in Nat /\ overruns \in Nat /\ denials \in Nat
  /\ \A w \in Workers : cur[w] # NoJob <=> pc[w] \in {"answered", "loaded"}

\* No two workers work on the same job (claim_ready_jobs: "Rows already claimed
\* by one worker are invisible to the next").
Exclusive ==
  \A v, w \in Workers : v # w => Mine(v) \cap Mine(w) = {}

\* A RUNNING row carries the stamp that lets recover_stale_running_jobs find it when its
\* worker is gone (jobs.py: "If a worker dies after claiming a row, the database still has
\* the lock timestamp"); without one nothing ever touches the row again.
NoJobStranded ==
  \A j \in Jobs : rows[j].status = "RUNNING" => rows[j].lockedAt # "null"

\* Whatever overwrites what, a row that says it ended has the record of that end.
OutcomeRecorded ==
  \A j \in Jobs : /\ rows[j].status = "SUCCEEDED" => succeeded[j] > 0
                  /\ rows[j].status = "DEAD_LETTERED" => deadLetters[j] > 0

\* No external call without an attempt of its own on the row: the attempts column
\* the retry policy and the audit events read never falls behind the calls.
EveryCallPaidFor ==
  \A j \in Jobs : /\ calls[j] <= rows[j].attempts
                  /\ (\E w \in Workers : j \in held[w]) => calls[j] < rows[j].attempts

\* Retries stop: only a crash buys a job a call beyond max_attempts.
CallsBounded == \A j \in Jobs : calls[j] <= MaxAttempts + crashes

\* A job that has ended is never touched again.
TerminalIsFinal ==
  [][\A j \in Jobs : rows[j].status \in Terminal => rows'[j] = rows[j]]_vars

GivesUp(w) == DeadLetter(w) /\ answer[w] = "retryable"

\* A job given up after retryable failures had its max_attempts calls, but for the
\* claims that a crash or the rate limiter cost it.
RetriesSpent ==
  [][\A w \in Workers :
       GivesUp(w) => calls[cur[w]] + crashes + denials >= MaxAttempts]_vars

\* Every job ends, and stays ended, once crashes and overruns cease.
EveryJobEnds == <>[](\A j \in Jobs : rows[j].status \in Terminal)

-----------------------------------------------------------------------------
(* The invariant of a safe deployment: one worker recovers stale locks (say, *)
(* only the LLM worker's tick, scheduled as a single process) and no batch   *)
(* outlives its lock.  Crashes, retries, deferrals and any number of other   *)
(* workers are allowed.                                                      *)

SafeDeployment == MaxOverruns = 0 /\ \A v, w \in Recoverers : v = w

\* What a worker has in memory is running, under a lock that has not expired.
HoldersRun ==
  \A w \in Workers : \A j \in Mine(w) :
    rows[j].status = "RUNNING" /\ rows[j].lockedAt = "fresh"

\* A running row has its lock stamp, and only a deferred one waits for run_after.
RunningStamped ==
  \A j \in Jobs : /\ rows[j].status = "RUNNING" => rows[j].lockedAt # "null"
                  /\ rows[j].runAfter = "later" => rows[j].status = "DEFERRED"

\* The copies a session has loaded are still what the table holds.
CopiesCurrent ==
  \A w \in Workers :
    /\ pc[w] = "loaded" => copy[w] = rows[cur[w]]
    /\ \A j \in DOMAIN found[w] : /\ w \in Recoverers /\ pc[w] = "recovering"
                                  /\ Stale(rows[j]) /\ found[w][j] = rows[j]

BatchInTick ==
  \A w \in Workers : /\ pc[w] \in {"idle", "recovering"} => held[w] = {}
                     /\ cur[w] \notin held[w]

OneRecord ==
  \A j \in Jobs :
    succeeded[j] + deadLetters[j] = IF rows[j].status \in Terminal THEN 1 ELSE 0

InCall(j) == \E w \in Workers : cur[w] = j

Waiting(j) == \E w \in Workers : j \in held[w]

\* A call that is over and did not end its job was retried below max_attempts, or
\* lost in a crash.
CallBudget ==
  \A j \in Jobs : rows[j].status \in Terminal \/ InCall(j)
                    \/ calls[j] < MaxAttempts + crashes

\* Where the attempts of a job went.
AttemptsSpent ==
  \A j \in Jobs :
    rows[j].attempts <= calls[j] + crashes + denials + (IF Waiting(j) THEN 1 ELSE 0)

SafeInv ==
  /\ TypeOK /\ Exclusive /\ HoldersRun /\ RunningStamped /\ CopiesCurrent
  /\ BatchInTick /\ OneRecord
  /\ EveryCallPaidFor /\ CallsBounded /\ CallBudget /\ AttemptsSpent
=============================================================================
