----------------------------- MODULE TokenBudget -----------------------------
(***************************************************************************)
(* Admission of LLM jobs by the token ledger (customer_token_usage): one   *)
(* row per account and minute, where the accounts are the customers and    *)
(* one synthetic account for the whole platform.                           *)
(*                                                                         *)
(* The claim transaction of an LLM worker reserves tokens and one request  *)
(* for every job of its batch before it commits; the provider is called    *)
(* after the commit, and the success of the call is written, with its      *)
(* usage, by a transaction of its own.                                     *)
(*                                                                         *)
(* Both kinds of transaction read the platform's row first, FOR UPDATE, so *)
(* the row of a minute is the lock on the whole minute.  A row that nobody *)
(* has committed cannot be locked: the SELECT returns nothing, the session *)
(* INSERTs, waits for whoever inserted the same row, and fails on the      *)
(* unique constraint when that one commits.  The exception leaves run_once *)
(* and rolls the transaction back.                                         *)
(*                                                                         *)
(* Stale-lock recovery goes by the age of a job's lock, so a job can be    *)
(* claimed again while its first worker is still at it.                    *)
(***************************************************************************)
EXTENDS AdmissionPolicy, FiniteSets, FiniteSetsExt

CONSTANTS Workers,
          NoJob,
          BatchLimit,      \* LIMIT of the claim query
          LastMinute, MaxFailures, MaxCrashes, MaxOverruns    \* bounds of the environment

ASSUME TokenBudgetAssumption ==
  /\ GlobalAccount \notin Customers
  /\ NoJob \notin Jobs
  /\ CustomerOf \in [Jobs -> Customers]
  /\ Estimate \in [Jobs -> Nat \ {0}]
  /\ Budget \in [Jobs -> Nat]
  /\ HighJobs \subseteq Jobs
  /\ TokenLimit \in Nat /\ RequestLimit \in Nat /\ BatchLimit \in Nat
  /\ LastMinute \in Nat /\ MaxFailures \in Nat /\ MaxCrashes \in Nat /\ MaxOverruns \in Nat
  /\ IsFiniteSet(Jobs) /\ IsFiniteSet(Workers)

Minutes == 0 .. LastMinute

VARIABLES
  minute,    \* the clock, as minute_window sees it
  ledger,    \* the committed rows: a Usage for every minute that has rows
  state,     \* "waiting", "running" or "done", per job, committed
  runAfter,  \* the minute from which a waiting job is ready
  pc,        \* where a worker is in its tick
  batch,     \* the jobs its open claim transaction has yet to decide about
  admitted,  \* the jobs it was granted, with the minute each was charged to
  deferred,  \* the jobs its open claim transaction turned away, with their run_after
  cur,       \* the job its open transaction reserves or records for
  window,    \* the minute that reservation or record is charged to
  exists,    \* whether its SELECT for that minute returned rows
  draft,     \* the rows its open transaction has locked, as it will commit them
  granted,   \* number of grants per minute and job (history)
  load,      \* calls started in each minute, and their estimated tokens (history)
  successes, \* successes written per job (history)
  failures, crashes, overruns

txVars  == <<batch, deferred, cur, window, exists, draft>>
jobVars == <<state, runAfter>>
history == <<granted, load, successes>>
envVars == <<failures, crashes, overruns>>
vars    == <<minute, ledger, jobVars, pc, admitted, txVars, history, envVars>>

NoRows == [m \in {} |-> NewUsage]

NoJobs == [j \in {} |-> 0]

Init ==
  /\ minute = 0
  /\ ledger = NoRows
  /\ state = [j \in Jobs |-> "waiting"]
  /\ runAfter = [j \in Jobs |-> 0]
  /\ pc = [w \in Workers |-> "idle"]
  /\ batch = [w \in Workers |-> {}]
  /\ admitted = [w \in Workers |-> NoJobs]
  /\ deferred = [w \in Workers |-> NoJobs]
  /\ cur = [w \in Workers |-> NoJob]
  /\ window = [w \in Workers |-> 0]
  /\ exists = [w \in Workers |-> FALSE]
  /\ draft = [w \in Workers |-> NoRows]
  /\ granted = [m \in Minutes |-> [j \in Jobs |-> 0]]
  /\ load = [m \in Minutes |-> [requests |-> 0, tokens |-> 0]]
  /\ successes = [j \in Jobs |-> 0]
  /\ failures = 0 /\ crashes = 0 /\ overruns = 0

-----------------------------------------------------------------------------
(* Usage *)

\* Mutant: usage recorded releases what was reserved for it.
RecordedReleasing(usage, j, tokens) ==
  [a \in Accounts |->
     IF a \in {GlobalAccount, CustomerOf[j]}
       THEN [usage[a] EXCEPT !.usedTokens = @ + tokens, !.requestsUsed = @ + 1,
                             !.reservedTokens = IF @ < Estimate[j] THEN 0 ELSE @ - Estimate[j]]
       ELSE usage[a]]

\* The counters after record_usage.
Recorded(usage, j, tokens) ==
  [a \in Accounts |->
     IF a \in {GlobalAccount, CustomerOf[j]}
       THEN [usage[a] EXCEPT !.usedTokens = @ + tokens, !.requestsUsed = @ + 1]
       ELSE usage[a]]

-----------------------------------------------------------------------------
(* Rows and locks *)

\* Mutants: SELECT without FOR UPDATE, and a second session for the second job.
FreeForAll(w, m) == TRUE
FreeForNone(w, m) == \A v \in Workers : m \notin DOMAIN draft[v]

\* No other open transaction holds the rows of minute m.
Free(w, m) == \A v \in Workers \ {w} : m \notin DOMAIN draft[v]

\* The rows of minute m as the session of w reads them: its own, then the committed.
View(w, m) ==
  IF m \in DOMAIN draft[w] THEN draft[w][m]
  ELSE IF m \in DOMAIN ledger THEN ledger[m]
  ELSE NewUsage

\* Two sets of rows, those of `new` replacing those of `old`.
Overlay(new, old) ==
  [m \in DOMAIN new \cup DOMAIN old |-> IF m \in DOMAIN new THEN new[m] ELSE old[m]]

\* Mutant: the minute in which the job became due.
SelectDue(w, j) ==
  /\ cur' = [cur EXCEPT ![w] = j]
  /\ window' = [window EXCEPT ![w] = runAfter[j]]
  /\ exists' = [exists EXCEPT ![w] = runAfter[j] \in DOMAIN ledger \cup DOMAIN draft[w]]

\* The first read of _get_or_create_usage, for the minute it is now.
Select(w, j) ==
  /\ cur' = [cur EXCEPT ![w] = j]
  /\ window' = [window EXCEPT ![w] = minute]
  /\ exists' = [exists EXCEPT ![w] = minute \in DOMAIN ledger \cup DOMAIN draft[w]]

\* The rows are locked: they were there to lock, or this session inserted them.
Locks(w) ==
  /\ Free(w, window[w])
  /\ exists[w] \/ window[w] \notin DOMAIN ledger

\* Someone else committed the rows this session was about to insert.
InsertFails(w) == ~exists[w] /\ window[w] \in DOMAIN ledger

\* The session ends, having committed or rolled back.
EndTransaction(w) ==
  /\ batch' = [batch EXCEPT ![w] = {}]
  /\ deferred' = [deferred EXCEPT ![w] = NoJobs]
  /\ cur' = [cur EXCEPT ![w] = NoJob]
  /\ window' = [window EXCEPT ![w] = 0]
  /\ exists' = [exists EXCEPT ![w] = FALSE]
  /\ draft' = [draft EXCEPT ![w] = NoRows]

\* ... and with it the tick.
EndTick(w) ==
  /\ pc' = [pc EXCEPT ![w] = "idle"]
  /\ admitted' = [admitted EXCEPT ![w] = NoJobs]
  /\ EndTransaction(w)

Taken(w) ==
  batch[w] \cup DOMAIN admitted[w] \cup DOMAIN deferred[w] \cup ({cur[w]} \ {NoJob})

Claiming(w) == pc[w] \in {"claiming", "reserving"}

\* No claim transaction other than w's own has locked the row of job j.
RowFree(w, j) == \A v \in Workers \ {w} : ~(Claiming(v) /\ j \in Taken(v))

\* SKIP LOCKED.
Ready(w, j) == state[j] = "waiting" /\ runAfter[j] <= minute /\ RowFree(w, j)

-----------------------------------------------------------------------------
(* The claim transaction *)

\* claim_ready_jobs.
ClaimBatch(w) ==
  /\ pc[w] = "idle"
  /\ \E S \in SUBSET {j \in Jobs : Ready(w, j)} :
       /\ S # {} /\ Cardinality(S) <= BatchLimit
       /\ batch' = [batch EXCEPT ![w] = S]
  /\ pc' = [pc EXCEPT ![w] = "claiming"]
  /\ UNCHANGED <<minute, ledger, jobVars, admitted, deferred, cur, window, exists, draft,
                 history, envVars>>

\* reserve, up to its first query.
SelectForReserve(w) ==
  /\ pc[w] = "claiming"
  /\ \E j \in batch[w] : Select(w, j)
  /\ pc' = [pc EXCEPT ![w] = "reserving"]
  /\ UNCHANGED <<minute, ledger, jobVars, admitted, batch, deferred, draft,
                 history, envVars>>

Drafted(w, usage) == Overlay([m \in {window[w]} |-> usage], draft[w])

\* The rest of reserve, once the rows are locked: the decision and its counters, or
\* the deferral to the next minute.
Reserve(w) ==
  LET j     == cur[w]
      usage == View(w, window[w])
  IN  /\ pc[w] = "reserving" /\ Locks(w)
      /\ IF Admits(usage, j)
           THEN /\ draft' = [draft EXCEPT ![w] = Drafted(w, Reserved(usage, j))]
                /\ admitted' = [admitted EXCEPT
                     ![w] = [i \in DOMAIN @ \cup {j} |-> IF i = j THEN window[w] ELSE @[i]]]
                /\ UNCHANGED deferred
           ELSE /\ draft' = [draft EXCEPT ![w] = Drafted(w, usage)]
                /\ deferred' = [deferred EXCEPT
                     ![w] = [i \in DOMAIN @ \cup {j} |-> IF i = j THEN window[w] + 1 ELSE @[i]]]
                /\ UNCHANGED admitted
      /\ batch' = [batch EXCEPT ![w] = @ \ {j}]
      /\ pc' = [pc EXCEPT ![w] = "claiming"]
      /\ cur' = [cur EXCEPT ![w] = NoJob]
      /\ window' = [window EXCEPT ![w] = 0]
      /\ exists' = [exists EXCEPT ![w] = FALSE]
      /\ UNCHANGED <<minute, ledger, jobVars, history, envVars>>

\* The session ends and the worker takes its admitted jobs to the provider.
CommitClaim(w) ==
  /\ pc[w] = "claiming" /\ batch[w] = {}
  /\ ledger' = Overlay(draft[w], ledger)
  /\ state' = [j \in Jobs |-> IF j \in DOMAIN admitted[w] THEN "running" ELSE state[j]]
  /\ runAfter' = [j \in Jobs |-> IF j \in DOMAIN deferred[w] THEN deferred[w][j] ELSE runAfter[j]]
  /\ granted' = [m \in Minutes |-> [j \in Jobs |->
       granted[m][j] + (IF j \in DOMAIN admitted[w] /\ admitted[w][j] = m THEN 1 ELSE 0)]]
  /\ pc' = [pc EXCEPT ![w] = IF DOMAIN admitted[w] = {} THEN "idle" ELSE "working"]
  /\ EndTransaction(w)
  /\ UNCHANGED <<minute, admitted, load, successes, envVars>>

-----------------------------------------------------------------------------
(* The provider call and the transaction that closes it *)

\* What is left of the batch once the worker turns to job j.
Remaining(w, j) ==
  [admitted EXCEPT ![w] = [i \in DOMAIN @ \ {j} |-> @[i]]]

CallProvider(w) ==
  /\ pc[w] = "working"
  /\ \E j \in DOMAIN admitted[w] :
       /\ cur' = [cur EXCEPT ![w] = j]
       /\ admitted' = Remaining(w, j)
       /\ load' = [load EXCEPT ![minute].requests = @ + 1, ![minute].tokens = @ + Estimate[j]]
  /\ pc' = [pc EXCEPT ![w] = "calling"]
  /\ UNCHANGED <<minute, ledger, jobVars, batch, deferred, window, exists, draft,
                 granted, successes, envVars>>

\* On to the next job of the batch, or the tick is over.
NextJob(w) ==
  /\ pc' = [pc EXCEPT ![w] = IF DOMAIN admitted[w] = {} THEN "idle" ELSE "working"]
  /\ EndTransaction(w)

\* No other transaction that closes the same job has locked its interaction's row.
InteractionFree(w) == \A v \in Workers \ {w} : pc[v] = "recording" => cur[v] # cur[w]

\* The call failed: whatever has become of the job, it waits for its retry.  What was
\* reserved stays reserved.
CallFails(w) ==
  /\ pc[w] = "calling" /\ failures < MaxFailures
  /\ InteractionFree(w) /\ RowFree(w, cur[w])
  /\ failures' = failures + 1
  /\ state' = [state EXCEPT ![cur[w]] = "waiting"]
  /\ runAfter' = [runAfter EXCEPT ![cur[w]] = minute]
  /\ NextJob(w)
  /\ UNCHANGED <<minute, ledger, admitted, history, crashes, overruns>>

\* The call succeeded, and the job is still RUNNING.
FindRunning(w) ==
  /\ pc[w] = "calling" /\ state[cur[w]] = "running"
  /\ pc' = [pc EXCEPT ![w] = "closing"]
  /\ UNCHANGED <<minute, ledger, jobVars, admitted, txVars, history, envVars>>

\* The call succeeded, but the job has been taken away: the answer is dropped.
FindOver(w) ==
  /\ pc[w] = "calling" /\ state[cur[w]] # "running"
  /\ NextJob(w)
  /\ UNCHANGED <<minute, ledger, jobVars, admitted, history, envVars>>

\* update_analysis_result, whose flush locks the interaction, and record_usage up to its
\* first query.
SelectForRecord(w) ==
  /\ pc[w] = "closing" /\ InteractionFree(w)
  /\ Select(w, cur[w])
  /\ pc' = [pc EXCEPT ![w] = "recording"]
  /\ UNCHANGED <<minute, ledger, jobVars, admitted, batch, deferred, draft,
                 history, envVars>>

\* The rest of record_usage, mark_succeeded, commit: the job has succeeded, whatever has
\* become of it since it was found RUNNING.
Record(w) ==
  /\ pc[w] = "recording" /\ Locks(w) /\ RowFree(w, cur[w])
  /\ ledger' = Overlay([m \in {window[w]} |->
                          Recorded(View(w, m), cur[w], Estimate[cur[w]])], ledger)
  /\ state' = [state EXCEPT ![cur[w]] = "done"]
  /\ successes' = [successes EXCEPT ![cur[w]] = @ + 1]
  /\ NextJob(w)
  /\ UNCHANGED <<minute, runAfter, admitted, granted, load, envVars>>

\* Someone is claiming the job again: the transaction locks the minute, and waits for the
\* job with it.
WaitForRow(w) ==
  /\ pc[w] = "recording" /\ Locks(w) /\ ~RowFree(w, cur[w])
  /\ draft[w] = NoRows
  /\ draft' = [draft EXCEPT ![w] = Drafted(w, View(w, window[w]))]
  /\ UNCHANGED <<minute, ledger, jobVars, pc, admitted, batch, deferred, cur, window, exists,
                 history, envVars>>

-----------------------------------------------------------------------------
(* Failures and time *)

\* w cannot go on before v's transaction ends.
WaitsFor(w, v) ==
  \/ pc[w] \in {"reserving", "recording"} /\ v # w /\ window[w] \in DOMAIN draft[v]
  \/ pc[w] = "recording" /\ draft[w] # NoRows /\ Claiming(v) /\ cur[w] \in Taken(v)

\* The database finds a circle of transactions that wait for each other.
Deadlocked(w) ==
  \E S \in SUBSET Workers :
    w \in S /\ \A v \in S : (\E u \in S : WaitsFor(v, u)) /\ (\E u \in S : WaitsFor(u, v))

\* The INSERT violates uq_customer_token_usage_window, or the transaction is the one that
\* a deadlock is broken with: the exception ends the tick.  Jobs that were admitted stay
\* running, for stale-lock recovery to find.
Abort(w) ==
  /\ pc[w] \in {"reserving", "recording"} /\ (InsertFails(w) \/ Deadlocked(w))
  /\ EndTick(w)
  /\ UNCHANGED <<minute, ledger, jobVars, history, envVars>>

Crash(w) ==
  /\ pc[w] # "idle" /\ crashes < MaxCrashes
  /\ crashes' = crashes + 1
  /\ EndTick(w)
  /\ UNCHANGED <<minute, ledger, jobVars, history, failures, overruns>>

\* The writes of recover_stale_running_jobs.
Recovered(j) ==
  /\ state' = [state EXCEPT ![j] = "waiting"]
  /\ runAfter' = [runAfter EXCEPT ![j] = minute]

\* recover_stale_running_jobs, for a job nobody works on any more.
RecoverStale(j) ==
  /\ state[j] = "running" /\ \A w \in Workers : j \notin Taken(w)
  /\ Recovered(j)
  /\ UNCHANGED <<minute, ledger, pc, admitted, txVars, history, envVars>>

\* recover_stale_running_jobs, for a job that outlives its lock: it was read while it was
\* RUNNING, and is written whatever has become of it since, once its row is free.
Overrun(j) ==
  /\ overruns < MaxOverruns
  /\ \E m \in Minutes : granted[m][j] > 0
  /\ \A w \in Workers : RowFree(w, j)
  /\ Recovered(j)
  /\ overruns' = overruns + 1
  /\ UNCHANGED <<minute, ledger, pc, admitted, txVars, history, failures, crashes>>

NextMinute ==
  /\ minute < LastMinute
  /\ minute' = minute + 1
  /\ UNCHANGED <<ledger, jobVars, pc, admitted, txVars, history, envVars>>

WorkerStep(w) ==
  \/ ClaimBatch(w) \/ SelectForReserve(w) \/ Reserve(w) \/ CommitClaim(w)
  \/ CallProvider(w) \/ CallFails(w) \/ FindRunning(w) \/ FindOver(w)
  \/ SelectForRecord(w) \/ Record(w) \/ WaitForRow(w) \/ Abort(w)

Next ==
  \/ \E w \in Workers : WorkerStep(w) \/ Crash(w)
  \/ \E j \in Jobs : RecoverStale(j) \/ Overrun(j)
  \/ NextMinute

Spec == Init /\ [][Next]_vars

\* A worker that has begun a tick goes on with it, and a transaction that waits for a row
\* is next in line when the row's transaction ends.
FairSpec == Spec /\ \A w \in Workers : WF_vars(WorkerStep(w)) /\ SF_vars(Record(w))

-----------------------------------------------------------------------------
(* Properties *)

\* Every variable keeps its type.
TypeOK ==
  /\ minute \in Minutes
  /\ DOMAIN ledger \subseteq Minutes /\ ledger \in [DOMAIN ledger -> Usage]
  /\ state \in [Jobs -> {"waiting", "running", "done"}]
  /\ runAfter \in [Jobs -> Nat]
  /\ pc \in [Workers -> {"idle", "claiming", "reserving", "working", "calling",
                      "closing", "recording"}]
  /\ batch \in [Workers -> SUBSET Jobs]
  /\ DOMAIN admitted = Workers /\ DOMAIN deferred = Workers /\ DOMAIN draft = Workers
  /\ \A w \in Workers :
       /\ DOMAIN admitted[w] \subseteq Jobs
       /\ admitted[w] \in [DOMAIN admitted[w] -> Minutes]
       /\ DOMAIN deferred[w] \subseteq Jobs
       /\ deferred[w] \in [DOMAIN deferred[w] -> Nat]
       /\ DOMAIN draft[w] \subseteq Minutes
       /\ draft[w] \in [DOMAIN draft[w] -> Usage]
       /\ cur[w] \in Jobs <=> pc[w] \in {"reserving", "calling", "closing", "recording"}
  /\ cur \in [Workers -> Jobs \cup {NoJob}]
  /\ window \in [Workers -> Minutes]
  /\ exists \in [Workers -> BOOLEAN]
  /\ granted \in [Minutes -> [Jobs -> Nat]]
  /\ load \in [Minutes -> [requests : Nat, tokens : Nat]]
  /\ successes \in [Jobs -> Nat]
  /\ failures \in Nat /\ crashes \in Nat /\ overruns \in Nat

\* No minute is sold twice: what is reserved in it stays within the platform's limits,
\* whatever transactions, rollbacks and failed calls went before.
ReservedWithinLimits ==
  \A m \in DOMAIN ledger :
    /\ ledger[m][GlobalAccount].reservedTokens <= TokenLimit
    /\ ledger[m][GlobalAccount].requestsReserved <= RequestLimit

JobsOf(a) == IF a = GlobalAccount THEN Jobs ELSE {j \in Jobs : CustomerOf[j] = a}

\* The ledger is the sum of the grants that were committed: no reservation is lost to a
\* concurrent one, none survives a rollback, and the platform's row is the total of the
\* customers' rows.
EveryGrantCharged ==
  \A m \in DOMAIN ledger, a \in Accounts :
    /\ ledger[m][a].requestsReserved = MapThenSumSet(LAMBDA j : granted[m][j], JobsOf(a))
    /\ ledger[m][a].reservedTokens
         = MapThenSumSet(LAMBDA j : granted[m][j] * Estimate[j], JobsOf(a))

\* What the provider has been sent by the end of any minute was reserved in that minute
\* or in an earlier one.
CallsReserved ==
  \A n \in Minutes :
    /\ MapThenSumSet(LAMBDA m : load[m].requests, 0 .. n)
         <= MapThenSumSet(LAMBDA m : ledger[m][GlobalAccount].requestsReserved,
                          DOMAIN ledger \cap (0 .. n))
    /\ MapThenSumSet(LAMBDA m : load[m].tokens, 0 .. n)
         <= MapThenSumSet(LAMBDA m : ledger[m][GlobalAccount].reservedTokens,
                          DOMAIN ledger \cap (0 .. n))

\* Usage is recorded once for every success that is committed, on both accounts, however
\* records lose the race for a new minute and calls are made again.  Every job that is done
\* has a success, and has only one unless a job has outlived its lock: then both its
\* workers can commit theirs, and a failure can undo one.
UsageMatchesSuccesses ==
  /\ \A a \in Accounts :
       MapThenSumSet(LAMBDA m : ledger[m][a].requestsUsed, DOMAIN ledger)
         = MapThenSumSet(LAMBDA j : successes[j], JobsOf(a))
  /\ \A j \in Jobs :
       /\ state[j] = "done" => successes[j] > 0
       /\ overruns = 0 => successes[j] = (IF state[j] = "done" THEN 1 ELSE 0)

\* A customer without HIGH jobs stays within its budget in every minute.
OverflowIsForHigh ==
  \A m \in DOMAIN ledger, c \in Customers :
    JobsOf(c) # {} /\ JobsOf(c) \cap HighJobs = {} =>
      \E j \in JobsOf(c) : ledger[m][c].reservedTokens <= Budget[j]

\* Transactions that wait for minutes alone never do so in a circle: the minutes that a
\* claim transaction locks, one per reservation of its batch, only ever go forward.
LocksInOrder ==
  \A w \in Workers : pc[w] = "reserving" => \A m \in DOMAIN draft[w] : m <= window[w]

\* What is reserved is never given back, nor overwritten by a transaction that read the
\* row before.
ReservationsOnlyGrow ==
  [][\A m \in DOMAIN ledger, a \in Accounts :
       /\ m \in DOMAIN ledger'
       /\ ledger'[m][a].reservedTokens >= ledger[m][a].reservedTokens
       /\ ledger'[m][a].requestsReserved >= ledger[m][a].requestsReserved]_vars

\* Every transaction that waits for a row of the ledger gets it, or fails.
TransactionsEnd ==
  \A w \in Workers :
    pc[w] \in {"reserving", "closing", "recording"} ~> pc[w] \in {"idle", "claiming", "working"}

\* The provider's limit itself: the calls started in a minute stay within it.
LoadWithinLimits ==
  \A m \in Minutes : load[m].requests <= RequestLimit /\ load[m].tokens <= TokenLimit
=============================================================================
