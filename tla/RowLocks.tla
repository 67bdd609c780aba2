------------------------------ MODULE RowLocks ------------------------------
(***************************************************************************)
(* The row locks of the workers' transactions across the three tables they *)
(* write: interaction_jobs, interactions and customer_token_usage.         *)
(*                                                                         *)
(* A transaction takes the rows it writes one after the other and keeps    *)
(* them until it commits or rolls back:                                    *)
(*                                                                         *)
(*   claim, LLM           stale job rows, claimed job rows, the ledger     *)
(*   claim, orchestrator  stale job rows, claimed job rows, interactions   *)
(*   claim, recording                                                      *)
(*   and result           claimed job rows                                 *)
(*   success, LLM         interaction, ledger, job row                     *)
(*   success, result      job row                                          *)
(*   success, recording,                                                   *)
(*   and every failure    interaction and job row, in either order         *)
(*                                                                         *)
(* The UPDATEs of a recovery go by primary key and wait for a row; the     *)
(* claim query SKIPs LOCKED rows.  Which of two unrelated tables a flush   *)
(* writes first is up to the library, so both orders are allowed.          *)
(* Postgres aborts one transaction of a circle, and the exception ends the *)
(* worker's tick.                                                          *)
(*                                                                         *)
(* Three transactions are left out because they cannot be part of a circle.*)
(* A legacy task's, and the update of a lead's stage, hold nothing while   *)
(* they wait.  The webhook's holds the interaction while it may wait for a *)
(* legacy task's insert of the same job, but that task then waits for      *)
(* nobody.  The ledger is one row; TokenBudget has its minutes.            *)
(***************************************************************************)
EXTENDS Naturals, FiniteSets, SequencesExt

CONSTANTS Interactions,
          Workers, Kind,      \* of a worker: "orchestrate", "llm", "recording" or "result"
          Recoverers,         \* the workers whose claim begins with stale-lock recovery
          Id,                 \* primary key of a row of interaction_jobs
          BatchLimit,
          Nobody,
          MaxCrashes, MaxOverruns     \* bounds of the environment

Kinds == {"orchestrate", "llm", "recording", "result"}

JobTypes == {"orchestrate", "llm", "recording", "signal", "lead"}

JobRows == JobTypes \X Interactions

\* The workers that claim a job of row r.
KindOf(r) == IF r[1] \in {"signal", "lead"} THEN "result" ELSE r[1]

InteractionRow(i) == <<"interaction", i>>

Ledger == <<"ledger", Nobody>>

Rows == JobRows \cup {InteractionRow(i) : i \in Interactions} \cup {Ledger}

ASSUME RowLocksAssumption ==
  /\ Kind \in [Workers -> Kinds]
  /\ Recoverers \subseteq {w \in Workers : Kind[w] \in {"orchestrate", "llm"}}
  /\ Id \in [JobRows -> Nat] /\ \A r, s \in JobRows : Id[r] = Id[s] => r = s
  /\ IsFiniteSet(Interactions)
  /\ Nobody \notin Workers \cup Interactions
  /\ BatchLimit \in Nat \ {0} /\ MaxCrashes \in Nat /\ MaxOverruns \in Nat

VARIABLES
  job,        \* committed state of a job row: absent, ready, running, stale (its lock
              \* has timed out) or over
  holder,     \* the transaction that has a row locked
  pc,         \* where a worker is: idle, recovering, admitting, working, closing
  todo,       \* the rows its transaction has yet to lock, in order
  touched,    \* the job rows its transaction has recovered or claimed
  batch,      \* the jobs it claimed and has not closed yet
  result,     \* how its transaction will leave the rows of touched
  crashes, overruns

envVars == <<crashes, overruns>>
vars == <<job, holder, pc, todo, touched, batch, result, envVars>>

Init ==
  /\ job = [r \in JobRows |-> IF r[1] = "orchestrate" THEN "ready" ELSE "absent"]
  /\ holder = [r \in Rows |-> Nobody]
  /\ pc = [w \in Workers |-> "idle"]
  /\ todo = [w \in Workers |-> <<>>]
  /\ touched = [w \in Workers |-> {}]
  /\ batch = [w \in Workers |-> {}]
  /\ result = [w \in Workers |-> "none"]
  /\ crashes = 0 /\ overruns = 0

-----------------------------------------------------------------------------
(* Locks *)

\* The transaction that w waits for.
Blocker(w) ==
  IF todo[w] # <<>> /\ holder[Head(todo[w])] \notin {w, Nobody}
    THEN holder[Head(todo[w])] ELSE Nobody

\* The next statement of the transaction gets its row.
Acquire(w) ==
  /\ todo[w] # <<>> /\ Blocker(w) = Nobody
  /\ holder' = [holder EXCEPT ![Head(todo[w])] = w]
  /\ todo' = [todo EXCEPT ![w] = Tail(@)]
  /\ UNCHANGED <<job, pc, touched, batch, result, envVars>>

Release(w) == holder' = [r \in Rows |-> IF holder[r] = w THEN Nobody ELSE holder[r]]

\* Transactions that wait for each other in a circle.
Circle(S) == S # {} /\ {Blocker(w) : w \in S} = S

Deadlocked(w) == \E S \in SUBSET Workers : w \in S /\ Circle(S)

-----------------------------------------------------------------------------
(* The claim transaction *)

InIdOrder(S) ==
  {rows \in SetToSeqs(S) : \A m, n \in DOMAIN rows : m < n => Id[rows[m]] <= Id[rows[n]]}

\* What the SELECT of recover_stale_running_jobs finds.
Found(w) == IF w \in Recoverers THEN {r \in JobRows : job[r] = "stale"} ELSE {}

\* Mutant: the rows of a recovery in no particular order.
RecoverAnyOrder(w) ==
  /\ pc[w] = "idle" /\ batch[w] = {} /\ Found(w) # {}
  /\ \E rows \in SetToSeqs(Found(w)) : todo' = [todo EXCEPT ![w] = rows]
  /\ touched' = [touched EXCEPT ![w] = Found(w)]
  /\ pc' = [pc EXCEPT ![w] = "recovering"]
  /\ UNCHANGED <<job, holder, batch, result, envVars>>

\* The SELECT takes no lock; its UPDATEs follow.
Recover(w) ==
  /\ pc[w] = "idle" /\ batch[w] = {} /\ Found(w) # {}
  /\ \E rows \in InIdOrder(Found(w)) : todo' = [todo EXCEPT ![w] = rows]
  /\ touched' = [touched EXCEPT ![w] = Found(w)]
  /\ pc' = [pc EXCEPT ![w] = "recovering"]
  /\ UNCHANGED <<job, holder, batch, result, envVars>>

\* What claim_ready_jobs finds: rows of its kind that nobody else has locked, ready in
\* the table or made so by this transaction.
Claimable(w) ==
  {r \in JobRows : /\ KindOf(r) = Kind[w] /\ holder[r] \in {w, Nobody}
                   /\ job[r] = "ready" \/ r \in touched[w]}

\* The rows the rest of a claim transaction locks: the ledger, for the reservations; or
\* the interactions, one per child job that is created.
Following(w, S) ==
  CASE Kind[w] = "llm" /\ S # {} -> {<<Ledger>>}
    [] Kind[w] = "orchestrate"   -> SetToSeqs({InteractionRow(r[2]) : r \in S})
    [] OTHER                     -> {<<>>}

\* claim_ready_jobs, which waits for nobody, after the recovery if that found something.
\* A poll that finds nothing changes nothing.
Claim(w) ==
  /\ \/ pc[w] = "recovering" /\ todo[w] = <<>>
     \/ pc[w] = "idle" /\ Found(w) = {} /\ Claimable(w) # {}
  /\ \E S \in SUBSET Claimable(w) :
       /\ Cardinality(S) = Min({BatchLimit, Cardinality(Claimable(w))})
       /\ batch' = [batch EXCEPT ![w] = S]
       /\ holder' = [r \in Rows |-> IF r \in S THEN w ELSE holder[r]]
       /\ \E rows \in Following(w, S) : todo' = [todo EXCEPT ![w] = rows]
  /\ pc' = [pc EXCEPT ![w] = "admitting"]
  /\ UNCHANGED <<job, touched, result, envVars>>

\* The commit of a claim.  The recovered rows are ready, the jobs of the batch running;
\* of an LLM batch the limiter may have deferred some.
CommitClaim(w) ==
  /\ pc[w] = "admitting" /\ todo[w] = <<>> /\ Kind[w] # "orchestrate"
  /\ \E admitted \in IF Kind[w] = "llm" THEN SUBSET batch[w] ELSE {batch[w]} :
       /\ job' = [r \in JobRows |-> IF r \in admitted THEN "running"
                                    ELSE IF r \in touched[w] \cup batch[w] THEN "ready"
                                    ELSE job[r]]
       /\ batch' = [batch EXCEPT ![w] = admitted]
       /\ pc' = [pc EXCEPT ![w] = IF admitted = {} THEN "idle" ELSE "working"]
  /\ touched' = [touched EXCEPT ![w] = {}]
  /\ Release(w)
  /\ UNCHANGED <<todo, result, envVars>>

\* The orchestrator's transaction ends: of its jobs some are done, some dead, the others
\* deferred for a retry.  The recording job is created first and is committed whatever
\* follows; the analysis, or the results of a short call, only with a job that is done.
CommitOrchestration(w) ==
  /\ pc[w] = "admitting" /\ todo[w] = <<>> /\ Kind[w] = "orchestrate"
  /\ \E recorded \in SUBSET batch[w], over \in SUBSET batch[w] :
     \E done \in SUBSET over : \E short \in SUBSET done :
       LET parents(r) == CASE r[1] = "recording"           -> recorded
                           [] r[1] = "llm"                 -> done \ short
                           [] r[1] \in {"signal", "lead"} -> short
                           [] OTHER                        -> {}
       IN  job' = [r \in JobRows |->
                     IF r \in over THEN "over"
                     ELSE IF r \in touched[w] \cup batch[w] THEN "ready"
                     ELSE IF job[r] = "absent" /\ <<"orchestrate", r[2]>> \in parents(r) THEN "ready"
                     ELSE job[r]]
  /\ batch' = [batch EXCEPT ![w] = {}]
  /\ touched' = [touched EXCEPT ![w] = {}]
  /\ pc' = [pc EXCEPT ![w] = "idle"]
  /\ Release(w)
  /\ UNCHANGED <<todo, result, envVars>>

-----------------------------------------------------------------------------
(* The transaction that closes a job *)

\* The rows it locks, in order.
Program(w, r, succeeds) ==
  CASE Kind[w] = "llm" /\ succeeds    -> {<<InteractionRow(r[2]), Ledger, r>>}
    [] Kind[w] = "result" /\ succeeds -> {<<r>>}
    [] OTHER -> {<<InteractionRow(r[2]), r>>, <<r, InteractionRow(r[2])>>}

\* The call for a job of the batch is over and its row read again: a success is written
\* only on a row that is still RUNNING, a failure on any.
BeginClosing(w) ==
  /\ pc[w] = "working"
  /\ \E r \in batch[w], succeeds \in BOOLEAN, ending \in {"over", "ready"} :
       /\ succeeds => ending = "over" /\ job[r] \in {"running", "stale"}
       /\ \E rows \in Program(w, r, succeeds) : todo' = [todo EXCEPT ![w] = rows]
       /\ touched' = [touched EXCEPT ![w] = {r}]
       /\ batch' = [batch EXCEPT ![w] = @ \ {r}]
       /\ result' = [result EXCEPT ![w] = ending]
  /\ pc' = [pc EXCEPT ![w] = "closing"]
  /\ UNCHANGED <<job, holder, envVars>>

\* A success that comes when the row is no longer RUNNING is dropped.
Skip(w) ==
  /\ pc[w] = "working"
  /\ \E r \in batch[w] :
       /\ job[r] \notin {"running", "stale"}
       /\ batch' = [batch EXCEPT ![w] = @ \ {r}]
       /\ pc' = [pc EXCEPT ![w] = IF batch[w] = {r} THEN "idle" ELSE "working"]
  /\ UNCHANGED <<job, holder, todo, touched, result, envVars>>

\* The jobs that a success queues, if they are not there yet: the results of an analysis
\* (only an LLM success has locked the ledger).
Follows(w, r) ==
  /\ job[r] = "absent" /\ holder[Ledger] = w
  /\ r[1] \in {"signal", "lead"} /\ <<"llm", r[2]>> \in touched[w]

\* Mutant: the outcome is forgotten before it is written.
CommitClosingForgetful(w) ==
  /\ pc[w] = "closing" /\ todo[w] = <<>>
  /\ result' = [result EXCEPT ![w] = "none"]
  /\ job' = [r \in JobRows |-> IF r \in touched[w] THEN result'[w] ELSE job[r]]
  /\ touched' = [touched EXCEPT ![w] = {}]
  /\ pc' = [pc EXCEPT ![w] = IF batch[w] = {} THEN "idle" ELSE "working"]
  /\ Release(w)
  /\ UNCHANGED <<todo, batch, envVars>>

\* The commit: the job has succeeded or is dead, or is ready again.
CommitClosing(w) ==
  /\ pc[w] = "closing" /\ todo[w] = <<>>
  /\ job' = [r \in JobRows |-> IF r \in touched[w] THEN result[w]
                               ELSE IF Follows(w, r) THEN "ready" ELSE job[r]]
  /\ result' = [result EXCEPT ![w] = "none"]
  /\ touched' = [touched EXCEPT ![w] = {}]
  /\ pc' = [pc EXCEPT ![w] = IF batch[w] = {} THEN "idle" ELSE "working"]
  /\ Release(w)
  /\ UNCHANGED <<todo, batch, envVars>>

-----------------------------------------------------------------------------
(* Failures and time *)

\* Rollback, and the end of the tick: what is left of the batch stays RUNNING.
EndTick(w) ==
  /\ pc' = [pc EXCEPT ![w] = "idle"]
  /\ todo' = [todo EXCEPT ![w] = <<>>]
  /\ touched' = [touched EXCEPT ![w] = {}]
  /\ batch' = [batch EXCEPT ![w] = {}]
  /\ result' = [result EXCEPT ![w] = "none"]
  /\ Release(w)

\* Postgres picks a victim.
Abort(w) == Deadlocked(w) /\ EndTick(w) /\ UNCHANGED <<job, envVars>>

Crash(w) ==
  /\ pc[w] # "idle" /\ crashes < MaxCrashes
  /\ crashes' = crashes + 1
  /\ EndTick(w)
  /\ UNCHANGED <<job, overruns>>

\* The worker that claimed r, if it is still at it.
AtWorkOn(w, r) ==
  /\ pc[w] \in {"working", "closing"}
  /\ r \in batch[w] \cup touched[w]

\* The age of a lock is a matter of the clock: it passes the timeout whoever has the
\* row locked, while a worker is still at the job,
Overrun(r) ==
  /\ job[r] = "running" /\ \E w \in Workers : AtWorkOn(w, r)
  /\ overruns < MaxOverruns
  /\ overruns' = overruns + 1
  /\ job' = [job EXCEPT ![r] = "stale"]
  /\ UNCHANGED <<holder, pc, todo, touched, batch, result, crashes>>

\* ... or after it is gone.
Expire(r) ==
  /\ job[r] = "running" /\ \A w \in Workers : ~AtWorkOn(w, r)
  /\ job' = [job EXCEPT ![r] = "stale"]
  /\ UNCHANGED <<holder, pc, todo, touched, batch, result, envVars>>

TransactionStep(w) ==
  \/ Acquire(w) \/ Claim(w) \/ CommitClaim(w) \/ CommitOrchestration(w) \/ CommitClosing(w)

WorkStep(w) == BeginClosing(w) \/ Skip(w)

\* Every job has ended that was ever queued.
AllOver == (\A r \in JobRows : job[r] \in {"absent", "over"}) /\ UNCHANGED vars

Next ==
  \/ AllOver
  \/ \E w \in Workers : Recover(w) \/ TransactionStep(w) \/ WorkStep(w) \/ Abort(w) \/ Crash(w)
  \/ \E r \in JobRows : Overrun(r) \/ Expire(r)

Spec == Init /\ [][Next]_vars

-----------------------------------------------------------------------------
(* Properties *)

\* Types.
TypeOK ==
  /\ job \in [JobRows -> {"absent", "ready", "running", "stale", "over"}]
  /\ holder \in [Rows -> Workers \cup {Nobody}]
  /\ pc \in [Workers -> {"idle", "recovering", "admitting", "working", "closing"}]
  /\ todo \in [Workers -> Seq(Rows)]
  /\ touched \in [Workers -> SUBSET JobRows]
  /\ batch \in [Workers -> SUBSET JobRows]
  /\ result \in [Workers -> {"none", "over", "ready"}]
  /\ crashes \in Nat /\ overruns \in Nat

\* Deadlocks come in one way: two workers have the same job, one of them is closing it,
\* and the other, in the same circle, closes it too, or has claimed or recovered it.
\* Where jobs are exclusive there is no deadlock, in whatever order tables are flushed.
DeadlockIsOverOneJob ==
  \A S \in SUBSET Workers : Circle(S) =>
    \E v, w \in S : v # w /\ pc[w] = "closing" /\ touched[w] \cap (batch[v] \cup touched[v]) # {}
=============================================================================
