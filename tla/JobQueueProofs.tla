--------------------------- MODULE JobQueueProofs ---------------------------
(***************************************************************************)
(* Proofs about the job queue, for any number of jobs, workers, attempts,  *)
(* crashes and overruns: first what holds in every deployment, then what a *)
(* safe deployment guarantees.  SafeInv is inductive when one worker       *)
(* recovers stale locks and no batch outlives its lock.  It is what makes  *)
(* the unlocked reads of recover_stale_running_jobs and of get harmless:   *)
(* the copies a session loaded are still what the table holds when it      *)
(* writes, because nobody else may write those rows.  With it, every step  *)
(* of the queue is, through the mapping of JobQueueRefinement, a lease, a  *)
(* release or an end of JobLifecycle, or changes nothing it can see.       *)
(*                                                                         *)
(* Where locks do run out, copies are overtaken and writes may be half a   *)
(* row. Few enough workers per job keep even these from losing the row.    *)
(***************************************************************************)
EXTENDS JobQueueRefinement, FiniteSetTheorems, TLAPS

-----------------------------------------------------------------------------
(* The writes of JobRow *)

\* Setting the status and clearing the lock keeps a row a row.
LEMMA FreedIsRow ==
  ASSUME NEW cp \in Row, NEW s \in Status
  PROVE  Freed(cp, s) \in Row
BY DEF Freed, Row, Status

\* Every write of the repository turns a row and a loaded copy into a row.
LEMMA WritesAreRows ==
  ASSUME NEW db \in Row, NEW cp \in Row
  PROVE  /\ WriteRecovered(db, cp) \in Row
         /\ Recovered(cp) \in Row
         /\ WriteClaimed(db, cp) \in Row
         /\ Claimed(cp) \in Row
         /\ WriteSucceeded(db, cp) \in Row
         /\ WriteDeferred(db, cp) \in Row
         /\ WriteDeadLettered(db, cp) \in Row
<1>1. ASSUME NEW s \in Status PROVE Freed(cp, s) \in Row
  BY FreedIsRow
<1>2. Recovered(cp) \in Row
  BY <1>1 DEF Recovered, Row, Status
<1>3. Claimed(cp) \in Row
  BY DEF Claimed, Row, Status
<1>4. ASSUME NEW new \in Row PROVE Flush(db, cp, new) \in Row
  BY DEF Flush, Row
<1>5. QED
  BY <1>1, <1>2, <1>3, <1>4 DEF WriteRecovered, WriteClaimed, WriteSucceeded, WriteDeferred,
     WriteDeadLettered, Row, Status

\* When the copy is the row itself, a write sets what its method assigns.
LEMMA WritesOfCurrentCopy ==
  ASSUME NEW db \in Row
  PROVE  /\ WriteRecovered(db, db) = Recovered(db)
         /\ WriteClaimed(db, db) = Claimed(db)
         /\ WriteSucceeded(db, db) = Freed(db, "SUCCEEDED")
         /\ WriteDeferred(db, db) = [Freed(db, "DEFERRED") EXCEPT !.runAfter = "later"]
         /\ WriteDeadLettered(db, db) = Freed(db, "DEAD_LETTERED")
<1>1. ASSUME NEW new \in Row PROVE Flush(db, db, new) = new
  BY DEF Flush, Row
<1>2. Recovered(db) \in Row /\ Claimed(db) \in Row /\ Freed(db, "DEFERRED") \in Row
      /\ Freed(db, "SUCCEEDED") \in Row /\ Freed(db, "DEAD_LETTERED") \in Row
  BY WritesAreRows, FreedIsRow DEF Status
<1>3. [Recovered(db) EXCEPT !.runAfter = "due"] = Recovered(db)
  BY <1>2 DEF Recovered, Freed, Row
<1>4. [Claimed(db) EXCEPT !.lockedAt = "fresh"] = Claimed(db)
  BY <1>2 DEF Claimed, Row
<1>5. QED
  BY <1>1, <1>2, <1>3, <1>4 DEF WriteRecovered, WriteClaimed, WriteSucceeded,
     WriteDeferred, WriteDeadLettered

-----------------------------------------------------------------------------
(* Type correctness *)

\* Inside the claim transaction too, the table and the session hold rows.
LEMMA RecoveryType ==
  ASSUME TypeOK, NEW w \in Workers
  PROVE  /\ AfterRecovery(w) \in [Jobs -> Row]
         /\ \A j \in Jobs : SessionCopy(w, j) \in Row
BY WritesAreRows DEF TypeOK, AfterRecovery, SessionCopy

\* The number of denied jobs is a number, because batches are finite.
LEMMA DeniedCount ==
  ASSUME NEW w \in Workers, NEW batch \in Batches(w), NEW denied \in SUBSET batch
  PROVE  /\ batch \subseteq Jobs
         /\ Cardinality(denied) \in Nat
         /\ denied # {} => Cardinality(denied) > 0
<1>1. batch \subseteq Jobs
  BY JobQueueAssumption DEF Batches, Claimable
<1>2. IsFiniteSet(denied)
  BY <1>1, FS_Subset, JobQueueAssumption
<1>3. QED
  BY <1>1, <1>2, FS_CardinalityType, FS_EmptySet

\* The initial state is well typed.
LEMMA TypeInit == Init => TypeOK
<1>1. NewRow \in Row
  BY DEF NewRow, Row, Status
<1>2. QED
  BY <1>1, JobQueueAssumption DEF Init, TypeOK, Answers, NoRows

\* Every step of the queue keeps the types.
LEMMA TypeNext == TypeOK /\ [Next]_vars => TypeOK'
<1> SUFFICES ASSUME TypeOK, [Next]_vars PROVE TypeOK'
  OBVIOUS
<1> USE DEF TypeOK, dbVars, workerVars, envVars
<1>n. NewRow \in Row
  BY DEF NewRow, Row, Status
<1>1. ASSUME NEW w \in Workers, LoadStale(w) PROVE TypeOK'
  <2>1. DOMAIN found' = Workers
    BY <1>1 DEF LoadStale
  <2>2. ASSUME NEW v \in Workers
        PROVE  DOMAIN found'[v] \subseteq Jobs /\ found'[v] \in [DOMAIN found'[v] -> Row]
    BY <1>1 DEF LoadStale
  <2>3. pc' \in [Workers -> {"idle", "recovering", "working", "answered", "loaded"}]
        /\ (cur[w] # NoJob <=> pc'[w] \in {"answered", "loaded"})
    BY <1>1 DEF LoadStale
  <2>4. QED
    BY <1>1, <2>1, <2>2, <2>3 DEF LoadStale
<1>2. ASSUME NEW w \in Workers, ClaimBatch(w) PROVE TypeOK'
  <2>1. PICK batch \in Batches(w) : \E denied \in SUBSET (batch \cap Deniable) :
          Claim(w, batch, denied)
    BY <1>2 DEF ClaimBatch
  <2>2. PICK denied \in SUBSET (batch \cap Deniable) : Claim(w, batch, denied)
    BY <2>1
  <2>3. rows' \in [Jobs -> Row]
    BY <2>2, RecoveryType, WritesAreRows DEF Claim, AfterClaim
  <2>4. denials' \in Nat /\ batch \subseteq Jobs
    BY <2>2, DeniedCount DEF Claim
  <2>5. cur' = cur /\ (cur[w] # NoJob <=> pc'[w] \in {"answered", "loaded"})
    BY <1>2, <2>2 DEF ClaimBatch, Claim
  <2>6. QED
    BY <2>2, <2>3, <2>4, <2>5 DEF Claim, NoRows
<1>3. ASSUME NEW w \in Workers, CallExternal(w) PROVE TypeOK'
  BY <1>3, JobQueueAssumption DEF CallExternal
<1>4. ASSUME NEW w \in Workers, Load(w) PROVE TypeOK'
  <2>1. CASE NextJob(w)
    BY <1>4, <1>n, <2>1 DEF Load, NextJob, Answers
  <2>2. CASE ~NextJob(w)
    <3>1. /\ pc' = [pc EXCEPT ![w] = "loaded"] /\ pc[w] = "answered"
          /\ copy' = [copy EXCEPT ![w] = rows[cur[w]]] /\ cur[w] \in Jobs
          /\ UNCHANGED <<cur, answer, dbVars, calls, found, held, envVars>>
      BY <1>4, <2>2 DEF Load
    <3>2. QED
      BY <3>1
  <2>3. QED
    BY <2>1, <2>2
<1>5. ASSUME NEW w \in Workers, Succeed(w) PROVE TypeOK'
  BY <1>5, <1>n, WritesAreRows DEF Succeed, NextJob, Answers
<1>6. ASSUME NEW w \in Workers, Retry(w) PROVE TypeOK'
  BY <1>6, <1>n, WritesAreRows DEF Retry, NextJob, Answers
<1>7. ASSUME NEW w \in Workers, DeadLetter(w) PROVE TypeOK'
  BY <1>7, <1>n, WritesAreRows DEF DeadLetter, NextJob, Answers
<1>8. ASSUME NEW w \in Workers, Crash(w) PROVE TypeOK'
  BY <1>8, <1>n DEF Crash, Answers, NoRows
<1>9. ASSUME NEW j \in Jobs, Expire(j) PROVE rows' \in [Jobs -> Row]
  BY <1>9 DEF Expire, Row
<1>10. ASSUME NEW j \in Jobs, LockExpires(j) \/ LockOverrun(j) PROVE TypeOK'
  BY <1>9, <1>10 DEF LockExpires, LockOverrun, Expire
<1>11. ASSUME NEW j \in Jobs, RunAfterPasses(j) PROVE TypeOK'
  BY <1>11 DEF RunAfterPasses, Row
<1>12. CASE UNCHANGED vars
  BY <1>12 DEF vars
<1>13. QED
  BY <1>1, <1>2, <1>3, <1>4, <1>5, <1>6, <1>7, <1>8, <1>10, <1>11, <1>12
     DEF Next, WorkerStep, ClockStep

\* Every variable keeps its type, in every deployment.
THEOREM TypeCorrect == Spec => []TypeOK
BY TypeInit, TypeNext, PTL DEF Spec

-----------------------------------------------------------------------------
(* Ends are recorded, in every deployment *)

\* A write leaves the status it finds or sets its own, whatever the copy says.
LEMMA WrittenStatus ==
  ASSUME NEW db \in Row, NEW cp \in Row
  PROVE  /\ WriteRecovered(db, cp).status \in {db.status, "DEFERRED"}
         /\ WriteClaimed(db, cp).status \in {db.status, "RUNNING"}
         /\ WriteSucceeded(db, cp).status \in {db.status, "SUCCEEDED"}
         /\ WriteDeferred(db, cp).status \in {db.status, "DEFERRED"}
         /\ WriteDeadLettered(db, cp).status \in {db.status, "DEAD_LETTERED"}
BY DEF Row, WriteRecovered, WriteClaimed, WriteSucceeded, WriteDeferred,
       WriteDeadLettered, Flush, Freed, Recovered, Claimed

\* The claim transaction ends no job.
LEMMA ClaimStatus ==
  ASSUME TypeOK, NEW w \in Workers, NEW batch, NEW denied, NEW j \in Jobs
  PROVE  AfterClaim(w, batch, denied)[j].status
           \in {rows[j].status, "DEFERRED", "RUNNING"}
<1>1. AfterRecovery(w)[j].status \in {rows[j].status, "DEFERRED"}
  BY WrittenStatus DEF AfterRecovery, TypeOK
<1>2. AfterRecovery(w)[j] \in Row /\ SessionCopy(w, j) \in Row
  BY RecoveryType
<1>3. DEFINE claimed == WriteClaimed(AfterRecovery(w)[j], SessionCopy(w, j))
<1>4. claimed.status \in {rows[j].status, "DEFERRED", "RUNNING"} /\ claimed \in Row
  BY <1>1, <1>2, WrittenStatus, WritesAreRows
<1>5. WriteDeferred(claimed, Claimed(SessionCopy(w, j))).status
        \in {claimed.status, "DEFERRED"}
  BY <1>2, <1>4, WritesAreRows, WrittenStatus
<1>6. QED
  BY <1>1, <1>4, <1>5 DEF AfterClaim

\* No step leaves a row that ended without the record of its end.
LEMMA RecordedNext == TypeOK /\ OutcomeRecorded /\ [Next]_vars => OutcomeRecorded'
<1> SUFFICES ASSUME TypeOK, OutcomeRecorded, [Next]_vars PROVE OutcomeRecorded'
  OBVIOUS
<1> USE DEF TypeOK, OutcomeRecorded, dbVars, workerVars, envVars
<1>1. ASSUME NEW w \in Workers, ClaimBatch(w) PROVE OutcomeRecorded'
  <2>1. PICK batch, denied : Claim(w, batch, denied)
    BY <1>1 DEF ClaimBatch
  <2>2. rows' = AfterClaim(w, batch, denied) /\ UNCHANGED <<succeeded, deadLetters>>
    BY <2>1 DEF Claim
  <2>3. \A j \in Jobs : rows'[j].status \in {rows[j].status, "DEFERRED", "RUNNING"}
    BY <2>2, ClaimStatus
  <2>4. QED
    BY <2>2, <2>3
<1>2. ASSUME NEW w \in Workers, pc[w] = "loaded" PROVE cur[w] \in Jobs
  BY <1>2
<1>3. ASSUME NEW w \in Workers, Succeed(w) PROVE OutcomeRecorded'
  BY <1>2, <1>3, WrittenStatus DEF Succeed
<1>4. ASSUME NEW w \in Workers, Retry(w) PROVE OutcomeRecorded'
  BY <1>2, <1>4, WrittenStatus DEF Retry
<1>5. ASSUME NEW w \in Workers, DeadLetter(w) PROVE OutcomeRecorded'
  BY <1>2, <1>5, WrittenStatus DEF DeadLetter
<1>6. ASSUME NEW w \in Workers, LoadStale(w) \/ CallExternal(w) \/ Load(w) \/ Crash(w)
      PROVE  OutcomeRecorded'
  BY <1>6 DEF LoadStale, CallExternal, Load, Crash
<1>7. ASSUME NEW j \in Jobs, LockExpires(j) \/ LockOverrun(j) \/ RunAfterPasses(j)
      PROVE  OutcomeRecorded'
  <2>1. \A i \in Jobs : rows'[i].status = rows[i].status
    <3>1. CASE Expire(j)
      BY <3>1 DEF Expire, Row
    <3>2. CASE RunAfterPasses(j)
      BY <3>2 DEF RunAfterPasses, Row
    <3>3. QED
      BY <1>7, <3>1, <3>2 DEF LockExpires, LockOverrun
  <2>2. UNCHANGED <<succeeded, deadLetters>>
    BY <1>7 DEF LockExpires, LockOverrun, Expire, RunAfterPasses
  <2>3. QED
    BY <2>1, <2>2
<1>8. CASE UNCHANGED vars
  BY <1>8 DEF vars
<1>9. QED
  BY <1>1, <1>3, <1>4, <1>5, <1>6, <1>7, <1>8 DEF Next, WorkerStep, ClockStep

\* However many recoverers race and locks run out: a row that says it ended has
\* the audit event or the dead_letter_jobs row of that end.
THEOREM EndsAreRecorded == Spec => []OutcomeRecorded
<1>1. Init => OutcomeRecorded
  BY DEF Init, OutcomeRecorded, NewRow
<1>2. QED
  BY <1>1, TypeCorrect, RecordedNext, PTL DEF Spec

-----------------------------------------------------------------------------
(* Safe deployments *)

\* What a worker knows about the job whose closing transaction it is in.
LEMMA CurrentJob ==
  ASSUME SafeInv, NEW w \in Workers, pc[w] \in {"answered", "loaded"}
  PROVE  /\ cur[w] \in Jobs /\ cur[w] \in Mine(w)
         /\ rows[cur[w]] \in Row
         /\ rows[cur[w]].status = "RUNNING" /\ rows[cur[w]].lockedAt = "fresh"
         /\ \A v \in Workers : v # w => cur[w] \notin Mine(v) /\ cur[v] # cur[w]
         /\ \A v \in Workers : cur[w] \notin held[v] /\ cur[w] \notin DOMAIN found[v]
<1>1. cur[w] \in Jobs /\ cur[w] \in Mine(w) /\ rows[cur[w]] \in Row
  BY JobQueueAssumption DEF SafeInv, TypeOK, Mine
<1>2. rows[cur[w]].status = "RUNNING" /\ rows[cur[w]].lockedAt = "fresh"
  BY <1>1 DEF SafeInv, HoldersRun
<1>3. \A v \in Workers : v # w => cur[w] \notin Mine(v)
  BY <1>1 DEF SafeInv, Exclusive
<1>4. \A v \in Workers : v # w => cur[v] # cur[w]
  BY <1>1, <1>3, JobQueueAssumption DEF Mine
<1>5. \A v \in Workers : cur[w] \notin held[v]
  BY <1>3 DEF SafeInv, BatchInTick, Mine
<1>6. \A v \in Workers : cur[w] \notin DOMAIN found[v]
  BY <1>2 DEF SafeInv, CopiesCurrent, Stale
<1>7. QED
  BY <1>1, <1>2, <1>3, <1>4, <1>5, <1>6

\* The common part of Succeed, Retry and DeadLetter: the row of cur[w] becomes r,
\* which is no longer running, and the worker forgets the job.
Closes(w, r) ==
  /\ pc[w] = "loaded"
  /\ rows' = [rows EXCEPT ![cur[w]] = r]
  /\ r.status # "RUNNING" /\ r.attempts = rows[cur[w]].attempts
  /\ r.runAfter = "later" => r.status = "DEFERRED"
  /\ NextJob(w)
  /\ UNCHANGED <<calls, found, held, envVars>>

\* Closing a job preserves what does not count its ends.
LEMMA CloseKeepsSafe ==
  ASSUME SafeInv, NEW w \in Workers, NEW r, Closes(w, r)
  PROVE  /\ Exclusive' /\ HoldersRun' /\ RunningStamped' /\ CopiesCurrent'
         /\ BatchInTick' /\ EveryCallPaidFor' /\ CallsBounded' /\ AttemptsSpent'
<1> USE DEF Closes, NextJob, envVars
<1>1. /\ cur[w] \in Jobs
      /\ \A v \in Workers : v # w => cur[w] \notin Mine(v) /\ cur[v] # cur[w]
      /\ \A v \in Workers : cur[w] \notin held[v] /\ cur[w] \notin DOMAIN found[v]
  BY CurrentJob
<1>2. /\ rows \in [Jobs -> Row] /\ cur \in [Workers -> Jobs \cup {NoJob}]
      /\ held \in [Workers -> SUBSET Jobs] /\ DOMAIN pc = Workers
      /\ copy \in [Workers -> Row] /\ calls \in [Jobs -> Nat]
  BY DEF SafeInv, TypeOK
<1>3. \A j \in Jobs : j # cur[w] => rows'[j] = rows[j]
  BY <1>1, <1>2
<1>4. \A j \in Jobs : rows'[j].attempts = rows[j].attempts
  BY <1>1, <1>2, <1>3
<1>5. \A v \in Workers : v # w => cur'[v] = cur[v] /\ pc'[v] = pc[v] /\ copy'[v] = copy[v]
  BY <1>2
<1>6. cur'[w] = NoJob /\ pc'[w] \in {"idle", "working"}
  BY <1>2
<1>7. \A v \in Workers : Mine(v)' \subseteq Mine(v) /\ cur[w] \notin Mine(v)'
  BY <1>1, <1>5, <1>6 DEF Mine
<1>8. Exclusive'
  BY <1>7 DEF SafeInv, Exclusive
<1>9. HoldersRun'
  <2>1. \A v \in Workers : \A j \in Mine(v)' : j \in Mine(v) /\ j # cur[w]
    BY <1>7
  <2>2. \A v \in Workers : \A j \in Mine(v) : j \in Jobs
    BY <1>2 DEF Mine
  <2>3. QED
    BY <1>3, <2>1, <2>2 DEF SafeInv, HoldersRun
<1>10. RunningStamped'
  BY <1>1, <1>2, <1>3 DEF SafeInv, RunningStamped
<1>11. CopiesCurrent'
  <2>1. ASSUME NEW v \in Workers, pc'[v] = "loaded" PROVE copy'[v] = rows'[cur'[v]]
    <3>1. v # w /\ pc[v] = "loaded" /\ cur[v] \in Jobs
      BY <1>5, <1>6, <2>1, CurrentJob
    <3>2. QED
      BY <1>1, <1>3, <1>5, <3>1 DEF SafeInv, CopiesCurrent
  <2>2. ASSUME NEW v \in Workers, NEW j \in DOMAIN found'[v]
        PROVE  /\ v \in Recoverers /\ pc'[v] = "recovering"
               /\ Stale(rows'[j]) /\ found'[v][j] = rows'[j]
    <3>1. /\ v \in Recoverers /\ pc[v] = "recovering" /\ Stale(rows[j])
          /\ found[v][j] = rows[j] /\ j \in Jobs
      BY <2>2 DEF SafeInv, TypeOK, CopiesCurrent
    <3>2. v # w /\ j # cur[w]
      BY <1>1, <2>2, <3>1
    <3>3. QED
      BY <1>3, <1>5, <3>1, <3>2
  <2>3. QED
    BY <2>1, <2>2 DEF CopiesCurrent
<1>12. BatchInTick'
  <2>1. \A v \in Workers : cur'[v] \notin held'[v]
    BY <1>2, <1>5, <1>6, JobQueueAssumption DEF SafeInv, BatchInTick
  <2>2. pc'[w] = "idle" => held'[w] = {}
    BY <1>2
  <2>3. QED
    BY <1>5, <1>6, <2>1, <2>2 DEF SafeInv, BatchInTick
<1>13. EveryCallPaidFor' /\ CallsBounded' /\ AttemptsSpent'
  BY <1>4 DEF SafeInv, EveryCallPaidFor, CallsBounded, AttemptsSpent, Waiting
<1>14. QED
  BY <1>8, <1>9, <1>10, <1>11, <1>12, <1>13

\* Ending a job adds the one record of its end.
LEMMA EndKeepsSafe ==
  ASSUME SafeInv, TypeOK', NEW w \in Workers, NEW r, Closes(w, r),
         r.status \in Terminal,
         succeeded'[cur[w]] + deadLetters'[cur[w]] = succeeded[cur[w]] + deadLetters[cur[w]] + 1,
         \A j \in Jobs \ {cur[w]} :
           succeeded'[j] = succeeded[j] /\ deadLetters'[j] = deadLetters[j]
  PROVE  SafeInv'
<1>1. cur[w] \in Jobs /\ rows[cur[w]].status = "RUNNING"
  BY CurrentJob DEF Closes
<1>2. \A j \in Jobs : j # cur[w] => rows'[j] = rows[j]
  BY DEF Closes, SafeInv, TypeOK
<1>3. rows'[cur[w]].status \in Terminal
  BY <1>1 DEF Closes, SafeInv, TypeOK
<1>4. OneRecord'
  <2>1. succeeded[cur[w]] + deadLetters[cur[w]] = 0
    BY <1>1 DEF SafeInv, OneRecord, Terminal
  <2>2. QED
    BY <1>2, <1>3, <2>1 DEF SafeInv, OneRecord
<1>5. CallBudget'
  <2>1. \A j \in Jobs : j # cur[w] => (InCall(j) => InCall(j)')
    BY DEF Closes, NextJob, InCall, SafeInv, TypeOK
  <2>2. QED
    BY <1>2, <1>3, <2>1 DEF SafeInv, CallBudget, Closes, envVars
<1>6. QED
  BY <1>4, <1>5, CloseKeepsSafe DEF SafeInv

\* A success closes the call of its job, under the rows the worker loaded.
LEMMA SafeSucceed ==
  ASSUME SafeInv, NEW w \in Workers, Succeed(w), TypeOK'
  PROVE  SafeInv'
<1> DEFINE r == Freed(rows[cur[w]], "SUCCEEDED")
<1>1. copy[w] = rows[cur[w]] /\ cur[w] \in Jobs /\ rows[cur[w]] \in Row
  BY CurrentJob DEF Succeed, SafeInv, CopiesCurrent
<1>2. rows' = [rows EXCEPT ![cur[w]] = r]
  BY <1>1, WritesOfCurrentCopy DEF Succeed
<1>3. r.status = "SUCCEEDED" /\ r.attempts = rows[cur[w]].attempts /\ r.runAfter = "due"
  BY <1>1, CurrentJob DEF Freed, Row, SafeInv, RunningStamped, Succeed
<1>4. Closes(w, r)
  BY <1>2, <1>3 DEF Succeed, Closes
<1>5. /\ succeeded'[cur[w]] + deadLetters'[cur[w]] = succeeded[cur[w]] + deadLetters[cur[w]] + 1
      /\ \A j \in Jobs \ {cur[w]} :
           succeeded'[j] = succeeded[j] /\ deadLetters'[j] = deadLetters[j]
  BY <1>1 DEF Succeed, SafeInv, TypeOK
<1>6. QED
  BY <1>3, <1>4, <1>5, EndKeepsSafe DEF Terminal

\* A dead letter closes the call of its job in the same way.
LEMMA SafeDeadLetter ==
  ASSUME SafeInv, NEW w \in Workers, DeadLetter(w), TypeOK'
  PROVE  SafeInv'
<1> DEFINE r == Freed(rows[cur[w]], "DEAD_LETTERED")
<1>1. copy[w] = rows[cur[w]] /\ cur[w] \in Jobs /\ rows[cur[w]] \in Row
  BY CurrentJob DEF DeadLetter, SafeInv, CopiesCurrent
<1>2. rows' = [rows EXCEPT ![cur[w]] = r]
  BY <1>1, WritesOfCurrentCopy DEF DeadLetter
<1>3. r.status = "DEAD_LETTERED" /\ r.attempts = rows[cur[w]].attempts /\ r.runAfter = "due"
  BY <1>1, CurrentJob DEF Freed, Row, SafeInv, RunningStamped, DeadLetter
<1>4. Closes(w, r)
  BY <1>2, <1>3 DEF DeadLetter, Closes
<1>5. /\ succeeded'[cur[w]] + deadLetters'[cur[w]] = succeeded[cur[w]] + deadLetters[cur[w]] + 1
      /\ \A j \in Jobs \ {cur[w]} :
           succeeded'[j] = succeeded[j] /\ deadLetters'[j] = deadLetters[j]
  BY <1>1 DEF DeadLetter, SafeInv, TypeOK
<1>6. QED
  BY <1>3, <1>4, <1>5, EndKeepsSafe DEF Terminal

\* A retry leaves room for the next call: the job had fewer attempts than
\* max_attempts, and no more calls than attempts.
LEMMA SafeRetry ==
  ASSUME SafeInv, NEW w \in Workers, Retry(w), TypeOK'
  PROVE  SafeInv'
<1> DEFINE r == [Freed(rows[cur[w]], "DEFERRED") EXCEPT !.runAfter = "later"]
<1>1. copy[w] = rows[cur[w]] /\ cur[w] \in Jobs /\ rows[cur[w]] \in Row
      /\ rows[cur[w]].status = "RUNNING"
  BY CurrentJob DEF Retry, SafeInv, CopiesCurrent
<1>2. rows' = [rows EXCEPT ![cur[w]] = r]
  BY <1>1, WritesOfCurrentCopy DEF Retry
<1>3. r.status = "DEFERRED" /\ r.attempts = rows[cur[w]].attempts
  BY <1>1 DEF Freed, Row
<1>4. Closes(w, r)
  BY <1>2, <1>3 DEF Retry, Closes
<1>5. \A j \in Jobs : j # cur[w] => rows'[j] = rows[j]
  BY <1>2 DEF SafeInv, TypeOK
<1>6. rows'[cur[w]].status = "DEFERRED"
  BY <1>1, <1>2, <1>3 DEF SafeInv, TypeOK
<1>7. OneRecord'
  BY <1>1, <1>5, <1>6 DEF Retry, SafeInv, OneRecord, Terminal
<1>8. CallBudget'
  <2>1. \A j \in Jobs : j # cur[w] => (InCall(j) => InCall(j)')
    BY DEF Retry, NextJob, InCall, SafeInv, TypeOK
  <2>2. calls[cur[w]] < MaxAttempts
    <3>1. rows[cur[w]].attempts < MaxAttempts
      BY <1>1 DEF Retry, ShouldRetry
    <3>2. calls[cur[w]] <= rows[cur[w]].attempts
      BY <1>1 DEF SafeInv, EveryCallPaidFor
    <3>3. rows[cur[w]].attempts \in Nat /\ calls[cur[w]] \in Nat
      BY <1>1 DEF SafeInv, TypeOK, Row
    <3>4. QED
      BY <3>1, <3>2, <3>3, MaxAttemptsAssumption
  <2>3. calls'[cur[w]] < MaxAttempts + crashes'
    BY <1>1, <2>2, MaxAttemptsAssumption DEF Retry, envVars, SafeInv, TypeOK
  <2>4. QED
    BY <1>5, <2>1, <2>3 DEF SafeInv, CallBudget, Retry, envVars
<1>9. QED
  BY <1>3, <1>4, <1>7, <1>8, CloseKeepsSafe DEF SafeInv

\* The recovery SELECT finds only rows that no worker has in memory.
LEMMA SafeLoadStale ==
  ASSUME SafeInv, NEW w \in Workers, LoadStale(w), TypeOK'
  PROVE  SafeInv'
<1> USE DEF LoadStale, dbVars, envVars
<1>1. /\ pc[w] = "idle" /\ w \in Recoverers
      /\ pc' = [pc EXCEPT ![w] = "recovering"] /\ DOMAIN pc = Workers
      /\ DOMAIN found = Workers
  BY DEF SafeInv, TypeOK
<1>2. Exclusive' /\ HoldersRun'
  BY DEF SafeInv, Exclusive, HoldersRun, Mine
<1>3. RunningStamped' /\ OneRecord' /\ EveryCallPaidFor' /\ CallsBounded'
  BY DEF SafeInv, RunningStamped, OneRecord, EveryCallPaidFor, CallsBounded
<1>4. CallBudget' /\ AttemptsSpent'
  BY DEF SafeInv, CallBudget, AttemptsSpent, InCall, Waiting
<1>5. CopiesCurrent'
  BY <1>1 DEF SafeInv, CopiesCurrent
<1>6. BatchInTick'
  BY <1>1 DEF SafeInv, BatchInTick
<1>7. QED
  BY <1>2, <1>3, <1>4, <1>5, <1>6 DEF SafeInv

\* A call takes a claimed job out of the batch and uses up its attempt.
LEMMA SafeCallExternal ==
  ASSUME SafeInv, NEW w \in Workers, CallExternal(w), TypeOK'
  PROVE  SafeInv'
<1> USE DEF dbVars, envVars
<1>1. PICK j \in held[w], a \in Answers :
        /\ held' = [held EXCEPT ![w] = @ \ {j}]
        /\ cur' = [cur EXCEPT ![w] = j]
        /\ answer' = [answer EXCEPT ![w] = a]
        /\ calls' = [calls EXCEPT ![j] = @ + 1]
  BY DEF CallExternal
<1>2. /\ held \in [Workers -> SUBSET Jobs] /\ cur \in [Workers -> Jobs \cup {NoJob}]
      /\ calls \in [Jobs -> Nat] /\ j \in Jobs /\ DOMAIN pc = Workers
      /\ crashes \in Nat /\ denials \in Nat
  BY DEF SafeInv, TypeOK
<1>3. /\ pc[w] = "working" /\ pc' = [pc EXCEPT ![w] = "answered"]
      /\ rows' = rows /\ found' = found /\ copy' = copy
      /\ succeeded' = succeeded /\ deadLetters' = deadLetters
      /\ crashes' = crashes /\ denials' = denials
  BY DEF CallExternal
<1>4. cur[w] = NoJob /\ j # NoJob
  BY <1>2, <1>3, JobQueueAssumption DEF SafeInv, TypeOK
<1>5. j \in Mine(w) /\ \A v \in Workers : v # w => j \notin held[v] /\ cur[v] # j
  BY <1>2, <1>4 DEF SafeInv, Exclusive, Mine
<1>6. \A v \in Workers : Mine(v)' = Mine(v)
  BY <1>1, <1>2, <1>4 DEF Mine
<1>7. Exclusive' /\ HoldersRun'
  BY <1>3, <1>6 DEF SafeInv, Exclusive, HoldersRun
<1>8. RunningStamped' /\ OneRecord'
  BY <1>3 DEF SafeInv, RunningStamped, OneRecord
<1>9. CopiesCurrent'
  BY <1>1, <1>2, <1>3 DEF SafeInv, CopiesCurrent
<1>10. BatchInTick'
  BY <1>1, <1>2, <1>3 DEF SafeInv, BatchInTick
<1>11. ~Waiting(j)' /\ Waiting(j)
  BY <1>1, <1>2, <1>5 DEF Waiting
<1>12. ASSUME NEW i \in Jobs, i # j
       PROVE  /\ calls'[i] = calls[i]
              /\ (Waiting(i) <=> Waiting(i)') /\ (InCall(i) => InCall(i)')
  <2>1. calls'[i] = calls[i]
    BY <1>1, <1>2, <1>12
  <2>2. Waiting(i) <=> Waiting(i)'
    BY <1>1, <1>2, <1>12 DEF Waiting
  <2>3. InCall(i) => InCall(i)'
    BY <1>1, <1>2, <1>4, JobQueueAssumption DEF InCall
  <2>4. QED
    BY <2>1, <2>2, <2>3
<1>13. calls'[j] = calls[j] + 1 /\ InCall(j)'
  BY <1>1, <1>2 DEF InCall
<1>14. rows[j].status = "RUNNING" /\ rows[j].attempts \in Nat
  BY <1>2, <1>5 DEF SafeInv, HoldersRun, TypeOK, Row
<1>15. ~InCall(j)
  BY <1>4, <1>5 DEF InCall
<1>16. EveryCallPaidFor'
  <2>1. calls'[j] <= rows[j].attempts
    BY <1>2, <1>11, <1>13, <1>14 DEF SafeInv, EveryCallPaidFor, Waiting
  <2>2. \A i \in Jobs : calls'[i] <= rows'[i].attempts
    BY <1>3, <1>12, <2>1 DEF SafeInv, EveryCallPaidFor
  <2>3. \A i \in Jobs : Waiting(i)' => calls'[i] < rows'[i].attempts
    BY <1>3, <1>11, <1>12 DEF SafeInv, EveryCallPaidFor, Waiting
  <2>4. QED
    BY <2>2, <2>3 DEF EveryCallPaidFor, Waiting
<1>17. CallsBounded'
  <2>1. calls[j] < MaxAttempts + crashes
    BY <1>2, <1>14, <1>15 DEF SafeInv, CallBudget, Terminal
  <2>2. calls'[j] <= MaxAttempts + crashes
    BY <1>2, <1>13, <2>1, MaxAttemptsAssumption
  <2>3. QED
    BY <1>3, <1>12, <2>2 DEF SafeInv, CallsBounded
<1>18. CallBudget'
  BY <1>3, <1>12, <1>13 DEF SafeInv, CallBudget
<1>19. AttemptsSpent'
  <2>1. rows[j].attempts <= calls'[j] + crashes + denials + 0
    BY <1>2, <1>11, <1>13, <1>14 DEF SafeInv, AttemptsSpent
  <2>2. ASSUME NEW i \in Jobs
        PROVE  rows'[i].attempts <= calls'[i] + crashes' + denials'
                                    + (IF Waiting(i)' THEN 1 ELSE 0)
    <3>1. CASE i = j
      BY <1>3, <1>11, <2>1, <3>1
    <3>2. CASE i # j
      BY <1>3, <1>12, <3>2 DEF SafeInv, AttemptsSpent
    <3>3. QED
      BY <3>1, <3>2
  <2>3. QED
    BY <2>2 DEF AttemptsSpent
<1>20. QED
  BY <1>7, <1>8, <1>9, <1>10, <1>16, <1>17, <1>18, <1>19 DEF SafeInv

\* The closing transaction of a job finds it still running.
LEMMA SafeLoad ==
  ASSUME SafeInv, NEW w \in Workers, Load(w), TypeOK'
  PROVE  SafeInv'
<1> USE DEF dbVars, envVars
<1>1. /\ pc[w] = "answered" /\ pc' = [pc EXCEPT ![w] = "loaded"]
      /\ copy' = [copy EXCEPT ![w] = rows[cur[w]]]
      /\ UNCHANGED <<cur, rows, found, held, calls, succeeded, deadLetters,
                     crashes, denials>>
  BY CurrentJob DEF Load
<1>2. DOMAIN pc = Workers /\ DOMAIN copy = Workers
  BY DEF SafeInv, TypeOK
<1>3. Exclusive' /\ HoldersRun'
  BY <1>1 DEF SafeInv, Exclusive, HoldersRun, Mine
<1>4. RunningStamped' /\ OneRecord' /\ EveryCallPaidFor' /\ CallsBounded'
  BY <1>1 DEF SafeInv, RunningStamped, OneRecord, EveryCallPaidFor, CallsBounded
<1>5. CallBudget' /\ AttemptsSpent'
  BY <1>1 DEF SafeInv, CallBudget, AttemptsSpent, InCall, Waiting
<1>6. CopiesCurrent'
  BY <1>1, <1>2 DEF SafeInv, CopiesCurrent
<1>7. BatchInTick'
  BY <1>1, <1>2 DEF SafeInv, BatchInTick
<1>8. QED
  BY <1>3, <1>4, <1>5, <1>6, <1>7 DEF SafeInv

\* What a crash loses is the worker's memory; the call it may have wasted is the
\* one that CallsBounded grants for it.
LEMMA SafeCrash ==
  ASSUME SafeInv, NEW w \in Workers, Crash(w), TypeOK'
  PROVE  SafeInv'
<1> USE DEF dbVars, envVars
<1>1. /\ pc' = [pc EXCEPT ![w] = "idle"] /\ found' = [found EXCEPT ![w] = NoRows]
      /\ held' = [held EXCEPT ![w] = {}] /\ cur' = [cur EXCEPT ![w] = NoJob]
      /\ copy' = [copy EXCEPT ![w] = NewRow] /\ crashes' = crashes + 1
      /\ UNCHANGED <<rows, calls, succeeded, deadLetters, denials>>
  BY DEF Crash
<1>2. /\ DOMAIN pc = Workers /\ DOMAIN found = Workers /\ DOMAIN copy = Workers
      /\ held \in [Workers -> SUBSET Jobs] /\ cur \in [Workers -> Jobs \cup {NoJob}]
      /\ crashes \in Nat /\ denials \in Nat /\ calls \in [Jobs -> Nat]
      /\ rows \in [Jobs -> Row]
  BY DEF SafeInv, TypeOK
<1>3. \A v \in Workers : Mine(v)' \subseteq Mine(v)
  BY <1>1, <1>2 DEF Mine
<1>4. Exclusive' /\ HoldersRun'
  BY <1>1, <1>3 DEF SafeInv, Exclusive, HoldersRun
<1>5. RunningStamped' /\ OneRecord'
  BY <1>1 DEF SafeInv, RunningStamped, OneRecord
<1>6. EveryCallPaidFor'
  BY <1>1, <1>2 DEF SafeInv, EveryCallPaidFor
<1>7. CallsBounded' /\ CallBudget'
  <2>1. \A j \in Jobs : calls[j] <= MaxAttempts + crashes
    BY DEF SafeInv, CallsBounded
  <2>2. \A j \in Jobs : calls'[j] < MaxAttempts + crashes'
    BY <1>1, <1>2, <2>1, MaxAttemptsAssumption
  <2>3. \A j \in Jobs : calls'[j] <= MaxAttempts + crashes'
    BY <1>1, <1>2, <2>1, MaxAttemptsAssumption
  <2>4. QED
    BY <2>2, <2>3 DEF CallsBounded, CallBudget
<1>8. AttemptsSpent'
  <2>1. ASSUME NEW j \in Jobs
        PROVE  rows'[j].attempts <= calls'[j] + crashes' + denials'
                                    + (IF Waiting(j)' THEN 1 ELSE 0)
    <3>1. rows[j].attempts <= calls[j] + crashes + denials + (IF Waiting(j) THEN 1 ELSE 0)
      BY DEF SafeInv, AttemptsSpent
    <3>2. rows[j].attempts \in Nat /\ calls[j] \in Nat
      BY <1>2 DEF Row
    <3>3. rows[j].attempts <= calls[j] + crashes + denials + 1
      BY <1>2, <3>1, <3>2
    <3>4. QED
      BY <1>1, <1>2, <3>2, <3>3
  <2>2. QED
    BY <2>1 DEF AttemptsSpent
<1>9. DOMAIN NoRows = {}
  BY DEF NoRows
<1>10. CopiesCurrent'
  BY <1>1, <1>2, <1>9 DEF SafeInv, CopiesCurrent
<1>11. BatchInTick'
  BY <1>1, <1>2, JobQueueAssumption DEF SafeInv, BatchInTick
<1>12. QED
  BY <1>4, <1>5, <1>6, <1>7, <1>8, <1>10, <1>11 DEF SafeInv

\* A lock expires only under a job that no worker has in memory.
LEMMA SafeLockExpires ==
  ASSUME SafeInv, NEW j \in Jobs, LockExpires(j), TypeOK'
  PROVE  SafeInv'
<1>1. /\ ~Owned(j) /\ rows[j].lockedAt = "fresh"
      /\ rows' = [rows EXCEPT ![j].lockedAt = "expired"]
      /\ UNCHANGED <<pc, found, held, cur, copy, calls, succeeded, deadLetters,
                     crashes, denials>>
  BY DEF LockExpires, Expire, workerVars
<1>2. rows \in [Jobs -> Row] /\ cur \in [Workers -> Jobs \cup {NoJob}]
      /\ held \in [Workers -> SUBSET Jobs]
  BY DEF SafeInv, TypeOK
<1>3. \A i \in Jobs : i # j => rows'[i] = rows[i]
  BY <1>1, <1>2
<1>4. rows'[j].status = rows[j].status /\ rows'[j].attempts = rows[j].attempts
      /\ rows'[j].runAfter = rows[j].runAfter /\ rows'[j].lockedAt = "expired"
  BY <1>1, <1>2 DEF Row
<1>5. \A w \in Workers : j \notin Mine(w)
  BY <1>1 DEF Owned
<1>6. Exclusive' /\ HoldersRun'
  <2>1. \A w \in Workers : Mine(w)' = Mine(w) /\ Mine(w) \subseteq Jobs
    BY <1>1, <1>2 DEF Mine
  <2>2. Exclusive'
    BY <2>1 DEF SafeInv, Exclusive
  <2>3. HoldersRun'
    BY <1>3, <1>5, <2>1 DEF SafeInv, HoldersRun
  <2>4. QED
    BY <2>2, <2>3
<1>7. RunningStamped' /\ OneRecord'
  BY <1>1, <1>3, <1>4 DEF SafeInv, RunningStamped, OneRecord
<1>8. EveryCallPaidFor' /\ CallsBounded'
  BY <1>1, <1>3, <1>4 DEF SafeInv, EveryCallPaidFor, CallsBounded
<1>9. CallBudget' /\ AttemptsSpent'
  <2>1. \A i \in Jobs : rows'[i].status = rows[i].status /\ rows'[i].attempts = rows[i].attempts
    BY <1>3, <1>4
  <2>2. QED
    BY <1>1, <2>1 DEF SafeInv, CallBudget, AttemptsSpent, InCall, Waiting
<1>10. CopiesCurrent'
  <2>1. ASSUME NEW w \in Workers, pc[w] = "loaded" PROVE copy[w] = rows'[cur[w]]
    BY <1>3, <1>5, <2>1, CurrentJob DEF SafeInv, CopiesCurrent
  <2>2. ASSUME NEW w \in Workers, NEW i \in DOMAIN found[w]
        PROVE  Stale(rows'[i]) /\ found[w][i] = rows'[i]
    <3>1. i \in Jobs /\ Stale(rows[i]) /\ found[w][i] = rows[i]
      BY DEF SafeInv, TypeOK, CopiesCurrent
    <3>2. i # j
      BY <1>1, <3>1 DEF Stale
    <3>3. QED
      BY <1>3, <3>1, <3>2
  <2>3. QED
    BY <1>1, <2>1, <2>2 DEF SafeInv, CopiesCurrent
<1>11. BatchInTick'
  BY <1>1 DEF SafeInv, BatchInTick
<1>12. QED
  BY <1>6, <1>7, <1>8, <1>9, <1>10, <1>11 DEF SafeInv

\* Nobody holds or has loaded a row that is waiting for its run_after.
LEMMA SafeRunAfterPasses ==
  ASSUME SafeInv, NEW j \in Jobs, RunAfterPasses(j), TypeOK'
  PROVE  SafeInv'
<1>1. /\ rows[j].runAfter = "later" /\ rows' = [rows EXCEPT ![j].runAfter = "due"]
      /\ UNCHANGED <<pc, found, held, cur, copy, calls, succeeded, deadLetters,
                     crashes, denials>>
  BY DEF RunAfterPasses, workerVars, envVars
<1>2. rows \in [Jobs -> Row] /\ cur \in [Workers -> Jobs \cup {NoJob}]
      /\ held \in [Workers -> SUBSET Jobs]
  BY DEF SafeInv, TypeOK
<1>3. \A i \in Jobs : i # j => rows'[i] = rows[i]
  BY <1>1, <1>2
<1>4. rows'[j].status = rows[j].status /\ rows'[j].attempts = rows[j].attempts
      /\ rows'[j].runAfter = "due"
  BY <1>1, <1>2 DEF Row
<1>5. rows[j].status # "RUNNING"
  BY <1>1 DEF SafeInv, RunningStamped
<1>6. \A w \in Workers : j \notin Mine(w)
  BY <1>5 DEF SafeInv, HoldersRun
<1>7. Exclusive' /\ HoldersRun'
  <2>1. \A w \in Workers : Mine(w)' = Mine(w) /\ Mine(w) \subseteq Jobs
    BY <1>1, <1>2, JobQueueAssumption DEF Mine
  <2>2. Exclusive'
    BY <2>1 DEF SafeInv, Exclusive
  <2>3. HoldersRun'
    BY <1>3, <1>6, <2>1 DEF SafeInv, HoldersRun
  <2>4. QED
    BY <2>2, <2>3
<1>8. RunningStamped' /\ OneRecord'
  BY <1>1, <1>3, <1>4, <1>5 DEF SafeInv, RunningStamped, OneRecord
<1>9. EveryCallPaidFor' /\ CallsBounded'
  BY <1>1, <1>3, <1>4 DEF SafeInv, EveryCallPaidFor, CallsBounded
<1>10. CallBudget' /\ AttemptsSpent'
  <2>1. \A i \in Jobs : rows'[i].status = rows[i].status /\ rows'[i].attempts = rows[i].attempts
    BY <1>3, <1>4
  <2>2. QED
    BY <1>1, <2>1 DEF SafeInv, CallBudget, AttemptsSpent, InCall, Waiting
<1>11. CopiesCurrent'
  <2>1. ASSUME NEW w \in Workers, pc[w] = "loaded" PROVE copy[w] = rows'[cur[w]]
    BY <1>3, <1>6, <2>1, CurrentJob DEF SafeInv, CopiesCurrent
  <2>2. ASSUME NEW w \in Workers, NEW i \in DOMAIN found[w]
        PROVE  Stale(rows'[i]) /\ found[w][i] = rows'[i]
    <3>1. i \in Jobs /\ Stale(rows[i]) /\ found[w][i] = rows[i]
      BY DEF SafeInv, TypeOK, CopiesCurrent
    <3>2. i # j
      BY <1>5, <3>1 DEF Stale
    <3>3. QED
      BY <1>3, <3>1, <3>2
  <2>3. QED
    BY <1>1, <2>1, <2>2 DEF SafeInv, CopiesCurrent
<1>12. BatchInTick'
  BY <1>1 DEF SafeInv, BatchInTick
<1>13. QED
  BY <1>7, <1>8, <1>9, <1>10, <1>11, <1>12 DEF SafeInv

\* The claim transaction in a safe deployment.  The rows it recovers are still as
\* found, and nobody's; the rows it claims are open, and nobody's.
LEMMA ClaimEffect ==
  ASSUME SafeInv, NEW w \in Workers, NEW batch \in Batches(w),
         NEW denied \in SUBSET (batch \cap Deniable), Claim(w, batch, denied)
  PROVE  /\ batch \subseteq Jobs
         /\ \A j \in batch : /\ ~Owned(j) /\ rows[j].status \notin Terminal
                             /\ rows[j].status = "RUNNING" => j \in DOMAIN found[w]
                             /\ rows'[j].attempts = rows[j].attempts + 1
         /\ \A j \in denied : rows'[j].status = "DEFERRED"
         /\ \A j \in batch \ denied : /\ rows'[j].status = "RUNNING"
                                      /\ rows'[j].lockedAt = "fresh"
                                      /\ rows'[j].runAfter = "due"
         /\ \A j \in Jobs \ batch :
              \/ rows'[j] = rows[j]
              \/ /\ j \in DOMAIN found[w] /\ ~Owned(j) /\ rows[j].status = "RUNNING"
                 /\ rows'[j].status = "DEFERRED" /\ rows'[j].attempts = rows[j].attempts
<1> DEFINE now(j) == AfterRecovery(w)[j]
<1>1. batch \subseteq Jobs
  BY DeniedCount
<1>2. \A j \in Jobs : rows[j] \in Row
  BY DEF SafeInv, TypeOK
<1>3. ASSUME NEW j \in DOMAIN found[w]
      PROVE  /\ j \in Jobs /\ found[w][j] = rows[j] /\ Stale(rows[j]) /\ ~Owned(j)
             /\ now(j) = Recovered(rows[j]) /\ SessionCopy(w, j) = now(j)
  <2>1. j \in Jobs /\ found[w][j] = rows[j] /\ Stale(rows[j])
    BY DEF SafeInv, TypeOK, CopiesCurrent
  <2>2. ~Owned(j)
    BY <2>1 DEF SafeInv, HoldersRun, Owned, Stale
  <2>3. now(j) = WriteRecovered(rows[j], rows[j])
    BY <2>1 DEF AfterRecovery
  <2>4. now(j) = Recovered(rows[j])
    BY <1>2, <2>1, <2>3, WritesOfCurrentCopy
  <2>5. QED
    BY <2>1, <2>2, <2>4 DEF SessionCopy
<1>4. ASSUME NEW j \in Jobs, j \notin DOMAIN found[w]
      PROVE  now(j) = rows[j] /\ SessionCopy(w, j) = now(j)
  BY <1>4 DEF AfterRecovery, SessionCopy
<1>5. ASSUME NEW j \in Jobs
      PROVE  /\ now(j) \in Row /\ SessionCopy(w, j) = now(j)
             /\ now(j).attempts = rows[j].attempts
             /\ rows[j].status \in Terminal => now(j).status \in Terminal
  <2>1. now(j) \in Row
    BY RecoveryType DEF SafeInv
  <2>2. CASE j \in DOMAIN found[w]
    BY <1>2, <1>3, <2>1, <2>2 DEF Recovered, Freed, Row, Stale, Terminal
  <2>3. CASE j \notin DOMAIN found[w]
    BY <1>4, <2>1, <2>3
  <2>4. QED
    BY <2>2, <2>3
<1>6. \A j \in Jobs : WriteClaimed(now(j), SessionCopy(w, j)) = Claimed(now(j))
  BY <1>5, WritesOfCurrentCopy
<1>7. \A j \in Jobs : Claimed(now(j)) \in Row
  BY <1>5, WritesAreRows
<1>8. \A j \in Jobs :
        rows'[j] = IF j \in denied
                     THEN [Freed(Claimed(now(j)), "DEFERRED") EXCEPT !.runAfter = "later"]
                   ELSE IF j \in batch THEN Claimed(now(j))
                   ELSE now(j)
  BY <1>5, <1>6, <1>7, WritesOfCurrentCopy DEF Claim, AfterClaim
<1>9. ASSUME NEW j \in batch PROVE Ready(now(j)) /\ j \in Jobs
  BY <1>1 DEF Batches, Claimable
<1>10. ASSUME NEW j \in batch
       PROVE  /\ ~Owned(j) /\ rows[j].status \notin Terminal
              /\ rows[j].status = "RUNNING" => j \in DOMAIN found[w]
  <2>1. rows[j].status \notin Terminal
    BY <1>5, <1>9 DEF Ready, Terminal
  <2>2. rows[j].status = "RUNNING" => j \in DOMAIN found[w]
    BY <1>4, <1>9 DEF Ready
  <2>3. ~Owned(j)
    BY <1>3, <1>9, <2>2 DEF SafeInv, HoldersRun, Owned, Ready, AfterRecovery
  <2>4. QED
    BY <2>1, <2>2, <2>3
<1>11. ASSUME NEW j \in denied
       PROVE  rows'[j].status = "DEFERRED" /\ rows'[j].attempts = rows[j].attempts + 1
  <2>1. j \in Jobs
    BY <1>1
  <2>2. rows'[j] = [Freed(Claimed(now(j)), "DEFERRED") EXCEPT !.runAfter = "later"]
    BY <1>8, <2>1
  <2>3. QED
    BY <1>5, <1>7, <2>1, <2>2 DEF Freed, Claimed, Row
<1>12. ASSUME NEW j \in batch \ denied
       PROVE  /\ rows'[j].status = "RUNNING" /\ rows'[j].lockedAt = "fresh"
              /\ rows'[j].runAfter = "due" /\ rows'[j].attempts = rows[j].attempts + 1
  <2>1. rows'[j] = Claimed(now(j))
    BY <1>1, <1>8
  <2>2. QED
    BY <1>5, <1>9, <2>1 DEF Claimed, Ready
<1>13. ASSUME NEW j \in Jobs \ batch
       PROVE  \/ rows'[j] = rows[j]
              \/ /\ j \in DOMAIN found[w] /\ ~Owned(j) /\ rows[j].status = "RUNNING"
                 /\ rows'[j].status = "DEFERRED" /\ rows'[j].attempts = rows[j].attempts
  <2>1. rows'[j] = now(j)
    BY <1>8
  <2>2. CASE j \notin DOMAIN found[w]
    BY <1>4, <2>1, <2>2
  <2>3. CASE j \in DOMAIN found[w]
    <3>1. now(j).status = "DEFERRED"
      BY <1>2, <1>3, <2>3 DEF Recovered, Freed, Row
    <3>2. QED
      BY <1>3, <1>5, <2>1, <2>3, <3>1 DEF Stale
  <2>4. QED
    BY <2>2, <2>3
<1>14. QED
  BY <1>1, <1>10, <1>11, <1>12, <1>13

\* A claim takes only jobs that no worker has in memory and counts an attempt for each.
LEMMA SafeClaim ==
  ASSUME SafeInv, SafeDeployment, TypeOK', NEW w \in Workers,
         pc[w] = IF w \in Recoverers THEN "recovering" ELSE "idle",
         NEW batch \in Batches(w), NEW denied \in SUBSET (batch \cap Deniable),
         Claim(w, batch, denied)
  PROVE  SafeInv'
<1>1. /\ batch \subseteq Jobs
      /\ \A j \in batch : /\ ~Owned(j) /\ rows[j].status \notin Terminal
                          /\ rows[j].status = "RUNNING" => j \in DOMAIN found[w]
                          /\ rows'[j].attempts = rows[j].attempts + 1
      /\ \A j \in denied : rows'[j].status = "DEFERRED"
      /\ \A j \in batch \ denied : /\ rows'[j].status = "RUNNING"
                                   /\ rows'[j].lockedAt = "fresh"
                                   /\ rows'[j].runAfter = "due"
      /\ \A j \in Jobs \ batch :
           \/ rows'[j] = rows[j]
           \/ /\ j \in DOMAIN found[w] /\ ~Owned(j) /\ rows[j].status = "RUNNING"
              /\ rows'[j].status = "DEFERRED" /\ rows'[j].attempts = rows[j].attempts
  BY ClaimEffect
<1>2. /\ held' = [held EXCEPT ![w] = batch \ denied]
      /\ pc' = [pc EXCEPT ![w] = IF batch \ denied = {} THEN "idle" ELSE "working"]
      /\ found' = [found EXCEPT ![w] = NoRows]
      /\ denials' = denials + Cardinality(denied)
      /\ UNCHANGED <<deadLetters, succeeded, calls, cur, copy, crashes>>
  BY DEF Claim
<1>3. /\ DOMAIN pc = Workers /\ DOMAIN found = Workers
      /\ held \in [Workers -> SUBSET Jobs] /\ cur \in [Workers -> Jobs \cup {NoJob}]
      /\ crashes \in Nat /\ denials \in Nat /\ calls \in [Jobs -> Nat]
      /\ \A j \in Jobs : rows[j].attempts \in Nat
  BY DEF SafeInv, TypeOK, Row
<1>4. cur[w] = NoJob /\ held[w] = {}
  BY <1>3 DEF SafeInv, TypeOK, BatchInTick
<1>5. \A v \in Workers : v # w => held'[v] = held[v] /\ pc'[v] = pc[v] /\ found'[v] = found[v]
  BY <1>2, <1>3
<1>6. held'[w] = batch \ denied /\ DOMAIN found'[w] = {}
      /\ pc'[w] = IF batch \ denied = {} THEN "idle" ELSE "working"
  BY <1>2, <1>3 DEF NoRows
<1>7. Mine(w)' = batch \ denied /\ \A v \in Workers : v # w => Mine(v)' = Mine(v)
  BY <1>2, <1>4, <1>5, <1>6 DEF Mine
<1>8. \A v \in Workers : \A j \in Mine(v) : Owned(j) /\ j \in Jobs
  BY <1>3 DEF Owned, Mine
<1>9. \A j \in Jobs : Owned(j) => j \notin batch /\ rows'[j] = rows[j]
  BY <1>1
<1>10. Exclusive'
  BY <1>1, <1>7, <1>8, <1>9 DEF SafeInv, Exclusive
<1>11. HoldersRun'
  BY <1>1, <1>7, <1>8, <1>9 DEF SafeInv, HoldersRun
<1>12. RunningStamped'
  <2>1. ASSUME NEW j \in Jobs
        PROVE  /\ rows'[j].status = "RUNNING" => rows'[j].lockedAt # "null"
               /\ rows'[j].runAfter = "later" => rows'[j].status = "DEFERRED"
    <3>1. CASE j \in batch
      BY <1>1, <3>1
    <3>2. CASE j \notin batch
      BY <1>1, <3>2 DEF SafeInv, RunningStamped
    <3>3. QED
      BY <3>1, <3>2
  <2>2. QED
    BY <2>1 DEF RunningStamped
<1>13. CopiesCurrent'
  <2>1. ASSUME NEW v \in Workers, pc'[v] = "loaded" PROVE copy'[v] = rows'[cur'[v]]
    <3>1. v # w /\ pc[v] = "loaded"
      BY <1>5, <1>6, <2>1
    <3>2. cur[v] \in Jobs /\ Owned(cur[v]) /\ copy[v] = rows[cur[v]]
      BY <1>8, <3>1, CurrentJob DEF SafeInv, CopiesCurrent
    <3>3. QED
      BY <1>2, <1>9, <3>2
  <2>2. ASSUME NEW v \in Workers, NEW j \in DOMAIN found'[v]
        PROVE  /\ v \in Recoverers /\ pc'[v] = "recovering"
               /\ Stale(rows'[j]) /\ found'[v][j] = rows'[j]
    <3>1. v # w /\ found'[v] = found[v] /\ pc'[v] = pc[v]
      BY <1>5, <1>6, <2>2
    <3>2. /\ v \in Recoverers /\ pc[v] = "recovering" /\ Stale(rows[j])
          /\ found[v][j] = rows[j] /\ j \in Jobs
      BY <2>2, <3>1 DEF SafeInv, TypeOK, CopiesCurrent
    <3>3. w \notin Recoverers
      BY <3>1, <3>2 DEF SafeDeployment
    <3>4. DOMAIN found[w] = {}
      BY <3>3 DEF SafeInv, CopiesCurrent
    <3>5. rows[j].status = "RUNNING"
      BY <3>2 DEF Stale
    <3>6. rows'[j] = rows[j]
      BY <1>1, <3>2, <3>4, <3>5
    <3>7. QED
      BY <3>1, <3>2, <3>6
  <2>3. QED
    BY <2>1, <2>2 DEF CopiesCurrent
<1>14. BatchInTick'
  <2>1. \A v \in Workers : cur'[v] \notin held'[v]
    BY <1>1, <1>2, <1>4, <1>5, <1>6, JobQueueAssumption DEF SafeInv, BatchInTick
  <2>2. \A v \in Workers : pc'[v] \in {"idle", "recovering"} => held'[v] = {}
    BY <1>5, <1>6 DEF SafeInv, BatchInTick
  <2>3. QED
    BY <2>1, <2>2 DEF BatchInTick
<1>15. \A j \in Jobs : (rows'[j].status \in Terminal <=> rows[j].status \in Terminal)
  <2>1. ASSUME NEW j \in Jobs PROVE rows'[j].status \in Terminal <=> rows[j].status \in Terminal
    <3>1. CASE j \in batch
      BY <1>1, <3>1 DEF Terminal
    <3>2. CASE j \notin batch
      BY <1>1, <3>2 DEF Terminal
    <3>3. QED
      BY <3>1, <3>2
  <2>2. QED
    BY <2>1
<1>16. OneRecord'
  BY <1>2, <1>15 DEF SafeInv, OneRecord
<1>17. \A j \in Jobs : rows'[j].attempts = rows[j].attempts + (IF j \in batch THEN 1 ELSE 0)
  BY <1>1, <1>3
<1>18. EveryCallPaidFor'
  <2>1. ASSUME NEW j \in Jobs PROVE calls'[j] <= rows'[j].attempts
    BY <1>2, <1>3, <1>17 DEF SafeInv, EveryCallPaidFor
  <2>2. ASSUME NEW j \in Jobs, NEW v \in Workers, j \in held'[v]
        PROVE  calls'[j] < rows'[j].attempts
    <3>1. calls[j] <= rows[j].attempts /\ rows[j].attempts \in Nat /\ calls[j] \in Nat
      BY <1>3 DEF SafeInv, EveryCallPaidFor
    <3>2. CASE v = w
      BY <1>2, <1>6, <1>17, <2>2, <3>1, <3>2
    <3>3. CASE v # w
      BY <1>2, <1>3, <1>5, <1>17, <2>2, <3>1, <3>3 DEF SafeInv, EveryCallPaidFor
    <3>4. QED
      BY <3>2, <3>3
  <2>3. QED
    BY <2>1, <2>2 DEF EveryCallPaidFor
<1>19. CallsBounded' /\ CallBudget'
  BY <1>2, <1>15 DEF SafeInv, CallsBounded, CallBudget, InCall
<1>20. AttemptsSpent'
  <2>1. ASSUME NEW j \in Jobs
        PROVE  rows'[j].attempts <= calls'[j] + crashes' + denials'
                                    + (IF Waiting(j)' THEN 1 ELSE 0)
    <3>1. rows[j].attempts <= calls[j] + crashes + denials + (IF Waiting(j) THEN 1 ELSE 0)
      BY DEF SafeInv, AttemptsSpent
    <3>2. Cardinality(denied) \in Nat /\ (denied # {} => Cardinality(denied) > 0)
      BY DeniedCount
    <3>3. rows[j].attempts \in Nat /\ calls[j] \in Nat
      BY <1>3
    <3>4. Waiting(j) => Owned(j) /\ Waiting(j)'
      BY <1>4, <1>5 DEF Waiting, Owned, Mine
    <3>5. CASE j \notin batch
      BY <1>2, <1>3, <1>17, <3>1, <3>2, <3>3, <3>4, <3>5
    <3>6. CASE j \in denied
      <4>1. ~Waiting(j) /\ Cardinality(denied) > 0
        BY <1>1, <3>2, <3>4, <3>6
      <4>2. QED
        BY <1>2, <1>3, <1>17, <3>1, <3>2, <3>3, <3>6, <4>1
    <3>7. CASE j \in batch \ denied
      <4>1. ~Waiting(j) /\ Waiting(j)'
        BY <1>1, <1>6, <3>4, <3>7 DEF Waiting
      <4>2. QED
        BY <1>2, <1>3, <1>17, <3>1, <3>2, <3>3, <3>7, <4>1
    <3>8. QED
      BY <3>5, <3>6, <3>7
  <2>2. QED
    BY <2>1 DEF AttemptsSpent
<1>21. QED
  BY <1>10, <1>11, <1>12, <1>13, <1>14, <1>16, <1>18, <1>19, <1>20 DEF SafeInv

\* The initial state satisfies the invariant of a safe deployment.
LEMMA SafeInit == Init => SafeInv
<1> SUFFICES ASSUME Init PROVE SafeInv
  OBVIOUS
<1>1. TypeOK
  BY TypeInit
<1>2. \A w \in Workers : Mine(w) = {} /\ held[w] = {} /\ cur[w] = NoJob
                         /\ DOMAIN found[w] = {} /\ pc[w] = "idle"
  BY DEF Init, Mine, NoRows
<1>3. \A j \in Jobs : /\ rows[j] = NewRow /\ succeeded[j] = 0 /\ deadLetters[j] = 0
                      /\ calls[j] = 0
  BY DEF Init
<1>4. Exclusive /\ HoldersRun /\ RunningStamped /\ CopiesCurrent /\ BatchInTick /\ OneRecord
  BY <1>2, <1>3 DEF Exclusive, HoldersRun, RunningStamped, CopiesCurrent, BatchInTick,
     OneRecord, NewRow, Terminal
<1>5. EveryCallPaidFor /\ CallsBounded /\ CallBudget /\ AttemptsSpent
  BY <1>2, <1>3, MaxAttemptsAssumption DEF Init, EveryCallPaidFor, CallsBounded, CallBudget,
     AttemptsSpent, NewRow, Waiting
<1>6. QED
  BY <1>1, <1>4, <1>5 DEF SafeInv

\* Every step of a safe deployment keeps its invariant.
LEMMA SafeNext ==
  ASSUME SafeDeployment
  PROVE  SafeInv /\ [Next]_vars => SafeInv'
<1> SUFFICES ASSUME SafeInv, [Next]_vars PROVE SafeInv'
  OBVIOUS
<1>1. TypeOK'
  BY TypeNext DEF SafeInv
<1>2. ASSUME NEW w \in Workers, ClaimBatch(w) PROVE SafeInv'
  BY <1>1, <1>2, SafeClaim DEF ClaimBatch
<1>3. ASSUME NEW w \in Workers, WorkerStep(w) \/ Crash(w) PROVE SafeInv'
  BY <1>1, <1>2, <1>3, SafeLoadStale, SafeCallExternal, SafeLoad, SafeSucceed, SafeRetry,
     SafeDeadLetter, SafeCrash DEF WorkerStep
<1>4. ASSUME NEW j \in Jobs, ClockStep(j) PROVE SafeInv'
  BY <1>1, <1>4, SafeLockExpires, SafeRunAfterPasses DEF ClockStep
<1>5. ASSUME NEW j \in Jobs PROVE ~LockOverrun(j)
  BY DEF LockOverrun, SafeDeployment, SafeInv, TypeOK
<1>6. CASE UNCHANGED vars
  BY <1>6 DEF vars, dbVars, workerVars, envVars, SafeInv, TypeOK, Exclusive, HoldersRun,
     RunningStamped, CopiesCurrent, BatchInTick, OneRecord, EveryCallPaidFor, CallsBounded,
     CallBudget, AttemptsSpent, Mine, InCall, Waiting
<1>7. QED
  BY <1>3, <1>4, <1>5, <1>6 DEF Next

\* The invariant of a safe deployment, for any number of jobs, workers, crashes and
\* deferrals.
THEOREM SafeDeploymentInvariant ==
  ASSUME SafeDeployment
  PROVE  Spec => []SafeInv
BY SafeInit, SafeNext, PTL DEF Spec

\* No two workers of a safe deployment work on the same job, crashes included
\* (claim_ready_jobs, recover_stale_running_jobs).
THEOREM OneWorkerPerJob ==
  ASSUME SafeDeployment
  PROVE  Spec => []Exclusive
<1>1. SafeInv => Exclusive
  BY DEF SafeInv
<1>2. QED
  BY <1>1, SafeDeploymentInvariant, PTL

\* No row of a safe deployment runs without the stamp of its lock, so that stale-lock
\* recovery finds it when its worker is gone (recover_stale_running_jobs compares
\* locked_at, which NULL never satisfies).
THEOREM NoneStranded ==
  ASSUME SafeDeployment
  PROVE  Spec => []NoJobStranded
<1>1. SafeInv => NoJobStranded
  BY DEF SafeInv, RunningStamped, NoJobStranded
<1>2. QED
  BY <1>1, SafeDeploymentInvariant, PTL

\* The attempts column of a safe deployment never falls behind the external calls it
\* stands for (claim_ready_jobs counts, the copies written back keep the count).
THEOREM CallsArePaidFor ==
  ASSUME SafeDeployment
  PROVE  Spec => []EveryCallPaidFor
<1>1. SafeInv => EveryCallPaidFor
  BY DEF SafeInv
<1>2. QED
  BY <1>1, SafeDeploymentInvariant, PTL

\* max_attempts bounds the external calls of a job; each crash adds at most one.
THEOREM CallsStayBounded ==
  ASSUME SafeDeployment
  PROVE  Spec => []CallsBounded
<1>1. SafeInv => CallsBounded
  BY DEF SafeInv
<1>2. QED
  BY <1>1, SafeDeploymentInvariant, PTL

-----------------------------------------------------------------------------
(* Action properties of a safe deployment *)

\* No step of a safe deployment touches a row that has ended.
LEMMA TerminalStep ==
  ASSUME SafeDeployment, SafeInv, [Next]_vars, NEW j \in Jobs, rows[j].status \in Terminal
  PROVE  rows'[j] = rows[j]
<1>1. rows[j].status # "RUNNING" /\ rows[j].runAfter # "later"
  BY DEF Terminal, SafeInv, RunningStamped
<1>2. rows \in [Jobs -> Row]
  BY DEF SafeInv, TypeOK
<1>3. ASSUME NEW w \in Workers, ClaimBatch(w) PROVE rows'[j] = rows[j]
  BY <1>1, <1>3, ClaimEffect DEF ClaimBatch
<1>4. ASSUME NEW w \in Workers, Succeed(w) \/ Retry(w) \/ DeadLetter(w)
      PROVE  rows'[j] = rows[j]
  <2>1. j # cur[w]
    BY <1>1, <1>4, CurrentJob DEF Succeed, Retry, DeadLetter
  <2>2. QED
    BY <1>2, <1>4, <2>1 DEF Succeed, Retry, DeadLetter
<1>5. ASSUME NEW w \in Workers, LoadStale(w) \/ CallExternal(w) \/ Load(w) \/ Crash(w)
      PROVE  rows'[j] = rows[j]
  BY <1>5 DEF LoadStale, CallExternal, Load, Crash, dbVars
<1>6. ASSUME NEW i \in Jobs, LockExpires(i) \/ LockOverrun(i) \/ RunAfterPasses(i)
      PROVE  rows'[j] = rows[j]
  <2>1. j # i
    BY <1>1, <1>6 DEF LockExpires, LockOverrun, Expire, RunAfterPasses
  <2>2. QED
    BY <1>2, <1>6, <2>1 DEF LockExpires, LockOverrun, Expire, RunAfterPasses
<1>7. CASE UNCHANGED vars
  BY <1>7 DEF vars, dbVars
<1>8. QED
  BY <1>3, <1>4, <1>5, <1>6, <1>7 DEF Next, WorkerStep, ClockStep

\* SUCCEEDED and DEAD_LETTERED are terminal in a safe deployment: no late handler,
\* recovery or claim reopens a job (mark_succeeded, dead_letter).
THEOREM EndsAreFinal ==
  ASSUME SafeDeployment
  PROVE  Spec => TerminalIsFinal
<1>1. SafeInv /\ [Next]_vars
        => [\A j \in Jobs : rows[j].status \in Terminal => rows'[j] = rows[j]]_vars
  BY TerminalStep
<1>2. QED
  BY <1>1, SafeDeploymentInvariant, PTL DEF Spec, TerminalIsFinal

\* A job given up after retryable failures in a safe deployment has used its
\* max_attempts on calls, but for what crashes and rate-limit deferrals took.
THEOREM RetriesAreSpent ==
  ASSUME SafeDeployment
  PROVE  Spec => RetriesSpent
<1>1. ASSUME SafeInv, NEW w \in Workers, GivesUp(w)
      PROVE  calls[cur[w]] + crashes + denials >= MaxAttempts
  <2>1. cur[w] \in Jobs /\ ~Waiting(cur[w]) /\ copy[w] = rows[cur[w]]
        /\ copy[w].attempts >= MaxAttempts
    <3>1. pc[w] = "loaded" /\ answer[w] = "retryable"
      BY <1>1 DEF GivesUp, DeadLetter
    <3>2. ~ShouldRetry(copy[w])
      BY <1>1, <3>1 DEF GivesUp, DeadLetter
    <3>3. cur[w] \in Jobs /\ ~Waiting(cur[w]) /\ copy[w] = rows[cur[w]]
      BY <1>1, <3>1, CurrentJob DEF Waiting, SafeInv, CopiesCurrent
    <3>4. copy[w].attempts \in Nat
      BY <1>1 DEF SafeInv, TypeOK, Row
    <3>5. QED
      BY <3>2, <3>3, <3>4, MaxAttemptsAssumption DEF ShouldRetry
  <2>2. rows[cur[w]].attempts <= calls[cur[w]] + crashes + denials + 0
    BY <1>1, <2>1 DEF SafeInv, AttemptsSpent
  <2>3. /\ rows[cur[w]].attempts \in Nat /\ calls[cur[w]] \in Nat
        /\ crashes \in Nat /\ denials \in Nat
    BY <1>1, <2>1 DEF SafeInv, TypeOK, Row
  <2>4. QED
    BY <2>1, <2>2, <2>3, MaxAttemptsAssumption
<1>2. SafeInv /\ [Next]_vars
        => [\A w \in Workers :
              GivesUp(w) => calls[cur[w]] + crashes + denials >= MaxAttempts]_vars
  BY <1>1
<1>3. QED
  BY <1>2, SafeDeploymentInvariant, PTL DEF Spec, RetriesSpent

-----------------------------------------------------------------------------
(* Stranded rows, whatever locks run out *)

\* The workers that ask for a job, and those that may have it in memory: these, and those
\* whose tick recovers stale locks.
Takers(j) == {w \in Workers : j \in Takes[w]}

Crew(j) == Takers(j) \cup Recoverers

LoneTaker(j) == \A v, w \in Takers(j) : v = w

\* Two workers at most may have the job.
PairAtMost(j) == \A u, v, w \in Crew(j) : u = v \/ u = w \/ v = w

\* One process per job type, however many recover; or two processes that do everything.
SmallCrews == \A j \in Jobs : LoneTaker(j) \/ PairAtMost(j)

Involved(w, j) == j \in Mine(w) \/ j \in DOMAIN found[w]

Loaded(w, j) == cur[w] = j /\ pc[w] = "loaded"

\* What a worker has in memory, in every deployment.
Session(w) ==
  /\ Mine(w) \subseteq Takes[w] /\ cur[w] \notin held[w]
  /\ pc[w] \in {"idle", "recovering"} => held[w] = {}
  /\ \A j \in DOMAIN found[w] :
       w \in Recoverers /\ pc[w] = "recovering" /\ Stale(found[w][j])

Sessions == \A w \in Workers : Session(w)

\* With one taker the stamp goes with the status: while the taker closes the job nobody
\* claims it, so at worst its copy says RUNNING and the row was recovered.
LoneInv(j) ==
  /\ rows[j].status = "RUNNING" <=> rows[j].lockedAt # "null"
  /\ \A w \in Workers : Loaded(w, j) =>
       /\ copy[w].status = "RUNNING" <=> copy[w].lockedAt # "null"
       /\ rows[j].status = "RUNNING" => copy[w].status = "RUNNING"

\* With two workers a row may end with a stamp left on it, but then only one of the two
\* has the job, and what it loads is what stays.
PairInv(j) ==
  /\ rows[j].status = "RUNNING" => rows[j].lockedAt # "null"
  /\ rows[j].status \in {"PENDING", "DEFERRED"} => rows[j].lockedAt = "null"
  /\ rows[j].status = "PENDING" => \A w \in Workers : j \notin Mine(w)
  /\ rows[j].status \in Terminal =>
       \A v, w \in Workers : Involved(v, j) /\ Involved(w, j) => v = w
  /\ \A w \in Workers : Loaded(w, j) =>
       /\ copy[w].status = "RUNNING" => copy[w].lockedAt # "null"
       /\ copy[w].status = "DEFERRED" => copy[w].lockedAt = "null"
       /\ copy[w].status # "PENDING"
       /\ answer[w] = "ok" => copy[w].status = "RUNNING"
       /\ copy[w].status \in Terminal =>
            copy[w].status = rows[j].status /\ copy[w].lockedAt = rows[j].lockedAt

StrandInv ==
  /\ TypeOK /\ Sessions
  /\ \A j \in Jobs : (LoneTaker(j) => LoneInv(j)) /\ (PairAtMost(j) => PairInv(j))

\* A step in which v reads nothing of job j, and comes to it only by finding it stale.
Unread(v, j) ==
  Loaded(v, j)' => Loaded(v, j) /\ copy'[v] = copy[v] /\ answer'[v] = answer[v]

Kept(v, j) ==
  /\ Involved(v, j)' => Involved(v, j) \/ rows[j].status = "RUNNING"
  /\ j \in Mine(v)' => j \in Mine(v)

\* What a step can mean for a job: nothing but time, ...
Passes(j) ==
  /\ rows'[j].status = rows[j].status
  /\ \/ rows'[j].lockedAt = rows[j].lockedAt
     \/ rows[j].status = "RUNNING" /\ rows[j].lockedAt # "null" /\ rows'[j].lockedAt # "null"
  /\ \A v \in Workers : Unread(v, j) /\ Kept(v, j)

\* ... its row is loaded by its worker, ...
Loads(w, j) ==
  /\ rows'[j] = rows[j] /\ copy'[w] = rows[j] /\ answer'[w] = answer[w]
  /\ j \in Mine(w) /\ (answer[w] = "ok" => rows[j].status = "RUNNING")
  /\ \A v \in Workers : (v # w => Unread(v, j)) /\ Kept(v, j)

\* ... the worker writes a status and frees the lock, as far as its copy differs, ...
Frees(w, j, s) ==
  /\ Loaded(w, j) /\ s \in {"SUCCEEDED", "DEFERRED", "DEAD_LETTERED"}
  /\ s = "SUCCEEDED" => answer[w] = "ok"
  /\ rows'[j].status = IF copy[w].status = s THEN rows[j].status ELSE s
  /\ rows'[j].lockedAt = IF copy[w].lockedAt = "null" THEN rows[j].lockedAt ELSE "null"
  /\ ~ Involved(w, j)' /\ ~ Loaded(w, j)'
  /\ \A v \in Workers : Unread(v, j) /\ Kept(v, j)

\* ... or a claim transaction recovers it, claims it, or both.
Claims(w, j) ==
  /\ \/ j \in DOMAIN found[w]
     \/ j \in Takes[w] /\ rows[j].status \in {"PENDING", "DEFERRED"}
  /\ \/ rows'[j].status = "DEFERRED" /\ rows'[j].lockedAt = "null" /\ j \notin Mine(w)'
     \/ rows'[j].status = "RUNNING" /\ rows'[j].lockedAt = "fresh" /\ j \in Takes[w]
  /\ ~ Loaded(w, j) /\ ~ Loaded(w, j)'
  /\ \A v \in Workers : Unread(v, j) /\ (v # w => Kept(v, j))

\* The three writes that close a job.
LEMMA ClosingWrites ==
  ASSUME NEW db \in Row, NEW c \in Row, NEW x, NEW s,
         \/ x = WriteSucceeded(db, c) /\ s = "SUCCEEDED"
         \/ x = WriteDeferred(db, c) /\ s = "DEFERRED"
         \/ x = WriteDeadLettered(db, c) /\ s = "DEAD_LETTERED"
  PROVE  /\ x.status = IF c.status = s THEN db.status ELSE s
         /\ x.lockedAt = IF c.lockedAt = "null" THEN db.lockedAt ELSE "null"
<1>1. Freed(c, s).status = s /\ Freed(c, s).lockedAt = "null"
  BY DEF Freed, Row
<1>2. \A new :
        /\ Flush(db, c, new).status =
             IF new.status = c.status THEN db.status ELSE new.status
        /\ Flush(db, c, new).lockedAt =
             IF new.lockedAt = c.lockedAt THEN db.lockedAt ELSE new.lockedAt
  BY DEF Flush
<1>3. /\ Flush(db, c, Freed(c, s)).status = IF c.status = s THEN db.status ELSE s
      /\ Flush(db, c, Freed(c, s)).lockedAt =
           IF c.lockedAt = "null" THEN db.lockedAt ELSE "null"
  BY <1>1, <1>2
<1>4. \A r : r = [Flush(db, c, Freed(c, s)) EXCEPT !.runAfter = "later"] =>
        /\ r.status = Flush(db, c, Freed(c, s)).status
        /\ r.lockedAt = Flush(db, c, Freed(c, s)).lockedAt
  BY DEF Flush
<1>5. QED
  BY <1>3, <1>4 DEF WriteSucceeded, WriteDeferred, WriteDeadLettered

\* What the claim transaction makes of a row.
LEMMA ClaimRow ==
  ASSUME TypeOK, Sessions, NEW w \in Workers, NEW batch \in Batches(w),
         NEW denied \in SUBSET batch, Claim(w, batch, denied), NEW j \in Jobs
  PROVE  /\ j \in batch => /\ j \in Takes[w]
                           /\ \/ j \in DOMAIN found[w]
                              \/ rows[j].status \in {"PENDING", "DEFERRED"}
         /\ j \in denied => rows'[j].status = "DEFERRED" /\ rows'[j].lockedAt = "null"
         /\ j \in batch \ denied => rows'[j].status = "RUNNING" /\ rows'[j].lockedAt = "fresh"
         /\ j \notin batch /\ j \in DOMAIN found[w] =>
              rows'[j].status = "DEFERRED" /\ rows'[j].lockedAt = "null"
         /\ j \notin batch /\ j \notin DOMAIN found[w] => rows'[j] = rows[j]
<1> DEFINE db == AfterRecovery(w)[j]
           c == SessionCopy(w, j)
           claimed == WriteClaimed(db, c)
<1>1. db \in Row /\ c \in Row /\ rows[j] \in Row
  BY RecoveryType DEF TypeOK
<1>2. rows'[j] = IF j \in denied THEN WriteDeferred(claimed, Claimed(c))
                 ELSE IF j \in batch THEN claimed
                 ELSE db
  BY DEF Claim, AfterClaim
<1>3. j \in DOMAIN found[w] => /\ db.status = "DEFERRED" /\ db.lockedAt = "null"
                               /\ c.status = "DEFERRED"
  <2> SUFFICES ASSUME j \in DOMAIN found[w]
               PROVE  db.status = "DEFERRED" /\ db.lockedAt = "null" /\ c.status = "DEFERRED"
    OBVIOUS
  <2>1. PICK f \in Row : f = found[w][j]
    BY DEF TypeOK
  <2>2. f.status = "RUNNING" /\ f.lockedAt = "expired"
    BY <2>1 DEF Sessions, Session, Stale
  <2>3. /\ Recovered(f).status = "DEFERRED" /\ Recovered(f).lockedAt = "null"
    BY <2>1 DEF Recovered, Freed, Row
  <2>4. db = WriteRecovered(rows[j], f) /\ c = Recovered(f)
    BY <2>1 DEF AfterRecovery, SessionCopy
  <2> HIDE DEF db, c
  <2>5. /\ WriteRecovered(rows[j], f).status = "DEFERRED"
        /\ WriteRecovered(rows[j], f).lockedAt = "null"
    BY <2>2, <2>3 DEF WriteRecovered, Flush
  <2>6. QED
    BY <2>3, <2>4, <2>5
<1>4. j \notin DOMAIN found[w] => db = rows[j] /\ c = rows[j]
  BY DEF AfterRecovery, SessionCopy
<1>5. j \in batch => /\ j \in Takes[w] /\ db.status \in {"PENDING", "DEFERRED"}
                     /\ c.status \in {"PENDING", "DEFERRED"}
  <2>1. j \in batch => j \in Takes[w] /\ Ready(db)
    BY DEF Batches, Claimable
  <2>2. QED
    BY <1>3, <1>4, <2>1 DEF Ready
<1>6. j \in batch => /\ claimed \in Row /\ claimed.status = "RUNNING"
                     /\ claimed.lockedAt = "fresh"
  <2> SUFFICES ASSUME j \in batch
               PROVE  /\ claimed \in Row /\ claimed.status = "RUNNING"
                      /\ claimed.lockedAt = "fresh"
    OBVIOUS
  <2> HIDE DEF db, c
  <2>1. claimed \in Row
    BY <1>1, WritesAreRows
  <2>2. c.status # "RUNNING" /\ Claimed(c).status = "RUNNING"
    BY <1>5 DEF Claimed
  <2>3. QED
    BY <2>1, <2>2 DEF WriteClaimed, Flush
<1> HIDE DEF db, c, claimed
<1>7. /\ Claimed(c) \in Row /\ Claimed(c).status = "RUNNING" /\ Claimed(c).lockedAt = "fresh"
  BY <1>1, WritesAreRows DEF Claimed
<1>8. j \in batch => /\ WriteDeferred(claimed, Claimed(c)).status = "DEFERRED"
                     /\ WriteDeferred(claimed, Claimed(c)).lockedAt = "null"
  BY <1>6, <1>7, ClosingWrites
<1>9. QED
  BY <1>2, <1>3, <1>4, <1>5, <1>6, <1>8

\* The memory of the other workers, when a step is w's.
LEMMA OthersKeep ==
  ASSUME NEW w \in Workers, NEW v \in Workers, v # w, NEW j \in Jobs,
         cur'[v] = cur[v], pc'[v] = pc[v], copy'[v] = copy[v], answer'[v] = answer[v],
         held'[v] = held[v], found'[v] = found[v]
  PROVE  Unread(v, j) /\ Kept(v, j)
BY DEF Unread, Kept, Involved, Mine, Loaded

\* A claim transaction claims some jobs and recovers some; nobody reads.
LEMMA ClaimKinds ==
  ASSUME TypeOK, Sessions, NEW w \in Workers, ClaimBatch(w), NEW j \in Jobs
  PROVE  Passes(j) \/ Claims(w, j)
<1>0. PICK batch \in Batches(w) : \E denied \in SUBSET (batch \cap Deniable) :
         denials + Cardinality(denied) <= MaxDenials /\ Claim(w, batch, denied)
  BY DEF ClaimBatch
<1>1. PICK denied \in SUBSET batch : Claim(w, batch, denied)
  BY <1>0
<1>2. /\ pc[w] \in {"idle", "recovering"} /\ cur[w] = NoJob /\ cur'[w] = NoJob
      /\ pc'[w] \in {"idle", "working"}
  BY <1>1 DEF ClaimBatch, Claim, TypeOK
<1>3. /\ held'[w] = batch \ denied /\ DOMAIN found'[w] = {} /\ held[w] = {}
      /\ cur' = cur /\ copy' = copy /\ answer' = answer
      /\ \A v \in Workers \ {w} : pc'[v] = pc[v] /\ held'[v] = held[v] /\ found'[v] = found[v]
  BY <1>1, <1>2 DEF Claim, TypeOK, NoRows, Sessions, Session
<1>4. \A v \in Workers : v # w => Unread(v, j) /\ Kept(v, j)
  BY <1>3, OthersKeep
<1>5. ~ Loaded(w, j) /\ ~ Loaded(w, j)' /\ Unread(w, j)
  BY <1>2 DEF Loaded, Unread
<1>6. /\ j \in Mine(w)' <=> j \in batch \ denied
      /\ ~ (j \in DOMAIN found'[w])
  BY <1>2, <1>3 DEF Mine
<1>7. CASE j \in batch \/ j \in DOMAIN found[w]
  BY <1>1, <1>4, <1>5, <1>6, <1>7, ClaimRow DEF Claims
<1>8. CASE j \notin batch /\ j \notin DOMAIN found[w]
  <2>1. rows'[j] = rows[j]
    BY <1>1, <1>8, ClaimRow
  <2>2. Kept(w, j)
    BY <1>6, <1>8 DEF Kept, Involved
  <2>3. QED
    BY <1>4, <1>5, <2>1, <2>2 DEF Passes
<1>9. QED
  BY <1>7, <1>8

\* A worker that ends a job has no more of it in memory.
LEMMA NextJobFacts ==
  ASSUME TypeOK, Sessions, NEW w \in Workers, pc[w] \in {"answered", "loaded"}, NextJob(w),
         held' = held, found' = found, NEW j \in Jobs
  PROVE  /\ cur[w] \in Jobs /\ DOMAIN found[w] = {}
         /\ ~ Loaded(w, j)' /\ (j = cur[w] => ~ Involved(w, j)')
         /\ \A v \in Workers : Unread(v, j) /\ Kept(v, j)
<1>1. /\ cur[w] \in Jobs /\ cur'[w] = NoJob /\ pc'[w] \in {"idle", "working"}
      /\ \A v \in Workers \ {w} : /\ cur'[v] = cur[v] /\ pc'[v] = pc[v]
                                  /\ copy'[v] = copy[v] /\ answer'[v] = answer[v]
  BY DEF NextJob, TypeOK
<1>2. DOMAIN found[w] = {} /\ cur[w] \notin held[w]
  BY DEF Sessions, Session
<1>3. ~ Loaded(w, j)' /\ Unread(w, j)
  BY <1>1 DEF Loaded, Unread
<1>4. (j \in Mine(w)' <=> j \in held[w]) /\ (j \in held[w] => j \in Mine(w))
  BY <1>1 DEF Mine
<1>5. Kept(w, j) /\ (j = cur[w] => ~ Involved(w, j)')
  BY <1>2, <1>4 DEF Kept, Involved
<1>6. \A v \in Workers : v # w => Unread(v, j) /\ Kept(v, j)
  BY <1>1, OthersKeep
<1>7. QED
  BY <1>1, <1>2, <1>3, <1>5, <1>6

\* Any step is one of the four for any job.
LEMMA StepKinds ==
  ASSUME TypeOK, Sessions, [Next]_vars, NEW j \in Jobs
  PROVE  \/ Passes(j)
         \/ \E w \in Workers : \/ Loads(w, j) \/ Claims(w, j)
                               \/ \E s : Frees(w, j, s)
<1> USE DEF dbVars, workerVars, envVars
<1>1. ASSUME rows'[j] = rows[j], UNCHANGED workerVars PROVE Passes(j)
  BY <1>1 DEF Passes, Unread, Kept, Loaded, Involved, Mine
<1>2. ASSUME NEW k \in Jobs, LockExpires(k) \/ LockOverrun(k) \/ RunAfterPasses(k)
      PROVE  Passes(j)
  <2>1. UNCHANGED workerVars
    BY <1>2 DEF LockExpires, LockOverrun, Expire, RunAfterPasses
  <2>2. \A v \in Workers : Unread(v, j) /\ Kept(v, j)
    BY <2>1 DEF Unread, Kept, Loaded, Involved, Mine
  <2>3. rows[j] \in Row
    BY DEF TypeOK
  <2>4. CASE Expire(k)
    <3>1. \/ rows'[j] = rows[j]
          \/ /\ rows[j].status = "RUNNING" /\ rows[j].lockedAt = "fresh"
             /\ rows'[j] = [rows[j] EXCEPT !.lockedAt = "expired"]
      BY <2>4 DEF Expire, TypeOK
    <3>2. QED
      BY <2>2, <2>3, <3>1 DEF Passes, Row
  <2>5. CASE RunAfterPasses(k)
    <3>1. rows'[j] \in {rows[j], [rows[j] EXCEPT !.runAfter = "due"]}
      BY <2>5 DEF RunAfterPasses, TypeOK
    <3>2. QED
      BY <2>2, <2>3, <3>1 DEF Passes, Row
  <2>6. QED
    BY <1>2, <2>4, <2>5 DEF LockExpires, LockOverrun
<1>3. ASSUME NEW w \in Workers, LoadStale(w) PROVE Passes(j)
  <2>1. /\ rows' = rows /\ cur' = cur /\ held' = held /\ copy' = copy /\ answer' = answer
        /\ pc'[w] = "recovering"
        /\ \A k \in DOMAIN found'[w] : rows[k].status = "RUNNING"
        /\ \A v \in Workers \ {w} : pc'[v] = pc[v] /\ found'[v] = found[v]
    BY <1>3 DEF LoadStale, TypeOK, Stale
  <2>2. Unread(w, j) /\ Kept(w, j)
    BY <2>1 DEF Unread, Kept, Loaded, Involved, Mine
  <2>3. \A v \in Workers : v # w => Unread(v, j) /\ Kept(v, j)
    BY <2>1, OthersKeep
  <2>4. QED
    BY <2>1, <2>2, <2>3 DEF Passes
<1>4. ASSUME NEW w \in Workers, CallExternal(w) PROVE Passes(j)
  <2>1. PICK k \in held[w], a \in Answers :
          /\ held' = [held EXCEPT ![w] = @ \ {k}] /\ cur' = [cur EXCEPT ![w] = k]
          /\ answer' = [answer EXCEPT ![w] = a]
    BY <1>4 DEF CallExternal
  <2>2. /\ rows' = rows /\ found' = found /\ copy' = copy
        /\ pc'[w] = "answered" /\ cur'[w] = k /\ held'[w] = held[w] \ {k}
        /\ \A v \in Workers \ {w} : /\ pc'[v] = pc[v] /\ cur'[v] = cur[v]
                                    /\ held'[v] = held[v] /\ answer'[v] = answer[v]
    BY <1>4, <2>1 DEF CallExternal, TypeOK
  <2>3. Unread(w, j)
    BY <2>2 DEF Unread, Loaded
  <2>4. Kept(w, j)
    BY <2>1, <2>2 DEF Kept, Involved, Mine
  <2>5. \A v \in Workers : v # w => Unread(v, j) /\ Kept(v, j)
    BY <2>2, OthersKeep
  <2>6. QED
    BY <2>2, <2>3, <2>4, <2>5 DEF Passes
<1>5. ASSUME NEW w \in Workers, Load(w) PROVE Passes(j) \/ Loads(w, j)
  <2>1. /\ rows' = rows /\ held' = held /\ found' = found /\ pc[w] = "answered"
    BY <1>5 DEF Load
  <2>2. CASE NextJob(w)
    BY <2>1, <2>2, NextJobFacts DEF Passes
  <2>3. CASE ~ (answer[w] = "ok" /\ rows[cur[w]].status # "RUNNING")
    <3>1. /\ cur' = cur /\ answer' = answer /\ copy'[w] = rows[cur[w]]
          /\ \A v \in Workers \ {w} : pc'[v] = pc[v] /\ copy'[v] = copy[v]
      BY <1>5, <2>3 DEF Load, TypeOK
    <3>2. Kept(w, j) /\ (j = cur[w] => j \in Mine(w))
      BY <2>1, <3>1, JobQueueAssumption DEF Kept, Involved, Mine
    <3>3. \A v \in Workers : v # w => Unread(v, j) /\ Kept(v, j)
      BY <2>1, <3>1, OthersKeep
    <3>4. CASE j = cur[w]
      BY <2>1, <2>3, <3>1, <3>2, <3>3, <3>4 DEF Loads
    <3>5. CASE j # cur[w]
      <4>1. Unread(w, j)
        BY <3>1, <3>5 DEF Unread, Loaded
      <4>2. QED
        BY <2>1, <3>2, <3>3, <4>1 DEF Passes
    <3>6. QED
      BY <3>4, <3>5
  <2>4. QED
    BY <1>5, <2>2, <2>3 DEF Load
<1>6. ASSUME NEW w \in Workers, Succeed(w) \/ Retry(w) \/ DeadLetter(w)
      PROVE  Passes(j) \/ \E s : Frees(w, j, s)
  <2>1. pc[w] = "loaded" /\ NextJob(w) /\ held' = held /\ found' = found
    BY <1>6 DEF Succeed, Retry, DeadLetter
  <2>2. /\ cur[w] \in Jobs /\ ~ Loaded(w, j)' /\ (j = cur[w] => ~ Involved(w, j)')
        /\ \A v \in Workers : Unread(v, j) /\ Kept(v, j)
    BY <2>1, NextJobFacts
  <2>3. PICK x, s : /\ rows' = [rows EXCEPT ![cur[w]] = x]
                    /\ \/ x = WriteSucceeded(rows[cur[w]], copy[w]) /\ s = "SUCCEEDED"
                       \/ x = WriteDeferred(rows[cur[w]], copy[w]) /\ s = "DEFERRED"
                       \/ x = WriteDeadLettered(rows[cur[w]], copy[w]) /\ s = "DEAD_LETTERED"
                    /\ s = "SUCCEEDED" => answer[w] = "ok"
    BY <1>6 DEF Succeed, Retry, DeadLetter
  <2>4. CASE j = cur[w]
    <3>1. rows[j] \in Row /\ copy[w] \in Row /\ rows'[j] = x
      BY <2>3, <2>4 DEF TypeOK
    <3>2. /\ x.status = IF copy[w].status = s THEN rows[j].status ELSE s
          /\ x.lockedAt = IF copy[w].lockedAt = "null" THEN rows[j].lockedAt ELSE "null"
      <4>1. \/ x = WriteSucceeded(rows[j], copy[w]) /\ s = "SUCCEEDED"
            \/ x = WriteDeferred(rows[j], copy[w]) /\ s = "DEFERRED"
            \/ x = WriteDeadLettered(rows[j], copy[w]) /\ s = "DEAD_LETTERED"
        BY <2>3, <2>4
      <4>2. CASE x = WriteSucceeded(rows[j], copy[w]) /\ s = "SUCCEEDED"
        BY <3>1, <4>2, ClosingWrites
      <4>3. CASE x = WriteDeferred(rows[j], copy[w]) /\ s = "DEFERRED"
        BY <3>1, <4>3, ClosingWrites
      <4>4. CASE x = WriteDeadLettered(rows[j], copy[w]) /\ s = "DEAD_LETTERED"
        BY <3>1, <4>4, ClosingWrites
      <4>5. QED
        BY <4>1, <4>2, <4>3, <4>4
    <3>3. Loaded(w, j) /\ s \in {"SUCCEEDED", "DEFERRED", "DEAD_LETTERED"}
      BY <2>1, <2>3, <2>4 DEF Loaded
    <3>4. Frees(w, j, s)
      BY <2>2, <2>3, <2>4, <3>1, <3>2, <3>3 DEF Frees
    <3>5. QED
      BY <3>4
  <2>5. CASE j # cur[w]
    <3>1. rows'[j] = rows[j]
      BY <2>3, <2>5 DEF TypeOK
    <3>2. QED
      BY <2>2, <3>1 DEF Passes
  <2>6. QED
    BY <2>4, <2>5
<1>7. ASSUME NEW w \in Workers, Crash(w) PROVE Passes(j)
  <2>1. /\ rows' = rows /\ cur'[w] = NoJob /\ pc'[w] = "idle" /\ held'[w] = {}
        /\ DOMAIN found'[w] = {}
        /\ \A v \in Workers \ {w} : /\ pc'[v] = pc[v] /\ cur'[v] = cur[v] /\ copy'[v] = copy[v]
                                    /\ held'[v] = held[v] /\ answer'[v] = answer[v]
                                    /\ found'[v] = found[v]
    BY <1>7 DEF Crash, TypeOK, NoRows
  <2>2. Unread(w, j) /\ Kept(w, j)
    BY <2>1 DEF Unread, Kept, Loaded, Involved, Mine
  <2>3. \A v \in Workers : v # w => Unread(v, j) /\ Kept(v, j)
    BY <2>1, OthersKeep
  <2>4. QED
    BY <2>1, <2>2, <2>3 DEF Passes
<1>8. CASE UNCHANGED vars
  BY <1>1, <1>8 DEF vars
<1>9. QED
  BY <1>2, <1>3, <1>4, <1>5, <1>6, <1>7, <1>8, ClaimKinds DEF Next, WorkerStep, ClockStep

\* Every step keeps what workers have in memory in order.
LEMMA SessionsNext == TypeOK /\ Sessions /\ [Next]_vars => Sessions'
<1> SUFFICES ASSUME TypeOK, Sessions, [Next]_vars PROVE Sessions'
  OBVIOUS
<1> USE DEF dbVars, workerVars, envVars
<1>1. ASSUME NEW v \in Workers, cur'[v] = cur[v], pc'[v] = pc[v], held'[v] = held[v],
             found'[v] = found[v]
      PROVE  Session(v)'
  BY <1>1 DEF Sessions, Session, Mine
<1>2. \A v \in Workers : Session(v) /\ NoJob \notin Takes[v] /\ NoJob \notin held[v]
  BY JobQueueAssumption DEF Sessions, TypeOK
<1>3. ASSUME NEW w \in Workers, LoadStale(w) PROVE Sessions'
  <2>1. /\ cur' = cur /\ held' = held /\ pc[w] = "idle" /\ pc'[w] = "recovering"
        /\ w \in Recoverers
        /\ \A k \in DOMAIN found'[w] : Stale(found'[w][k])
        /\ \A v \in Workers \ {w} : pc'[v] = pc[v] /\ found'[v] = found[v]
    BY <1>3 DEF LoadStale, TypeOK
  <2>2. Session(w)'
    BY <1>2, <2>1 DEF Session, Mine
  <2>3. QED
    BY <1>1, <2>1, <2>2 DEF Sessions
<1>4. ASSUME NEW w \in Workers, ClaimBatch(w) PROVE Sessions'
  <2>1. PICK batch \in Batches(w) : \E denied : Claim(w, batch, denied)
    BY <1>4 DEF ClaimBatch
  <2>2. PICK denied : Claim(w, batch, denied)
    BY <2>1
  <2>3. /\ held'[w] = batch \ denied /\ DOMAIN found'[w] = {} /\ cur' = cur
        /\ pc'[w] = (IF batch \ denied = {} THEN "idle" ELSE "working")
        /\ \A v \in Workers \ {w} : pc'[v] = pc[v] /\ held'[v] = held[v] /\ found'[v] = found[v]
    BY <2>2 DEF Claim, TypeOK, NoRows
  <2>4. cur[w] = NoJob /\ batch \subseteq Takes[w]
    BY <1>4 DEF ClaimBatch, TypeOK, Batches, Claimable
  <2>5. Session(w)'
    BY <1>2, <2>3, <2>4 DEF Session, Mine
  <2>6. QED
    BY <1>1, <2>3, <2>5 DEF Sessions
<1>5. ASSUME NEW w \in Workers, CallExternal(w) PROVE Sessions'
  <2>1. PICK k \in held[w] : /\ held' = [held EXCEPT ![w] = @ \ {k}]
                             /\ cur' = [cur EXCEPT ![w] = k]
    BY <1>5 DEF CallExternal
  <2>2. /\ found' = found /\ pc[w] = "working" /\ pc'[w] = "answered"
        /\ cur'[w] = k /\ held'[w] = held[w] \ {k}
        /\ \A v \in Workers \ {w} : pc'[v] = pc[v] /\ cur'[v] = cur[v] /\ held'[v] = held[v]
    BY <1>5, <2>1 DEF CallExternal, TypeOK
  <2>3. DOMAIN found[w] = {} /\ held[w] \subseteq Takes[w]
    BY <1>2, <2>2 DEF Session, Mine
  <2>4. Session(w)'
    BY <1>2, <2>1, <2>2, <2>3 DEF Session, Mine
  <2>5. QED
    BY <1>1, <2>2, <2>4 DEF Sessions
<1>6. ASSUME NEW w \in Workers, pc[w] \in {"answered", "loaded"}, NextJob(w),
             held' = held, found' = found
      PROVE  Sessions'
  <2>1. /\ cur'[w] = NoJob /\ pc'[w] = (IF held[w] = {} THEN "idle" ELSE "working")
        /\ \A v \in Workers \ {w} : pc'[v] = pc[v] /\ cur'[v] = cur[v]
    BY <1>6 DEF NextJob, TypeOK
  <2>2. DOMAIN found[w] = {} /\ held[w] \subseteq Takes[w]
    BY <1>2, <1>6 DEF Session, Mine
  <2>3. Session(w)'
    BY <1>2, <1>6, <2>1, <2>2 DEF Session, Mine
  <2>4. QED
    BY <1>1, <1>6, <2>1, <2>3 DEF Sessions
<1>7. ASSUME NEW w \in Workers, Load(w) PROVE Sessions'
  <2>1. held' = held /\ found' = found /\ pc[w] = "answered"
    BY <1>7 DEF Load
  <2>2. CASE NextJob(w)
    BY <1>6, <2>1, <2>2
  <2>3. CASE ~ NextJob(w)
    <3>1. cur' = cur /\ pc' = [pc EXCEPT ![w] = "loaded"]
      BY <1>7, <2>3 DEF Load
    <3>2. pc'[w] = "loaded" /\ \A v \in Workers \ {w} : pc'[v] = pc[v]
      BY <3>1 DEF TypeOK
    <3>3. Session(w)'
      BY <1>2, <2>1, <3>1, <3>2 DEF Session, Mine
    <3>4. QED
      BY <1>1, <2>1, <3>1, <3>2, <3>3 DEF Sessions
  <2>4. QED
    BY <2>2, <2>3
<1>8. ASSUME NEW w \in Workers, Succeed(w) \/ Retry(w) \/ DeadLetter(w) PROVE Sessions'
  BY <1>6, <1>8 DEF Succeed, Retry, DeadLetter
<1>9. ASSUME NEW w \in Workers, Crash(w) PROVE Sessions'
  <2>1. /\ cur'[w] = NoJob /\ pc'[w] = "idle" /\ held'[w] = {} /\ DOMAIN found'[w] = {}
        /\ \A v \in Workers \ {w} : /\ pc'[v] = pc[v] /\ cur'[v] = cur[v]
                                    /\ held'[v] = held[v] /\ found'[v] = found[v]
    BY <1>9 DEF Crash, TypeOK, NoRows
  <2>2. Session(w)'
    BY <2>1 DEF Session, Mine
  <2>3. QED
    BY <1>1, <2>1, <2>2 DEF Sessions
<1>10. CASE UNCHANGED workerVars
  BY <1>1, <1>10 DEF Sessions
<1>11. ASSUME NEW k \in Jobs, ClockStep(k) \/ LockOverrun(k) PROVE UNCHANGED workerVars
  BY <1>11 DEF ClockStep, LockExpires, LockOverrun, Expire, RunAfterPasses
<1>12. QED
  BY <1>3, <1>4, <1>5, <1>7, <1>8, <1>9, <1>10, <1>11 DEF Next, WorkerStep, vars

\* Who has a job in memory belongs to its crew; who loads or claims it takes it.
LEMMA CrewFacts ==
  ASSUME Sessions, NEW w \in Workers, NEW j \in Jobs
  PROVE  /\ Involved(w, j) => w \in Crew(j)
         /\ Loaded(w, j) => j \in Mine(w) /\ Involved(w, j) /\ w \in Takers(j)
<1>1. Mine(w) \subseteq Takes[w] /\ \A k \in DOMAIN found[w] : w \in Recoverers
  BY DEF Sessions, Session
<1>2. Loaded(w, j) => j \in Mine(w)
  BY JobQueueAssumption DEF Loaded, Mine
<1>3. QED
  BY <1>1, <1>2 DEF Involved, Crew, Takers

\* What holds of a job with one taker is kept.
LEMMA LoneNext ==
  ASSUME TypeOK, Sessions, [Next]_vars, NEW j \in Jobs, LoneTaker(j), LoneInv(j)
  PROVE  LoneInv(j)'
<1> DEFINE r == rows[j]
           x == rows'[j]
<1>1. /\ r.status = "RUNNING" <=> r.lockedAt # "null"
      /\ \A v \in Workers : Loaded(v, j) =>
           /\ copy[v].status = "RUNNING" <=> copy[v].lockedAt # "null"
           /\ r.status = "RUNNING" => copy[v].status = "RUNNING"
  BY DEF LoneInv
<1>2. \A v, w \in Workers : Loaded(v, j) /\ w \in Takers(j) => v = w
  BY CrewFacts DEF LoneTaker
<1>3. SUFFICES /\ x.status = "RUNNING" <=> x.lockedAt # "null"
               /\ \A v \in Workers : Loaded(v, j)' =>
                    /\ copy'[v].status = "RUNNING" <=> copy'[v].lockedAt # "null"
                    /\ x.status = "RUNNING" => copy'[v].status = "RUNNING"
  BY DEF LoneInv
<1> HIDE DEF r, x
<1>4. CASE Passes(j)
  BY <1>1, <1>4 DEF Passes, Unread, r, x
<1>5. ASSUME NEW w \in Workers, Loads(w, j) PROVE x = r /\ copy'[w] = r
  BY <1>5 DEF Loads, r, x
<1>6. ASSUME NEW w \in Workers, Loads(w, j), NEW v \in Workers, v # w, Loaded(v, j)'
      PROVE  Loaded(v, j) /\ copy'[v] = copy[v]
  BY <1>6 DEF Loads, Unread
<1>7. ASSUME NEW w \in Workers, NEW s, Frees(w, j, s)
      PROVE  /\ x.status = "RUNNING" <=> x.lockedAt # "null"
             /\ \A v \in Workers : ~ Loaded(v, j)'
  <2>1. /\ Loaded(w, j) /\ s \in {"SUCCEEDED", "DEFERRED", "DEAD_LETTERED"}
        /\ x.status = IF copy[w].status = s THEN r.status ELSE s
        /\ x.lockedAt = IF copy[w].lockedAt = "null" THEN r.lockedAt ELSE "null"
        /\ ~ Loaded(w, j)' /\ \A v \in Workers : Loaded(v, j)' => Loaded(v, j)
    BY <1>7 DEF Frees, Unread, r, x
  <2>2. \A v \in Workers : ~ Loaded(v, j)'
    BY <1>2, <2>1, CrewFacts
  <2>3. x.status = "RUNNING" <=> x.lockedAt # "null"
    BY <1>1, <2>1
  <2>4. QED
    BY <2>2, <2>3
<1>8. ASSUME NEW w \in Workers, Claims(w, j)
      PROVE  /\ x.status = "RUNNING" <=> x.lockedAt # "null"
             /\ \A v \in Workers : Loaded(v, j)' =>
                  Loaded(v, j) /\ copy'[v] = copy[v] /\ x.status # "RUNNING"
  <2>1. /\ \/ x.status = "DEFERRED" /\ x.lockedAt = "null"
           \/ x.status = "RUNNING" /\ x.lockedAt = "fresh" /\ w \in Takers(j)
        /\ ~ Loaded(w, j)
        /\ \A v \in Workers : Loaded(v, j)' => Loaded(v, j) /\ copy'[v] = copy[v]
    BY <1>8 DEF Claims, Unread, Takers, x
  <2>2. QED
    BY <1>2, <2>1
<1>9. QED
  BY <1>1, <1>4, <1>5, <1>6, <1>7, <1>8, StepKinds

\* What holds of a job that two workers may have is kept.
LEMMA PairNext ==
  ASSUME TypeOK, Sessions, Sessions', [Next]_vars, NEW j \in Jobs, PairAtMost(j), PairInv(j)
  PROVE  PairInv(j)'
<1> DEFINE r == rows[j]
           x == rows'[j]
           Copied(c, a, d) == /\ c.status = "RUNNING" => c.lockedAt # "null"
                              /\ c.status = "DEFERRED" => c.lockedAt = "null"
                              /\ c.status # "PENDING"
                              /\ a = "ok" => c.status = "RUNNING"
                              /\ c.status \in Terminal =>
                                   c.status = d.status /\ c.lockedAt = d.lockedAt
<1>1. /\ r.status = "RUNNING" => r.lockedAt # "null"
      /\ r.status \in {"PENDING", "DEFERRED"} => r.lockedAt = "null"
      /\ r.status = "PENDING" => \A v \in Workers : j \notin Mine(v)
      /\ r.status \in Terminal =>
           \A v, w \in Workers : Involved(v, j) /\ Involved(w, j) => v = w
      /\ \A v \in Workers : Loaded(v, j) => Copied(copy[v], answer[v], r)
  BY DEF PairInv
<1>2. r.status \in Status /\ \A v \in Workers : copy[v].status \in Status
  BY DEF TypeOK, Row
<1>3. SUFFICES /\ x.status = "RUNNING" => x.lockedAt # "null"
               /\ x.status \in {"PENDING", "DEFERRED"} => x.lockedAt = "null"
               /\ x.status = "PENDING" => \A v \in Workers : j \notin Mine(v)'
               /\ x.status \in Terminal =>
                    \A v, w \in Workers : Involved(v, j)' /\ Involved(w, j)' => v = w
               /\ \A v \in Workers : Loaded(v, j)' => Copied(copy'[v], answer'[v], x)
  BY DEF PairInv
<1>4. \A v \in Workers : Loaded(v, j) => Involved(v, j) /\ j \in Mine(v) /\ v \in Crew(j)
  BY CrewFacts DEF Crew
<1>5. \A v \in Workers : Involved(v, j)' => v \in Crew(j)
  BY DEF Sessions, Session, Involved, Crew, Takers
<1> HIDE DEF r, x
<1>6. CASE Passes(j)
  <2>1. /\ x.status = r.status
        /\ \/ x.lockedAt = r.lockedAt
           \/ r.status = "RUNNING" /\ r.lockedAt # "null" /\ x.lockedAt # "null"
        /\ \A v \in Workers : /\ j \in Mine(v)' => j \in Mine(v)
                              /\ Involved(v, j)' => Involved(v, j) \/ r.status = "RUNNING"
    BY <1>6 DEF Passes, Kept, r, x
  <2>2. ASSUME NEW v \in Workers, Loaded(v, j)' PROVE Copied(copy'[v], answer'[v], x)
    <3>1. Loaded(v, j) /\ copy'[v] = copy[v] /\ answer'[v] = answer[v]
      BY <1>6, <2>2 DEF Passes, Unread
    <3>2. QED
      BY <1>1, <2>1, <3>1 DEF Terminal
  <2> HIDE DEF Copied
  <2>3. QED
    BY <1>1, <2>1, <2>2 DEF Terminal
<1>7. ASSUME NEW w \in Workers, Loads(w, j)
      PROVE  /\ x = r
             /\ r.status \in Terminal =>
                  \A u, v \in Workers : Involved(u, j)' /\ Involved(v, j)' => u = v
             /\ r.status = "PENDING" => \A v \in Workers : j \notin Mine(v)'
             /\ \A v \in Workers : Loaded(v, j)' => Copied(copy'[v], answer'[v], x)
  <2>1. /\ x = r /\ copy'[w] = r /\ answer'[w] = answer[w] /\ j \in Mine(w)
        /\ answer[w] = "ok" => r.status = "RUNNING"
        /\ \A v \in Workers : /\ j \in Mine(v)' => j \in Mine(v)
                              /\ Involved(v, j)' => Involved(v, j) \/ r.status = "RUNNING"
    BY <1>7 DEF Loads, Kept, r, x
  <2>2. ASSUME NEW v \in Workers, Loaded(v, j)', v # w PROVE Copied(copy'[v], answer'[v], x)
    <3>1. Loaded(v, j) /\ copy'[v] = copy[v] /\ answer'[v] = answer[v]
      BY <1>7, <2>2 DEF Loads, Unread
    <3> HIDE DEF Copied
    <3>2. QED
      BY <1>1, <2>1, <3>1
  <2>3. Copied(copy'[w], answer'[w], x)
    BY <1>1, <2>1
  <2> HIDE DEF Copied
  <2>4. QED
    BY <1>1, <2>1, <2>2, <2>3 DEF Terminal
<1>8. ASSUME NEW w \in Workers, NEW s, Frees(w, j, s)
      PROVE  /\ x.status = "RUNNING" => x.lockedAt # "null"
             /\ x.status \in {"PENDING", "DEFERRED"} => x.lockedAt = "null"
             /\ x.status # "PENDING"
             /\ \A u, v \in Workers : Involved(u, j)' /\ Involved(v, j)' => u = v
             /\ \A v \in Workers : Loaded(v, j)' => Copied(copy'[v], answer'[v], x)
  <2>1. /\ Loaded(w, j) /\ s \in {"SUCCEEDED", "DEFERRED", "DEAD_LETTERED"}
        /\ s = "SUCCEEDED" => answer[w] = "ok"
        /\ x.status = IF copy[w].status = s THEN r.status ELSE s
        /\ x.lockedAt = IF copy[w].lockedAt = "null" THEN r.lockedAt ELSE "null"
        /\ ~ Involved(w, j)' /\ ~ Loaded(w, j)'
    BY <1>8 DEF Frees, r, x
  <2>2. Copied(copy[w], answer[w], r) /\ r.status # "PENDING"
    BY <1>1, <1>4, <2>1
  <2>3. copy[w].status \in Status
    BY <1>2
  <2>4. /\ x.status = "RUNNING" => x.lockedAt # "null"
        /\ x.status \in {"PENDING", "DEFERRED"} => x.lockedAt = "null"
        /\ x.status # "PENDING"
    BY <1>1, <2>1, <2>2, <2>3 DEF Status, Terminal
  <2>5. \A u, v \in Workers : Involved(u, j)' /\ Involved(v, j)' => u = v
    <3>1. w \in Crew(j)
      BY <1>4, <2>1
    <3>2. QED
      BY <1>5, <2>1, <3>1 DEF PairAtMost
  <2>6. ASSUME NEW v \in Workers, Loaded(v, j)' PROVE Copied(copy'[v], answer'[v], x)
    <3>1. Loaded(v, j) /\ copy'[v] = copy[v] /\ answer'[v] = answer[v] /\ v # w
      BY <1>8, <2>1, <2>6 DEF Frees, Unread
    <3>2. r.status \notin Terminal
      BY <1>1, <1>4, <2>1, <3>1
    <3>3. QED
      BY <1>1, <3>1, <3>2
  <2>7. QED
    BY <2>4, <2>5, <2>6
<1>9. ASSUME NEW w \in Workers, Claims(w, j)
      PROVE  /\ \/ x.status = "DEFERRED" /\ x.lockedAt = "null"
                \/ x.status = "RUNNING" /\ x.lockedAt = "fresh"
             /\ \A v \in Workers : Loaded(v, j)' => Copied(copy'[v], answer'[v], x)
  <2>1. /\ j \in DOMAIN found[w] \/ r.status \in {"PENDING", "DEFERRED"}
        /\ \/ x.status = "DEFERRED" /\ x.lockedAt = "null"
           \/ x.status = "RUNNING" /\ x.lockedAt = "fresh"
        /\ ~ Loaded(w, j)
    BY <1>9 DEF Claims, r, x
  <2>2. ASSUME NEW v \in Workers, Loaded(v, j)' PROVE Copied(copy'[v], answer'[v], x)
    <3>1. Loaded(v, j) /\ copy'[v] = copy[v] /\ answer'[v] = answer[v] /\ v # w
      BY <1>9, <2>1, <2>2 DEF Claims, Unread
    <3>2. r.status \notin Terminal
      <4>1. r.status \in Terminal => Involved(w, j)
        BY <2>1 DEF Involved, Terminal
      <4>2. QED
        BY <1>1, <1>4, <3>1, <4>1
    <3>3. QED
      BY <1>1, <3>1, <3>2
  <2>3. QED
    BY <2>1, <2>2
<1> HIDE DEF Copied
<1>10. QED
  BY <1>1, <1>6, <1>7, <1>8, <1>9, StepKinds DEF Terminal

LEMMA StrandInit == Init => StrandInv
<1> SUFFICES ASSUME Init PROVE StrandInv
  OBVIOUS
<1>1. Sessions
  BY JobQueueAssumption DEF Init, Sessions, Session, Mine, NoRows
<1>2. \A j \in Jobs : rows[j].status = "PENDING" /\ rows[j].lockedAt = "null"
  BY DEF Init, NewRow
<1>3. \A w \in Workers, j \in Jobs : ~ Loaded(w, j) /\ j \notin Mine(w)
  BY JobQueueAssumption DEF Init, Loaded, Mine
<1>4. QED
  BY <1>1, <1>2, <1>3, TypeInit DEF StrandInv, LoneInv, PairInv, Terminal

LEMMA StrandNext == StrandInv /\ [Next]_vars => StrandInv'
<1> SUFFICES ASSUME StrandInv, [Next]_vars PROVE StrandInv'
  OBVIOUS
<1>1. TypeOK /\ Sessions /\ TypeOK' /\ Sessions'
  BY TypeNext, SessionsNext DEF StrandInv
<1>2. ASSUME NEW j \in Jobs, LoneTaker(j) PROVE LoneInv(j)'
  BY <1>1, <1>2, LoneNext DEF StrandInv
<1>3. ASSUME NEW j \in Jobs, PairAtMost(j) PROVE PairInv(j)'
  BY <1>1, <1>3, PairNext DEF StrandInv
<1>4. QED
  BY <1>1, <1>2, <1>3 DEF StrandInv, LoneTaker, PairAtMost, Takers, Crew

\* However many locks run out under their workers, and whoever recovers them: as long as
\* one worker asks for each job, or two workers at most may have it, no row is left RUNNING
\* without the stamp that stale-lock recovery looks for.
THEOREM SmallCrewsStrandNothing ==
  ASSUME SmallCrews
  PROVE  Spec => []NoJobStranded
<1>1. StrandInv => NoJobStranded
  BY SmallCrews DEF StrandInv, SmallCrews, LoneInv, PairInv, NoJobStranded
<1>2. QED
  BY <1>1, StrandInit, StrandNext, PTL DEF Spec

-----------------------------------------------------------------------------
(* The refinement of JobLifecycle *)

\* The holder of the mapping is the one worker that has the job in memory.
LEMMA HolderValue ==
  ASSUME SafeInv, NEW j \in Jobs
  PROVE  /\ \A w \in Workers : j \in Mine(w) => holderBar[j] = w
         /\ ~Owned(j) => holderBar[j] = Nobody
<1>1. ~Owned(j) => holderBar[j] = Nobody
  BY DEF holderBar
<1>2. ASSUME NEW w \in Workers, j \in Mine(w) PROVE holderBar[j] = w
  <2>1. \A v \in Workers : j \in Mine(v) <=> v = w
    BY <1>2 DEF SafeInv, Exclusive
  <2>2. (CHOOSE v \in Workers : j \in Mine(v)) = w
    BY <2>1
  <2>3. QED
    BY <1>2, <2>2 DEF holderBar, Owned
<1>3. QED
  BY <1>1, <1>2

\* The same in the next state.
LEMMA HolderValueNext ==
  ASSUME SafeInv', NEW j \in Jobs
  PROVE  /\ \A w \in Workers : j \in Mine(w)' => holderBar'[j] = w
         /\ ~Owned(j)' => holderBar'[j] = Nobody
<1>1. ~Owned(j)' => holderBar'[j] = Nobody
  BY DEF holderBar
<1>2. ASSUME NEW w \in Workers, j \in Mine(w)' PROVE holderBar'[j] = w
  <2>1. \A v \in Workers : j \in Mine(v)' <=> v = w
    BY <1>2 DEF SafeInv, Exclusive
  <2>2. (CHOOSE v \in Workers : j \in Mine(v)') = w
    BY <2>1
  <2>3. QED
    BY <1>2, <2>2 DEF holderBar, Owned
<1>3. QED
  BY <1>1, <1>2

\* holderBar is a function on the jobs, now and in the next state.
LEMMA HoldersOf ==
  /\ holderBar = [j \in Jobs |-> holderBar[j]]
  /\ holderBar' = [j \in Jobs |-> holderBar'[j]]
BY DEF holderBar

\* When only the jobs of w change hands, and only those of S, the mapping changes
\* on S alone.
LEMMA HoldersChange ==
  ASSUME SafeInv, SafeInv', NEW w \in Workers, NEW S \in SUBSET Jobs,
         \A v \in Workers \ {w} : Mine(v)' = Mine(v),
         \A j \in Jobs \ S : j \in Mine(w)' <=> j \in Mine(w)
  PROVE  \A j \in Jobs \ S : holderBar'[j] = holderBar[j]
<1> SUFFICES ASSUME NEW j \in Jobs \ S PROVE holderBar'[j] = holderBar[j]
  OBVIOUS
<1>1. \A v \in Workers : j \in Mine(v)' <=> j \in Mine(v)
  OBVIOUS
<1>2. CASE \E v \in Workers : j \in Mine(v)
  BY <1>1, <1>2, HolderValue, HolderValueNext
<1>3. CASE ~\E v \in Workers : j \in Mine(v)
  <2>1. ~Owned(j) /\ ~Owned(j)'
    BY <1>1, <1>3 DEF Owned
  <2>2. QED
    BY <2>1, HolderValue, HolderValueNext
<1>4. QED
  BY <1>2, <1>3

\* A step that neither starts nor leaves a terminal status keeps every outcome.
LEMMA OutcomesKept ==
  ASSUME SafeInv, \A j \in Jobs : rows'[j].status \in Terminal \/ rows[j].status \in Terminal
                                    => rows'[j].status = rows[j].status
  PROVE  outcomeBar' = outcomeBar
BY DEF outcomeBar, Terminal

\* Freshly created jobs are open, free and without a record.
LEMMA InitMaps == Init => Lifecycle!Init
<1> SUFFICES ASSUME Init PROVE Lifecycle!Init
  OBVIOUS
<1>1. \A j \in Jobs : ~Owned(j)
  BY DEF Init, Owned, Mine
<1>2. \A j \in Jobs : rows[j].status = "PENDING"
  BY DEF Init, NewRow
<1>3. QED
  BY <1>1, <1>2 DEF Init, Lifecycle!Init, holderBar, outcomeBar, recordsBar

\* The claim transaction leases the jobs it claims and the rate limiter does not deny.
LEMMA ClaimMaps ==
  ASSUME SafeDeployment, SafeInv, SafeInv', [Next]_vars, NEW w \in Workers, ClaimBatch(w)
  PROVE  \E S \in SUBSET Jobs : Lifecycle!Lease(w, S)
<1>1. PICK batch \in Batches(w) : \E denied \in SUBSET (batch \cap Deniable) :
        Claim(w, batch, denied)
  BY DEF ClaimBatch
<1>2. PICK denied \in SUBSET (batch \cap Deniable) : Claim(w, batch, denied)
  BY <1>1
<1> DEFINE S == batch \ denied
<1>3. /\ batch \subseteq Jobs
      /\ \A j \in batch : ~Owned(j) /\ rows[j].status \notin Terminal
      /\ \A j \in Jobs : rows'[j].status \in Terminal => rows'[j] = rows[j]
  BY <1>2, ClaimEffect DEF Terminal
<1>4. cur[w] = NoJob /\ held[w] = {} /\ cur' = cur
  BY <1>2 DEF ClaimBatch, Claim, SafeInv, TypeOK, BatchInTick
<1>5. Mine(w)' = S /\ \A v \in Workers \ {w} : Mine(v)' = Mine(v)
  BY <1>2, <1>4 DEF Claim, Mine, SafeInv, TypeOK
<1>6. Mine(w) = {}
  BY <1>4 DEF Mine
<1>7. \A j \in S : outcomeBar[j] = "open" /\ holderBar[j] = Nobody
  BY <1>3, HolderValue DEF outcomeBar, Terminal
<1>8. \A j \in S : holderBar'[j] = w
  BY <1>3, <1>5, HolderValueNext
<1>9. \A j \in Jobs \ S : holderBar'[j] = holderBar[j]
  BY <1>3, <1>5, <1>6, HoldersChange
<1>10. holderBar' = [j \in Jobs |-> IF j \in S THEN w ELSE holderBar[j]]
  BY <1>8, <1>9, HoldersOf
<1>11. outcomeBar' = outcomeBar
  BY <1>3, TerminalStep, OutcomesKept
<1>12. recordsBar' = recordsBar
  BY <1>2 DEF Claim, recordsBar
<1>13. QED
  BY <1>3, <1>7, <1>10, <1>11, <1>12 DEF Lifecycle!Lease

\* A retry and a crash give jobs back.
LEMMA ReleaseMaps ==
  ASSUME SafeDeployment, SafeInv, SafeInv', [Next]_vars, NEW w \in Workers,
         Retry(w) \/ Crash(w)
  PROVE  \E S \in SUBSET Jobs : Lifecycle!Release(w, S)
<1> DEFINE S == Mine(w) \ Mine(w)'
<1>1. /\ cur \in [Workers -> Jobs \cup {NoJob}] /\ held \in [Workers -> SUBSET Jobs]
      /\ rows \in [Jobs -> Row]
  BY DEF SafeInv, TypeOK
<1>2. Mine(w)' \subseteq Mine(w) /\ \A v \in Workers \ {w} : Mine(v)' = Mine(v)
  BY <1>1 DEF Retry, Crash, NextJob, Mine
<1>3. S \subseteq Jobs
  BY <1>1 DEF Mine
<1>4. \A j \in S : holderBar[j] = w
  BY <1>3, HolderValue
<1>5. \A j \in S : ~Owned(j)'
  BY <1>2, <1>3 DEF Owned, SafeInv, Exclusive
<1>6. \A j \in S : holderBar'[j] = Nobody
  BY <1>3, <1>5, HolderValueNext
<1>7. \A j \in Jobs \ S : holderBar'[j] = holderBar[j]
  BY <1>2, <1>3, HoldersChange
<1>8. holderBar' = [j \in Jobs |-> IF j \in S THEN Nobody ELSE holderBar[j]]
  BY <1>6, <1>7, HoldersOf
<1>9. outcomeBar' = outcomeBar
  <2>1. \A j \in Jobs : rows'[j].status \in Terminal => rows'[j] = rows[j]
    <3>1. CASE Crash(w)
      BY <3>1 DEF Crash, dbVars
    <3>2. CASE Retry(w)
      <4>1. cur[w] \in Jobs /\ copy[w] = rows[cur[w]] /\ rows[cur[w]] \in Row
        BY <3>2, CurrentJob DEF Retry, SafeInv, CopiesCurrent
      <4>2. WriteDeferred(rows[cur[w]], copy[w])
              = [Freed(rows[cur[w]], "DEFERRED") EXCEPT !.runAfter = "later"]
        BY <4>1, WritesOfCurrentCopy
      <4>3. Freed(rows[cur[w]], "DEFERRED").status = "DEFERRED"
              /\ Freed(rows[cur[w]], "DEFERRED") \in Row
        BY <4>1 DEF Freed, Row, Status
      <4>4. WriteDeferred(rows[cur[w]], copy[w]).status = "DEFERRED"
        BY <4>2, <4>3 DEF Row
      <4>5. QED
        BY <1>1, <3>2, <4>1, <4>4 DEF Retry, Terminal
    <3>3. QED
      BY <3>1, <3>2
  <2>2. QED
    BY <2>1, TerminalStep, OutcomesKept
<1>10. recordsBar' = recordsBar
  BY DEF Retry, Crash, dbVars, recordsBar
<1>11. QED
  BY <1>3, <1>4, <1>8, <1>9, <1>10 DEF Lifecycle!Release

\* Success and dead-letter end the job the worker holds.
LEMMA EndMaps ==
  ASSUME SafeDeployment, SafeInv, SafeInv', [Next]_vars, NEW w \in Workers,
         Succeed(w) \/ DeadLetter(w)
  PROVE  \E j \in Jobs, o \in {"succeeded", "failed"} : Lifecycle!End(w, j, o)
<1> DEFINE o == IF Succeed(w) THEN "succeeded" ELSE "failed"
<1>1. /\ cur \in [Workers -> Jobs \cup {NoJob}] /\ held \in [Workers -> SUBSET Jobs]
      /\ rows \in [Jobs -> Row]
      /\ succeeded \in [Jobs -> Nat] /\ deadLetters \in [Jobs -> Nat]
  BY DEF SafeInv, TypeOK
<1>2. PICK j \in Jobs : j = cur[w]
  BY CurrentJob DEF Succeed, DeadLetter
<1>3. /\ j \in Mine(w) /\ copy[w] = rows[j] /\ rows[j] \in Row
      /\ \A v \in Workers : v # w => j \notin Mine(v)
      /\ j \notin held[w]
  BY <1>1, <1>2, JobQueueAssumption
     DEF Succeed, DeadLetter, SafeInv, CopiesCurrent, BatchInTick, Exclusive, Mine
<1>4. Mine(w)' = Mine(w) \ {j} /\ \A v \in Workers \ {w} : Mine(v)' = Mine(v)
  BY <1>1, <1>2, <1>3, JobQueueAssumption DEF Succeed, DeadLetter, NextJob, Mine
<1>5. holderBar[j] = w
  BY <1>3, HolderValue
<1>6. holderBar'[j] = Nobody
  <2>1. ~Owned(j)'
    BY <1>3, <1>4 DEF Owned
  <2>2. QED
    BY <2>1, HolderValueNext
<1>7. \A i \in Jobs \ {j} : holderBar'[i] = holderBar[i]
  <2>1. {j} \in SUBSET Jobs /\ \A i \in Jobs \ {j} : i \in Mine(w)' <=> i \in Mine(w)
    BY <1>4
  <2>2. QED
    BY <1>4, <2>1, HoldersChange
<1>8. holderBar' = [holderBar EXCEPT ![j] = Nobody]
  BY <1>6, <1>7, HoldersOf
<1>9. /\ \A i \in Jobs \ {j} : rows'[i] = rows[i]
      /\ rows'[j] = IF Succeed(w) THEN WriteSucceeded(rows[j], copy[w])
                                 ELSE WriteDeadLettered(rows[j], copy[w])
  BY <1>1, <1>2 DEF Succeed, DeadLetter
<1>10. rows'[j].status = IF Succeed(w) THEN "SUCCEEDED" ELSE "DEAD_LETTERED"
  <2>1. /\ Freed(rows[j], "SUCCEEDED").status = "SUCCEEDED"
        /\ Freed(rows[j], "DEAD_LETTERED").status = "DEAD_LETTERED"
    BY <1>3 DEF Freed, Row
  <2>2. /\ WriteSucceeded(rows[j], copy[w]) = Freed(rows[j], "SUCCEEDED")
        /\ WriteDeadLettered(rows[j], copy[w]) = Freed(rows[j], "DEAD_LETTERED")
    BY <1>3, WritesOfCurrentCopy
  <2>3. QED
    BY <1>9, <2>1, <2>2
<1>11. outcomeBar' = [outcomeBar EXCEPT ![j] = o]
  <2>1. outcomeBar'[j] = o
    BY <1>10 DEF outcomeBar
  <2>2. \A i \in Jobs \ {j} : outcomeBar'[i] = outcomeBar[i]
    BY <1>9 DEF outcomeBar
  <2>3. outcomeBar' = [i \in Jobs |-> outcomeBar'[i]]
    BY DEF outcomeBar
  <2>4. outcomeBar = [i \in Jobs |-> outcomeBar[i]]
    BY DEF outcomeBar
  <2>5. QED
    BY <2>1, <2>2, <2>3, <2>4
<1>12. recordsBar' = [recordsBar EXCEPT ![j] = @ + 1]
  <2>1. succeeded'[j] + deadLetters'[j] = succeeded[j] + deadLetters[j] + 1
    <3>1. CASE Succeed(w)
      BY <1>1, <1>2, <3>1 DEF Succeed
    <3>2. CASE DeadLetter(w)
      BY <1>1, <1>2, <3>2 DEF DeadLetter
    <3>3. QED
      BY <3>1, <3>2
  <2>2. \A i \in Jobs \ {j} : succeeded'[i] = succeeded[i] /\ deadLetters'[i] = deadLetters[i]
    BY <1>1, <1>2 DEF Succeed, DeadLetter
  <2>3. /\ recordsBar'[j] = recordsBar[j] + 1
        /\ \A i \in Jobs \ {j} : recordsBar'[i] = recordsBar[i]
    BY <2>1, <2>2 DEF recordsBar
  <2>4. recordsBar' = [i \in Jobs |-> recordsBar'[i]]
    BY DEF recordsBar
  <2>5. recordsBar = [i \in Jobs |-> recordsBar[i]]
    BY DEF recordsBar
  <2>6. QED
    BY <2>3, <2>4, <2>5
<1>13. o \in {"succeeded", "failed"}
  OBVIOUS
<1>14. QED
  BY <1>5, <1>8, <1>11, <1>12, <1>13 DEF Lifecycle!End

\* The remaining steps move nothing the abstract specification sees.
LEMMA StutterMaps ==
  ASSUME SafeDeployment, SafeInv, SafeInv', [Next]_vars,
         UNCHANGED <<succeeded, deadLetters>>,
         \A v \in Workers : Mine(v)' = Mine(v),
         \A j \in Jobs : rows'[j].status = rows[j].status
  PROVE  UNCHANGED <<holderBar, outcomeBar, recordsBar>>
<1>1. outcomeBar' = outcomeBar
  BY OutcomesKept
<1>2. recordsBar' = recordsBar
  BY DEF recordsBar
<1>3. holderBar' = holderBar
  BY DEF holderBar, Owned
<1>4. QED
  BY <1>1, <1>2, <1>3

\* Every step of a safe deployment is a step of the lifecycle, or a stutter.
LEMMA NextMaps ==
  ASSUME SafeDeployment, SafeInv, SafeInv', [Next]_vars
  PROVE  [Lifecycle!Next]_<<holderBar, outcomeBar, recordsBar>>
<1>1. rows \in [Jobs -> Row] /\ cur \in [Workers -> Jobs \cup {NoJob}]
      /\ held \in [Workers -> SUBSET Jobs]
  BY DEF SafeInv, TypeOK
<1>2. ASSUME NEW w \in Workers, LoadStale(w)
      PROVE  UNCHANGED <<holderBar, outcomeBar, recordsBar>>
  BY <1>2, StutterMaps DEF LoadStale, dbVars, Mine
<1>3. ASSUME NEW w \in Workers, Load(w)
      PROVE  UNCHANGED <<holderBar, outcomeBar, recordsBar>>
  <2>1. UNCHANGED <<cur, held, rows, succeeded, deadLetters>>
    BY <1>3, CurrentJob DEF Load, dbVars
  <2>2. QED
    BY <2>1, StutterMaps DEF Mine
<1>4. ASSUME NEW w \in Workers, CallExternal(w)
      PROVE  UNCHANGED <<holderBar, outcomeBar, recordsBar>>
  <2>1. cur[w] = NoJob /\ UNCHANGED dbVars
    BY <1>4 DEF CallExternal, SafeInv, TypeOK
  <2>2. \A v \in Workers : Mine(v)' = Mine(v)
    BY <1>1, <1>4, <2>1, JobQueueAssumption DEF CallExternal, Mine
  <2>3. QED
    BY <2>1, <2>2, StutterMaps DEF dbVars
<1>5. ASSUME NEW i \in Jobs, LockExpires(i) \/ LockOverrun(i) \/ RunAfterPasses(i)
      PROVE  UNCHANGED <<holderBar, outcomeBar, recordsBar>>
  <2>1. \A j \in Jobs : rows'[j].status = rows[j].status
    <3>1. CASE Expire(i)
      BY <1>1, <3>1 DEF Expire, Row
    <3>2. CASE RunAfterPasses(i)
      BY <1>1, <3>2 DEF RunAfterPasses, Row
    <3>3. QED
      BY <1>5, <3>1, <3>2 DEF LockExpires, LockOverrun
  <2>2. UNCHANGED <<cur, held, succeeded, deadLetters>>
    BY <1>5 DEF LockExpires, LockOverrun, Expire, RunAfterPasses, workerVars
  <2>3. QED
    BY <2>1, <2>2, StutterMaps DEF Mine
<1>6. CASE UNCHANGED vars
  BY <1>6, StutterMaps DEF vars, dbVars, workerVars, Mine
<1>7. QED
  BY <1>2, <1>3, <1>4, <1>5, <1>6, ClaimMaps, ReleaseMaps, EndMaps
     DEF Next, WorkerStep, ClockStep, Lifecycle!Next

\* A safe deployment implements the lifecycle: leases are exclusive, only the holder
\* ends a job, and every job ends at most once, with exactly one record of its end.
THEOREM QueueImplementsLifecycle ==
  ASSUME SafeDeployment
  PROVE  Spec => ImplementsLifecycle
<1>1. SafeInv /\ SafeInv' /\ [Next]_vars
        => [Lifecycle!Next]_<<holderBar, outcomeBar, recordsBar>>
  BY NextMaps
<1>2. QED
  BY <1>1, InitMaps, SafeDeploymentInvariant, PTL
     DEF Spec, ImplementsLifecycle, Lifecycle!Spec, Lifecycle!lifecycleVars
=============================================================================
