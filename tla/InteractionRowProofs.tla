------------------------ MODULE InteractionRowProofs ------------------------
(***************************************************************************)
(* The interaction's row agrees with its jobs, for any number of webhooks, *)
(* stages, attempts and crashes.                                           *)
(*                                                                         *)
(* A flush compares with a copy that may be old, so DashboardAgrees is not *)
(* inductive: a value equal to an old copy's is not sent.  The invariant   *)
(* says that no copy is ahead in a column that moves one way only, and     *)
(* that whoever may write the metadata has the current ones.  Copies       *)
(* of the error log may be old; they are as honest as the log itself.      *)
(***************************************************************************)
EXTENDS InteractionRow, FiniteSetTheorems, TLAPS

Metadata == [status : {"none", "skipped", "queued", "completed"},
             stage  : Stages \cup {"none", "short_call"}]

\* A row, in the table or in a session.
RowType(r) ==
  /\ DOMAIN r = Columns
  /\ r["ended"] \in BOOLEAN /\ r["callSid"] \in BOOLEAN /\ r["recordingKey"] \in BOOLEAN
  /\ r["metadata"] \in Metadata
  /\ r["errorLog"] \subseteq Kinds \X Nat
  /\ IsFiniteSet(r["errorLog"])
  /\ r["retryCount"] = Cardinality(r["errorLog"])

\* The jobs: an LLM job exists only after the orchestrate job has succeeded, and a job
\* that may still be claimed has attempts left, one more for each crash.
JobsInv ==
  /\ job \in [Kinds -> {"absent", "ready", "running", "succeeded", "dead"}]
  /\ attempts \in [Kinds -> Nat]
  /\ short \in BOOLEAN /\ sidInPayload \in BOOLEAN /\ answer \in Stages \cup {"none"}
  /\ crashes \in 0 .. MaxCrashes
  /\ job["orchestrate"] # "running"
  /\ short \/ job["orchestrate"] \in {"absent", "ready"} => job["llm"] = "absent"
  /\ \A k \in Kinds :
       /\ attempts[k] <= MaxAttempts + crashes
       /\ job[k] \in {"absent", "ready"} => attempts[k] < MaxAttempts + crashes

\* A copy is not ahead of the row, and its errors have happened.
CopyHonest(s) ==
  /\ RowType(copy[s])
  /\ copy[s]["errorLog"] \subseteq failures
  /\ copy[s]["ended"] => row["ended"]
  /\ copy[s]["recordingKey"] => row["recordingKey"]

Current(k) == copy[k] # NoCopy => copy[k]["metadata"] = row["metadata"]

CopiesInv ==
  /\ DOMAIN copy = Sessions
  /\ \A s \in Sessions : copy[s] # NoCopy => CopyHonest(s)
  /\ \A k \in Kinds : copy[k] # NoCopy =>
       job[k] = IF k = "orchestrate" THEN "ready" ELSE "running"
  /\ Current("orchestrate") /\ Current("llm")

\* Failures are of attempts made; a running attempt has not failed yet.
FailuresInv ==
  /\ failures \subseteq Kinds \X Nat
  /\ overwritten \in BOOLEAN
  /\ \A k \in Kinds : \A n \in Nat : <<k, n>> \in failures =>
       n <= attempts[k] /\ (job[k] = "running" => n < attempts[k])

LogInv ==
  /\ row["errorLog"] \subseteq failures
  /\ ~overwritten => row["errorLog"] = failures

RowInv ==
  /\ RowType(row) /\ JobsInv /\ CopiesInv /\ FailuresInv /\ LogInv /\ DashboardAgrees

-----------------------------------------------------------------------------
(* Rows and flushes *)

LEMMA NoCopyIsNoRow == ASSUME NEW r, RowType(r) PROVE r # NoCopy
<1>1. DOMAIN NoCopy = {} /\ "ended" \in Columns
  BY DEF NoCopy, Columns
<1>2. QED
  BY <1>1 DEF RowType

\* What a flush leaves in the table, if the error log and its count change together.
LEMMA FlushedRow ==
  ASSUME NEW db, NEW old, NEW new, RowType(db), RowType(old), RowType(new),
         new["errorLog"] = old["errorLog"] \/ new["retryCount"] # old["retryCount"]
  PROVE  /\ RowType(Flush(db, old, new))
         /\ \A c \in Columns :
              Flush(db, old, new)[c] = IF new[c] = old[c] THEN db[c] ELSE new[c]
<1> DEFINE r == Flush(db, old, new)
<1>1. DOMAIN r = Columns /\ \A c \in Columns : r[c] = IF new[c] = old[c] THEN db[c] ELSE new[c]
  BY DEF Flush
<1>2. \A c \in Columns : r[c] \in {db[c], new[c]}
  BY <1>1
<1>3. /\ r["ended"] \in BOOLEAN /\ r["callSid"] \in BOOLEAN /\ r["recordingKey"] \in BOOLEAN
      /\ r["metadata"] \in Metadata
  BY <1>2, Zenon DEF RowType, Columns
<1>4. CASE new["errorLog"] = old["errorLog"]
  <2>1. new["retryCount"] = old["retryCount"]
    BY <1>4 DEF RowType
  <2>2. r["errorLog"] = db["errorLog"] /\ r["retryCount"] = db["retryCount"]
    BY <1>1, <1>4, <2>1 DEF Columns
  <2>3. QED
    BY <1>1, <1>3, <2>2, Zenon DEF RowType
<1>5. CASE new["errorLog"] # old["errorLog"]
  <2>1. r["errorLog"] = new["errorLog"] /\ r["retryCount"] = new["retryCount"]
    BY <1>1, <1>5 DEF Columns
  <2>2. QED
    BY <1>1, <1>3, <2>1, Zenon DEF RowType
<1>6. QED
  BY <1>4, <1>5, <1>1

\* An entry that the log does not have yet.
LEMMA AppendedRow ==
  ASSUME NEW r, RowType(r), NEW k \in Kinds, attempts'[k] \in Nat,
         <<k, attempts'[k]>> \notin r["errorLog"]
  PROVE  /\ RowType(AppendError(k, r))
         /\ AppendError(k, r)["errorLog"] = r["errorLog"] \cup {<<k, attempts'[k]>>}
         /\ AppendError(k, r)["retryCount"] = r["retryCount"] + 1
         /\ \A c \in Columns \ {"errorLog", "retryCount"} : AppendError(k, r)[c] = r[c]
<1> DEFINE e == <<k, attempts'[k]>>
           a == AppendError(k, r)
<1>1. /\ DOMAIN a = Columns
      /\ a["errorLog"] = r["errorLog"] \cup {e} /\ a["retryCount"] = r["retryCount"] + 1
      /\ \A c \in Columns \ {"errorLog", "retryCount"} : a[c] = r[c]
  BY DEF AppendError, RowType, Columns
<1>2. IsFiniteSet(a["errorLog"]) /\ a["retryCount"] = Cardinality(a["errorLog"])
  <2>1. IsFiniteSet(r["errorLog"]) /\ e \notin r["errorLog"] /\ r["retryCount"] = Cardinality(r["errorLog"])
    BY DEF RowType
  <2>2. /\ IsFiniteSet(r["errorLog"] \cup {e})
        /\ Cardinality(r["errorLog"] \cup {e}) = Cardinality(r["errorLog"]) + 1
    BY <2>1, FS_AddElement, Zenon
  <2>3. QED
    BY <1>1, <2>1, <2>2
<1>3. a["errorLog"] \subseteq Kinds \X Nat
  BY <1>1 DEF RowType
<1>4. /\ a["ended"] = r["ended"] /\ a["callSid"] = r["callSid"]
      /\ a["recordingKey"] = r["recordingKey"] /\ a["metadata"] = r["metadata"]
  BY <1>1 DEF Columns
<1>5. RowType(a)
  BY <1>1, <1>2, <1>3, <1>4, Zenon DEF RowType
<1>6. QED
  BY <1>1, <1>5

\* The metadata the orchestrator writes.
LEMMA OrchestratedRow ==
  ASSUME NEW r, RowType(r), short \in BOOLEAN
  PROVE  /\ RowType(Orchestrated(r))
         /\ \A c \in Columns \ {"metadata"} : Orchestrated(r)[c] = r[c]
         /\ short => Orchestrated(r)["metadata"].status = "skipped"
<1> DEFINE o == Orchestrated(r)
<1>1. /\ DOMAIN o = Columns
      /\ \A c \in Columns \ {"metadata"} : o[c] = r[c]
      /\ o["metadata"] = [r["metadata"] EXCEPT !.status = IF short THEN "skipped" ELSE "queued",
                                               !.stage = IF short THEN "short_call" ELSE @]
  BY DEF Orchestrated, RowType, Columns
<1>2. o["metadata"] \in Metadata /\ (short => o["metadata"].status = "skipped")
  BY <1>1 DEF RowType, Metadata
<1>3. /\ o["ended"] = r["ended"] /\ o["callSid"] = r["callSid"]
      /\ o["recordingKey"] = r["recordingKey"]
      /\ o["errorLog"] = r["errorLog"] /\ o["retryCount"] = r["retryCount"]
  BY <1>1 DEF Columns
<1>4. RowType(o)
  BY <1>1, <1>2, <1>3, Zenon DEF RowType
<1>5. QED
  BY <1>1, <1>2, <1>4
-----------------------------------------------------------------------------
(* What a write leaves *)

\* The columns that only move one way, and the ones that are overwritten.
LEMMA Written ==
  ASSUME RowInv, NEW s \in Sessions, NEW new, Write(s, new), RowType(new),
         new["errorLog"] = copy[s]["errorLog"] \/ new["retryCount"] # copy[s]["retryCount"],
         copy[s]["ended"] => new["ended"], copy[s]["recordingKey"] => new["recordingKey"]
  PROVE  /\ RowType(row')
         /\ row'["ended"] <=> row["ended"] \/ new["ended"]
         /\ row'["recordingKey"] <=> row["recordingKey"] \/ new["recordingKey"]
         /\ new["metadata"] = copy[s]["metadata"] => row'["metadata"] = row["metadata"]
         /\ copy[s]["metadata"] = row["metadata"] => row'["metadata"] = new["metadata"]
         /\ new["errorLog"] = copy[s]["errorLog"] => row'["errorLog"] = row["errorLog"]
         /\ new["errorLog"] # copy[s]["errorLog"] => row'["errorLog"] = new["errorLog"]
<1>1. copy[s] # NoCopy /\ row' = Flush(row, copy[s], new)
  BY DEF Write
<1>2. CopyHonest(s) /\ RowType(row)
  BY <1>1 DEF RowInv, CopiesInv
<1>3. /\ RowType(row')
      /\ \A c \in Columns : row'[c] = IF new[c] = copy[s][c] THEN row[c] ELSE new[c]
  <2>1. RowType(copy[s]) /\ RowType(row)
    BY <1>2 DEF CopyHonest
  <2> DEFINE old == copy[s]
  <2>2. /\ RowType(Flush(row, old, new))
        /\ \A c \in Columns : Flush(row, old, new)[c] = IF new[c] = old[c] THEN row[c] ELSE new[c]
    <3> HIDE DEF old
    <3>1. /\ RowType(old)
          /\ new["errorLog"] = old["errorLog"] \/ new["retryCount"] # old["retryCount"]
      BY <2>1 DEF old
    <3>2. QED
      BY <2>1, <3>1, FlushedRow
  <2>3. QED
    BY <1>1, <2>2 DEF RowType
<1>4. {"ended", "recordingKey", "metadata", "errorLog"} \subseteq Columns
  BY DEF Columns
<1>5. /\ row'["ended"] = IF new["ended"] = copy[s]["ended"] THEN row["ended"] ELSE new["ended"]
      /\ row'["recordingKey"] = IF new["recordingKey"] = copy[s]["recordingKey"]
                                THEN row["recordingKey"] ELSE new["recordingKey"]
      /\ row'["metadata"] = IF new["metadata"] = copy[s]["metadata"]
                            THEN row["metadata"] ELSE new["metadata"]
      /\ row'["errorLog"] = IF new["errorLog"] = copy[s]["errorLog"]
                            THEN row["errorLog"] ELSE new["errorLog"]
  BY <1>3, <1>4
<1>6. row'["ended"] <=> row["ended"] \/ new["ended"]
  BY <1>2, <1>5, Zenon DEF CopyHonest, RowType
<1>7. row'["recordingKey"] <=> row["recordingKey"] \/ new["recordingKey"]
  BY <1>2, <1>5, Zenon DEF CopyHonest, RowType
<1>8. QED
  BY <1>3, <1>5, <1>6, <1>7, Zenon

\* The copies of the other sessions, when a row is written or the jobs change.
LEMMA CopiesKept ==
  ASSUME RowInv, NEW s \in Sessions,
         copy' = [copy EXCEPT ![s] = NoCopy] \/ copy' = copy,
         failures \subseteq failures',
         row["ended"] => row'["ended"], row["recordingKey"] => row'["recordingKey"],
         \A k \in Kinds : copy'[k] # NoCopy =>
           job'[k] = job[k] /\ (k \in {"orchestrate", "llm"} => row'["metadata"] = row["metadata"])
  PROVE  CopiesInv'
<1>1. CopiesInv
  BY DEF RowInv
<1>2. DOMAIN copy' = Sessions /\ \A t \in Sessions : copy'[t] # NoCopy => copy'[t] = copy[t]
  BY <1>1 DEF CopiesInv
<1>3. \A t \in Sessions : copy'[t] # NoCopy => CopyHonest(t)'
  BY <1>1, <1>2 DEF CopiesInv, CopyHonest, RowType
<1>4. \A k \in Kinds : copy'[k] # NoCopy =>
        job'[k] = IF k = "orchestrate" THEN "ready" ELSE "running"
  BY <1>1, <1>2 DEF CopiesInv, Sessions
<1>5. "orchestrate" \in Kinds \cap Sessions /\ "llm" \in Kinds \cap Sessions
  BY DEF Kinds, Sessions
<1>6. Current("orchestrate")' /\ Current("llm")'
  BY <1>1, <1>2, <1>5 DEF CopiesInv, Current
<1>7. QED
  BY <1>2, <1>3, <1>4, <1>6, Zenon DEF CopiesInv

LEMMA RowInvInit == Init => RowInv
<1> SUFFICES ASSUME Init PROVE RowInv
  OBVIOUS
<1>1. /\ DOMAIN row = Columns
      /\ row["ended"] = FALSE /\ row["callSid"] = FALSE /\ row["recordingKey"] = FALSE
      /\ row["metadata"] = [status |-> "none", stage |-> "none"]
      /\ row["errorLog"] = {} /\ row["retryCount"] = 0
  BY DEF Init, NewRow, Columns
<1>2. RowType(row)
  <2>1. row["metadata"] \in Metadata
    BY <1>1 DEF Metadata
  <2>2. IsFiniteSet(row["errorLog"]) /\ row["retryCount"] = Cardinality(row["errorLog"])
    BY <1>1, FS_EmptySet
  <2>3. QED
    BY <1>1, <2>1, <2>2 DEF RowType
<1>3. JobsInv
  <2>1. /\ short \in BOOLEAN /\ sidInPayload \in BOOLEAN /\ answer \in Stages \cup {"none"}
        /\ job = [k \in Kinds |-> "absent"] /\ attempts = [k \in Kinds |-> 0] /\ crashes = 0
    BY DEF Init
  <2>2. MaxAttempts \in Nat \ {0} /\ MaxCrashes \in Nat
    BY InteractionRowAssumption
  <2>3. /\ job \in [Kinds -> {"absent", "ready", "running", "succeeded", "dead"}]
        /\ attempts \in [Kinds -> Nat] /\ crashes \in 0 .. MaxCrashes
    BY <2>1, <2>2
  <2>4. job["orchestrate"] = "absent" /\ job["llm"] = "absent"
    BY <2>1 DEF Kinds
  <2>5. \A k \in Kinds : attempts[k] < MaxAttempts + crashes
    BY <2>1, <2>2
  <2>6. QED
    BY <2>1, <2>2, <2>3, <2>4, <2>5 DEF JobsInv
<1>4. CopiesInv
  BY DEF Init, CopiesInv, Current, Sessions, Kinds
<1>5. FailuresInv /\ LogInv
  BY <1>1 DEF Init, FailuresInv, LogInv
<1>6. DashboardAgrees
  BY DEF Init, DashboardAgrees, Kinds
<1>7. QED
  BY <1>2, <1>3, <1>4, <1>5, <1>6 DEF RowInv

-----------------------------------------------------------------------------
(* The steps *)

\* A session loads the row: its copy is current.
LEMMA LoadKeeps ==
  ASSUME RowInv, NEW s \in Sessions, copy' = [copy EXCEPT ![s] = row],
         s \in Kinds => job[s] = IF s = "orchestrate" THEN "ready" ELSE "running",
         UNCHANGED <<short, row, job, attempts, sidInPayload, answer, failures, overwritten, crashes>>
  PROVE  RowInv'
<1>1. DOMAIN copy' = Sessions /\ copy'[s] = row /\ \A t \in Sessions \ {s} : copy'[t] = copy[t]
  BY DEF RowInv, CopiesInv
<1>2. \A t \in Sessions : copy'[t] # NoCopy => CopyHonest(t)'
  BY <1>1 DEF RowInv, CopiesInv, CopyHonest, RowType, LogInv
<1>3. \A k \in Kinds : copy'[k] # NoCopy =>
        job'[k] = IF k = "orchestrate" THEN "ready" ELSE "running"
  BY <1>1 DEF RowInv, CopiesInv, Sessions
<1>4. "orchestrate" \in Sessions /\ "llm" \in Sessions
  BY DEF Kinds, Sessions
<1>5. Current("orchestrate")' /\ Current("llm")'
  BY <1>1, <1>4 DEF RowInv, CopiesInv, Current
<1>6. CopiesInv'
  BY <1>1, <1>2, <1>3, <1>5, Zenon DEF CopiesInv
<1>7. RowType(row)' /\ JobsInv' /\ FailuresInv' /\ LogInv' /\ DashboardAgrees'
  BY DEF RowInv, RowType, JobsInv, FailuresInv, LogInv, DashboardAgrees
<1>8. QED
  BY <1>6, <1>7 DEF RowInv

\* The webhook's write: ended, the call_sid and the job.
LEMMA EndKeeps ==
  ASSUME RowInv, NEW d \in Deliveries, NEW callSid \in BOOLEAN, EndInteraction(d, callSid)
  PROVE  RowInv'
<1> DEFINE known == callSid \/ copy[d]["callSid"]
           new == [copy[d] EXCEPT !["ended"] = TRUE, !["callSid"] = known]
<1>1. /\ Write(d, new) /\ job' = Created({"orchestrate"})
      /\ sidInPayload' = IF job["orchestrate"] = "absent" THEN known ELSE sidInPayload
      /\ UNCHANGED <<short, attempts, answer, failures, overwritten, crashes>>
  BY DEF EndInteraction
<1>2. d \in Sessions /\ d \notin Kinds /\ copy[d] # NoCopy /\ copy' = [copy EXCEPT ![d] = NoCopy]
  BY <1>1, InteractionRowAssumption DEF Sessions, Write
<1>3. RowType(copy[d])
  BY <1>2 DEF RowInv, CopiesInv, CopyHonest
<1>4. known \in BOOLEAN
  BY <1>3 DEF RowType
<1>5. /\ DOMAIN new = Columns /\ new["ended"] = TRUE /\ new["callSid"] = known
      /\ \A c \in Columns \ {"ended", "callSid"} : new[c] = copy[d][c]
  BY <1>3 DEF RowType, Columns
<1>6. /\ new["recordingKey"] = copy[d]["recordingKey"] /\ new["metadata"] = copy[d]["metadata"]
      /\ new["errorLog"] = copy[d]["errorLog"] /\ new["retryCount"] = copy[d]["retryCount"]
  BY <1>5 DEF Columns
<1>7. RowType(new)
  BY <1>3, <1>4, <1>5, <1>6, Zenon DEF RowType
<1> HIDE DEF new, known
<1>8. /\ RowType(row') /\ row'["ended"] /\ (row'["recordingKey"] <=> row["recordingKey"])
      /\ row'["metadata"] = row["metadata"] /\ row'["errorLog"] = row["errorLog"]
  <2>1. copy[d]["recordingKey"] => row["recordingKey"]
    BY <1>2 DEF RowInv, CopiesInv, CopyHonest
  <2>2. QED
    BY <2>1, <1>1, <1>2, <1>5, <1>6, <1>7, Written, Zenon
<1>9. /\ job' \in [Kinds -> {"absent", "ready", "running", "succeeded", "dead"}]
      /\ \A k \in Kinds : job'[k] = IF k = "orchestrate" /\ job[k] = "absent" THEN "ready" ELSE job[k]
  BY <1>1 DEF Created, RowInv, JobsInv
<1>10. JobsInv'
  BY <1>1, <1>4, <1>9 DEF RowInv, JobsInv, Kinds
<1>11. CopiesInv'
  <2>1. \A k \in Kinds : copy'[k] # NoCopy => job'[k] = job[k]
    BY <1>2, <1>9 DEF RowInv, CopiesInv, Sessions
  <2>2. QED
    BY <2>1, <1>1, <1>2, <1>8, CopiesKept
<1>12. FailuresInv' /\ LogInv'
  BY <1>1, <1>8, <1>9 DEF RowInv, FailuresInv, LogInv
<1>13. DashboardAgrees'
  BY <1>1, <1>8, <1>9 DEF RowInv, DashboardAgrees, Kinds
<1>14. RowType(row)'
  BY <1>8 DEF RowType
<1>15. QED
  BY <1>10, <1>11, <1>12, <1>13, <1>14 DEF RowInv

\* A claim: the job runs, and the attempt counts.
LEMMA ClaimKeeps == ASSUME RowInv, NEW k \in Kinds, Claim(k) PROVE RowInv'
<1>1. /\ k # "orchestrate" /\ job[k] = "ready"
      /\ job' = [job EXCEPT ![k] = "running"] /\ attempts' = [attempts EXCEPT ![k] = @ + 1]
      /\ UNCHANGED <<short, row, copy, sidInPayload, answer, failures, overwritten, crashes>>
  BY DEF Claim
<1>2. JobsInv'
  BY <1>1, InteractionRowAssumption DEF RowInv, JobsInv, Kinds
<1>3. CopiesInv'
  BY <1>1 DEF RowInv, JobsInv, CopiesInv, Current, CopyHonest, RowType
<1>4. FailuresInv'
  BY <1>1 DEF RowInv, JobsInv, FailuresInv
<1>5. LogInv' /\ RowType(row)' /\ DashboardAgrees'
  BY <1>1 DEF RowInv, JobsInv, LogInv, RowType, DashboardAgrees, Kinds
<1>6. QED
  BY <1>2, <1>3, <1>4, <1>5 DEF RowInv

\* The success of a job that has the row's metadata and leaves the log alone; what it
\* writes is up to the lemmas that cite this one.
LEMMA SuccessKeeps ==
  ASSUME RowInv, NEW k \in {"llm", "recording", "orchestrate"}, copy[k] # NoCopy,
         copy' = [copy EXCEPT ![k] = NoCopy],
         RowType(row'), row["ended"] => row'["ended"],
         row["recordingKey"] => row'["recordingKey"], row'["errorLog"] = row["errorLog"],
         k = "recording" => row'["metadata"] = row["metadata"],
         job' \in [Kinds -> {"absent", "ready", "running", "succeeded", "dead"}],
         \A l \in Kinds \ {k} : job[l] # "absent" => job'[l] = job[l],
         \A l \in Kinds \ {k} : job[l] = "absent" => job'[l] \in {"absent", "ready"},
         UNCHANGED <<failures, overwritten>>,
         attempts' \in [Kinds -> Nat], \A l \in Kinds : attempts'[l] >= attempts[l],
         job'[k] = "succeeded"
  PROVE  CopiesInv' /\ FailuresInv' /\ LogInv' /\ RowType(row)'
<1>1. k \in Kinds /\ k \in Sessions /\ job[k] = IF k = "orchestrate" THEN "ready" ELSE "running"
  BY DEF Kinds, Sessions, RowInv, CopiesInv
<1>2. \A l \in Kinds : copy'[l] # NoCopy => l # k /\ copy[l] # NoCopy /\ job'[l] = job[l]
  BY <1>1 DEF RowInv, CopiesInv, Sessions
<1>3. \A l \in {"orchestrate", "llm"} : copy'[l] # NoCopy => row'["metadata"] = row["metadata"]
  BY <1>1, <1>2 DEF RowInv, CopiesInv, JobsInv, Kinds
<1>4. CopiesInv'
  BY <1>1, <1>2, <1>3, CopiesKept
<1>5. FailuresInv'
  BY <1>1 DEF RowInv, JobsInv, FailuresInv
<1>6. LogInv' /\ RowType(row)'
  BY DEF RowInv, LogInv, RowType
<1>7. QED
  BY <1>4, <1>5, <1>6

\* What the orchestrator may write besides an error.
LEMMA OrchestrateMayWrite ==
  ASSUME RowInv, NEW new, Write("orchestrate", new), RowType(new),
         new["errorLog"] = copy["orchestrate"]["errorLog"]
           \/ new["retryCount"] # copy["orchestrate"]["retryCount"],
         \A c \in {"ended", "recordingKey"} : new[c] = copy["orchestrate"][c]
  PROVE  /\ RowType(row') /\ row'["metadata"] = new["metadata"]
         /\ (row'["ended"] <=> row["ended"]) /\ (row'["recordingKey"] <=> row["recordingKey"])
         /\ new["errorLog"] = copy["orchestrate"]["errorLog"] => row'["errorLog"] = row["errorLog"]
         /\ new["errorLog"] # copy["orchestrate"]["errorLog"] => row'["errorLog"] = new["errorLog"]
<1>1. "orchestrate" \in Sessions /\ copy["orchestrate"] # NoCopy
  BY DEF Sessions, Kinds, Write
<1>2. /\ copy["orchestrate"]["metadata"] = row["metadata"]
      /\ copy["orchestrate"]["ended"] => row["ended"]
      /\ copy["orchestrate"]["recordingKey"] => row["recordingKey"]
  BY <1>1 DEF RowInv, CopiesInv, Current, CopyHonest
<1>3. QED
  BY <1>1, <1>2, Written, Zenon

LEMMA OrchestrateKeeps == ASSUME RowInv, OrchestrateSucceeds PROVE RowInv'
<1> DEFINE old == copy["orchestrate"]
           new == Orchestrated(old)
<1>1. /\ Write("orchestrate", new)
      /\ job' = [Created(Children) EXCEPT !["orchestrate"] = "succeeded"]
      /\ attempts' = [attempts EXCEPT !["orchestrate"] = @ + 1]
      /\ UNCHANGED <<short, sidInPayload, answer, failures, overwritten, crashes>>
  BY DEF OrchestrateSucceeds
<1>2. /\ old # NoCopy /\ copy' = [copy EXCEPT !["orchestrate"] = NoCopy]
      /\ "orchestrate" \in Kinds /\ "orchestrate" \in Sessions /\ "llm" \in Kinds
      /\ job["orchestrate"] = "ready" /\ job["llm"] = "absent"
  BY <1>1 DEF Write, RowInv, CopiesInv, JobsInv, Kinds, Sessions
<1>3. RowType(old) /\ short \in BOOLEAN
  BY <1>2 DEF RowInv, CopiesInv, CopyHonest, JobsInv
<1>4. /\ RowType(new) /\ \A c \in Columns \ {"metadata"} : new[c] = old[c]
      /\ short => new["metadata"].status = "skipped"
  BY <1>3, OrchestratedRow
<1>5. /\ new["ended"] = old["ended"] /\ new["recordingKey"] = old["recordingKey"]
      /\ new["errorLog"] = old["errorLog"]
  BY <1>4 DEF Columns
<1> HIDE DEF new
<1>6. /\ RowType(row') /\ row'["metadata"] = new["metadata"] /\ row'["errorLog"] = row["errorLog"]
      /\ (row'["ended"] <=> row["ended"]) /\ (row'["recordingKey"] <=> row["recordingKey"])
  BY <1>1, <1>4, <1>5, OrchestrateMayWrite
<1>7. /\ job' \in [Kinds -> {"absent", "ready", "running", "succeeded", "dead"}]
      /\ job'["orchestrate"] = "succeeded"
      /\ \A k \in Kinds \ {"orchestrate"} :
           job'[k] = IF k \in Children /\ job[k] = "absent" THEN "ready" ELSE job[k]
  BY <1>1, <1>2 DEF Created, RowInv, JobsInv
<1>8. Children \subseteq Kinds /\ (short => "llm" \notin Children)
  BY DEF Children, Kinds
<1>9. JobsInv'
  <2>1. /\ attempts' \in [Kinds -> Nat] /\ attempts'["orchestrate"] = attempts["orchestrate"] + 1
        /\ \A k \in Kinds \ {"orchestrate"} : attempts'[k] = attempts[k]
    BY <1>1 DEF RowInv, JobsInv, Kinds
  <2>2. /\ short \/ job'["orchestrate"] \in {"absent", "ready"} => job'["llm"] = "absent"
    BY <1>2, <1>7, <1>8
  <2>3. \A k \in Kinds :
          /\ attempts'[k] <= MaxAttempts + crashes
          /\ job'[k] \in {"absent", "ready"} => attempts'[k] < MaxAttempts + crashes
    <3>1. attempts["orchestrate"] < MaxAttempts + crashes /\ MaxAttempts \in Nat /\ crashes \in Nat
      BY <1>2, InteractionRowAssumption DEF RowInv, JobsInv
    <3>2. \A k \in Kinds \ {"orchestrate"} :
            job'[k] \in {"absent", "ready"} => job[k] \in {"absent", "ready"}
      BY <1>7
    <3>3. QED
      BY <2>1, <3>1, <3>2, <1>7 DEF RowInv, JobsInv
  <2>4. QED
    BY <1>1, <1>7, <2>1, <2>2, <2>3 DEF RowInv, JobsInv
<1>10. CopiesInv' /\ FailuresInv' /\ LogInv' /\ RowType(row)'
  <2>1. attempts' \in [Kinds -> Nat] /\ \A l \in Kinds : attempts'[l] >= attempts[l]
    <3>1. /\ attempts \in [Kinds -> Nat]
          /\ \A l \in Kinds : attempts'[l] = IF l = "orchestrate" THEN attempts[l] + 1 ELSE attempts[l]
      BY <1>1 DEF RowInv, JobsInv
    <3>2. attempts' \in [Kinds -> Nat]
      BY <1>1, <1>2, <3>1, SMTT(30)
    <3>3. QED
      BY <3>1, <3>2
  <2>2. /\ \A l \in Kinds \ {"orchestrate"} : job[l] # "absent" => job'[l] = job[l]
        /\ \A l \in Kinds \ {"orchestrate"} : job[l] = "absent" => job'[l] \in {"absent", "ready"}
    BY <1>7
  <2>3. QED
    BY <1>1, <1>2, <1>6, <1>7, <2>1, <2>2, SuccessKeeps
<1>11. DashboardAgrees'
  <2>1. job'["llm"] # "succeeded" /\ (job'["recording"] = "succeeded" => job["recording"] = "succeeded")
    BY <1>2, <1>7 DEF Kinds
  <2>2. row'["ended"]
    BY <1>2, <1>6 DEF RowInv, DashboardAgrees
  <2>3. QED
    BY <1>1, <1>4, <1>6, <2>1, <2>2 DEF RowInv, DashboardAgrees
<1>12. QED
  BY <1>9, <1>10, <1>11 DEF RowInv

\* The LLM worker holds the current metadata, so its analysis is what the row shows.
LEMMA AnalysedKeeps == ASSUME RowInv, NEW s \in Stages, Analysed(s) PROVE RowInv'
<1> DEFINE old == copy["llm"]
           done == [status |-> "completed", stage |-> s]
           new == [old EXCEPT !["metadata"] = done]
<1>1. /\ Write("llm", new) /\ answer' = s
      /\ job' = [Created({"signal", "lead"}) EXCEPT !["llm"] = "succeeded"]
      /\ UNCHANGED <<short, attempts, sidInPayload, failures, overwritten, crashes>>
  BY DEF Analysed
<1>2. /\ old # NoCopy /\ copy' = [copy EXCEPT !["llm"] = NoCopy]
      /\ "llm" \in Kinds /\ "llm" \in Sessions /\ job["llm"] = "running"
      /\ ~short /\ job["orchestrate"] \notin {"absent", "ready"}
  BY <1>1 DEF Write, RowInv, CopiesInv, JobsInv, Kinds, Sessions
<1>3. RowType(old) /\ old["metadata"] = row["metadata"]
      /\ (old["ended"] => row["ended"]) /\ (old["recordingKey"] => row["recordingKey"])
  BY <1>2 DEF RowInv, CopiesInv, CopyHonest, Current
<1>4. /\ DOMAIN new = Columns /\ new["metadata"] = done
      /\ new["ended"] = old["ended"] /\ new["callSid"] = old["callSid"]
      /\ new["recordingKey"] = old["recordingKey"]
      /\ new["errorLog"] = old["errorLog"] /\ new["retryCount"] = old["retryCount"]
  BY <1>3 DEF RowType, Columns
<1>5. RowType(new)
  <2>1. done \in Metadata
    BY DEF Metadata
  <2>2. QED
    BY <1>3, <1>4, <2>1, Zenon DEF RowType
<1> HIDE DEF new
<1>6. /\ RowType(row') /\ row'["metadata"] = done /\ row'["errorLog"] = row["errorLog"]
      /\ (row'["ended"] <=> row["ended"]) /\ (row'["recordingKey"] <=> row["recordingKey"])
  BY <1>1, <1>2, <1>3, <1>4, <1>5, Written, Zenon
<1>7. /\ job' \in [Kinds -> {"absent", "ready", "running", "succeeded", "dead"}]
      /\ job'["llm"] = "succeeded"
      /\ \A k \in Kinds \ {"llm"} :
           job'[k] = IF k \in {"signal", "lead"} /\ job[k] = "absent" THEN "ready" ELSE job[k]
  BY <1>1, <1>2 DEF Created, RowInv, JobsInv
<1>8. JobsInv'
  <2>1. job'["orchestrate"] = job["orchestrate"]
    BY <1>7 DEF Kinds
  <2>2. QED
    BY <1>1, <1>2, <1>7, <2>1 DEF RowInv, JobsInv
<1>9. CopiesInv' /\ FailuresInv' /\ LogInv' /\ RowType(row)'
  <2>1. /\ attempts' \in [Kinds -> Nat] /\ \A l \in Kinds : attempts'[l] >= attempts[l]
    BY <1>1 DEF RowInv, JobsInv
  <2>2. /\ \A l \in Kinds \ {"llm"} : job[l] # "absent" => job'[l] = job[l]
        /\ \A l \in Kinds \ {"llm"} : job[l] = "absent" => job'[l] \in {"absent", "ready"}
    BY <1>7
  <2>3. QED
    BY <1>1, <1>2, <1>6, <1>7, <2>1, <2>2, SuccessKeeps
<1>10. DashboardAgrees'
  <2>1. job'["recording"] = job["recording"] /\ job'["orchestrate"] = job["orchestrate"]
    BY <1>7 DEF Kinds
  <2>2. QED
    BY <1>1, <1>2, <1>6, <1>7, <2>1 DEF RowInv, DashboardAgrees
<1>11. QED
  BY <1>8, <1>9, <1>10 DEF RowInv

\* The recording's key.
LEMMA UploadedKeeps == ASSUME RowInv, Uploaded PROVE RowInv'
<1> DEFINE old == copy["recording"]
           new == [old EXCEPT !["recordingKey"] = TRUE]
<1>1. /\ Write("recording", new) /\ job' = [job EXCEPT !["recording"] = "succeeded"]
      /\ UNCHANGED <<short, attempts, sidInPayload, answer, failures, overwritten, crashes>>
  BY DEF Uploaded
<1>2. /\ old # NoCopy /\ copy' = [copy EXCEPT !["recording"] = NoCopy]
      /\ "recording" \in Sessions /\ "recording" \in Kinds
  BY <1>1 DEF Write, Kinds, Sessions
<1>3. RowType(old) /\ (old["ended"] => row["ended"]) /\ (old["recordingKey"] => row["recordingKey"])
  BY <1>2 DEF RowInv, CopiesInv, CopyHonest
<1>4. /\ DOMAIN new = Columns /\ new["recordingKey"] = TRUE
      /\ new["ended"] = old["ended"] /\ new["callSid"] = old["callSid"]
      /\ new["metadata"] = old["metadata"]
      /\ new["errorLog"] = old["errorLog"] /\ new["retryCount"] = old["retryCount"]
  BY <1>3 DEF RowType, Columns
<1>5. RowType(new)
  BY <1>3, <1>4, Zenon DEF RowType
<1> HIDE DEF new
<1>6. /\ RowType(row') /\ row'["metadata"] = row["metadata"] /\ row'["errorLog"] = row["errorLog"]
      /\ (row'["ended"] <=> row["ended"]) /\ row'["recordingKey"]
  BY <1>1, <1>2, <1>3, <1>4, <1>5, Written, Zenon
<1>7. /\ job' \in [Kinds -> {"absent", "ready", "running", "succeeded", "dead"}]
      /\ job'["recording"] = "succeeded" /\ \A k \in Kinds \ {"recording"} : job'[k] = job[k]
  BY <1>1, <1>2 DEF RowInv, JobsInv
<1>8. JobsInv'
  <2>1. job'["orchestrate"] = job["orchestrate"] /\ job'["llm"] = job["llm"]
    BY <1>7 DEF Kinds
  <2>2. QED
    BY <1>1, <1>7, <2>1 DEF RowInv, JobsInv
<1>9. CopiesInv' /\ FailuresInv' /\ LogInv' /\ RowType(row)'
  <2>1. attempts' \in [Kinds -> Nat] /\ \A l \in Kinds : attempts'[l] >= attempts[l]
    BY <1>1 DEF RowInv, JobsInv
  <2>2. QED
    BY <1>1, <1>2, <1>6, <1>7, <2>1, SuccessKeeps
<1>10. DashboardAgrees'
  BY <1>1, <1>6, <1>7 DEF RowInv, DashboardAgrees, Kinds
<1>11. QED
  BY <1>8, <1>9, <1>10 DEF RowInv

\* A result job's success leaves the row alone.
LEMMA ResultKeeps == ASSUME RowInv, NEW k \in Kinds, ResultDone(k) PROVE RowInv'
<1>1. /\ k \in {"signal", "lead"} /\ copy[k] = NoCopy /\ job' = [job EXCEPT ![k] = "succeeded"]
      /\ UNCHANGED <<short, row, copy, attempts, sidInPayload, answer, failures, overwritten, crashes>>
  BY DEF ResultDone
<1>2. JobsInv'
  BY <1>1 DEF RowInv, JobsInv, Kinds
<1>3. CopiesInv'
  BY <1>1 DEF RowInv, JobsInv, CopiesInv, Current, CopyHonest, RowType
<1>4. FailuresInv' /\ LogInv' /\ RowType(row)' /\ DashboardAgrees'
  BY <1>1 DEF RowInv, JobsInv, FailuresInv, LogInv, RowType, DashboardAgrees, Kinds
<1>5. QED
  BY <1>2, <1>3, <1>4 DEF RowInv

\* A failure handler's write, after what the transaction changed before.
LEMMA FailedKeeps ==
  ASSUME RowInv, NEW k \in Kinds, NEW changed, NEW jobs, Failed(k, changed, jobs),
         RowType(changed), \A c \in Columns \ {"metadata"} : changed[c] = copy[k][c],
         k # "orchestrate" => changed = copy[k],
         jobs \in [Kinds -> {"absent", "ready", "running", "succeeded", "dead"}],
         \A l \in Kinds \ {k} : \/ jobs[l] = job[l]
                                \/ job[l] = "absent" /\ jobs[l] = "ready" /\ l \notin {"llm", "orchestrate"},
         attempts' \in [Kinds -> Nat], \A l \in Kinds \ {k} : attempts'[l] = attempts[l],
         attempts'[k] >= attempts[k], attempts'[k] <= MaxAttempts + crashes,
         <<k, attempts'[k]>> \notin failures
  PROVE  RowInv'
<1> DEFINE e == <<k, attempts'[k]>>
           new == AppendError(k, changed)
<1>1. PICK then \in {"ready", "dead"} :
        /\ job' = [jobs EXCEPT ![k] = then]
        /\ then = "ready" => attempts'[k] < MaxAttempts
  BY DEF Failed
<1>2. /\ Write(k, new) /\ failures' = failures \cup {e}
      /\ overwritten' = (overwritten \/ copy[k]["errorLog"] # row["errorLog"])
      /\ UNCHANGED <<short, sidInPayload, answer, crashes>>
  BY DEF Failed
<1>3. /\ k \in Sessions /\ copy[k] # NoCopy /\ copy' = [copy EXCEPT ![k] = NoCopy]
      /\ job[k] = IF k = "orchestrate" THEN "ready" ELSE "running"
      /\ CopyHonest(k)
  BY <1>2 DEF Write, Sessions, RowInv, CopiesInv
<1>4. /\ changed["ended"] = copy[k]["ended"] /\ changed["recordingKey"] = copy[k]["recordingKey"]
      /\ changed["errorLog"] = copy[k]["errorLog"]
  BY DEF Columns
<1>5. e \notin changed["errorLog"] /\ attempts'[k] \in Nat
  BY <1>3, <1>4 DEF CopyHonest
<1>6. /\ RowType(new) /\ new["errorLog"] = changed["errorLog"] \cup {e}
      /\ new["retryCount"] = changed["retryCount"] + 1
      /\ \A c \in Columns \ {"errorLog", "retryCount"} : new[c] = changed[c]
  BY <1>5, AppendedRow
<1>7. /\ new["ended"] = copy[k]["ended"] /\ new["recordingKey"] = copy[k]["recordingKey"]
      /\ new["metadata"] = changed["metadata"]
      /\ new["errorLog"] # copy[k]["errorLog"]
  BY <1>4, <1>5, <1>6 DEF Columns
<1> HIDE DEF new
<1>8. new["retryCount"] # copy[k]["retryCount"]
  <2>1. copy[k]["retryCount"] = changed["retryCount"]
    BY DEF Columns
  <2>2. changed["retryCount"] \in Nat
    BY FS_CardinalityType DEF RowType
  <2>3. QED
    BY <1>6, <2>1, <2>2
<1>9. /\ RowType(row') /\ row'["errorLog"] = copy[k]["errorLog"] \cup {e}
      /\ (row'["ended"] <=> row["ended"]) /\ (row'["recordingKey"] <=> row["recordingKey"])
      /\ new["metadata"] = copy[k]["metadata"] => row'["metadata"] = row["metadata"]
  <2>1. (copy[k]["ended"] => row["ended"]) /\ (copy[k]["recordingKey"] => row["recordingKey"])
    BY <1>3 DEF CopyHonest
  <2>2. new["errorLog"] = copy[k]["errorLog"] \cup {e}
    BY <1>4, <1>6
  <2>3. (copy[k]["ended"] => new["ended"]) /\ (copy[k]["recordingKey"] => new["recordingKey"])
    BY <1>7
  <2>4. /\ RowType(row')
        /\ new["metadata"] = copy[k]["metadata"] => row'["metadata"] = row["metadata"]
        /\ row'["errorLog"] = new["errorLog"]
        /\ row'["ended"] <=> row["ended"] \/ new["ended"]
        /\ row'["recordingKey"] <=> row["recordingKey"] \/ new["recordingKey"]
    BY <2>3, <1>2, <1>3, <1>6, <1>7, <1>8, Written
  <2>5. QED
    BY <2>1, <2>2, <2>4, <1>7, Zenon
<1>10. /\ job' \in [Kinds -> {"absent", "ready", "running", "succeeded", "dead"}]
       /\ job'[k] = then /\ \A l \in Kinds \ {k} : job'[l] = jobs[l]
  BY <1>1
<1>11. k # "orchestrate" => row'["metadata"] = row["metadata"]
  BY <1>7, <1>9
<1>12. "orchestrate" \in Kinds /\ "llm" \in Kinds /\ "recording" \in Kinds
  BY DEF Kinds
<1>13. k = "orchestrate" => job["llm"] = "absent"
  BY <1>3 DEF RowInv, JobsInv
<1>14. JobsInv'
  <2>1. job'["orchestrate"] # "running"
    BY <1>10, <1>12 DEF RowInv, JobsInv
  <2>2. short \/ job'["orchestrate"] \in {"absent", "ready"} => job'["llm"] = "absent"
    BY <1>3, <1>10, <1>12, <1>13 DEF RowInv, JobsInv
  <2>3. \A l \in Kinds :
          /\ attempts'[l] <= MaxAttempts + crashes
          /\ job'[l] \in {"absent", "ready"} => attempts'[l] < MaxAttempts + crashes
    <3>1. MaxAttempts \in Nat /\ crashes \in Nat
      BY InteractionRowAssumption DEF RowInv, JobsInv
    <3>2. \A l \in Kinds \ {k} : job'[l] \in {"absent", "ready"} => job[l] \in {"absent", "ready"}
      BY <1>10
    <3>3. job'[k] \in {"absent", "ready"} => attempts'[k] < MaxAttempts + crashes
      BY <1>1, <1>10, <3>1
    <3>4. QED
      BY <3>2, <3>3 DEF RowInv, JobsInv
  <2>4. QED
    BY <1>2, <1>10, <2>1, <2>2, <2>3 DEF RowInv, JobsInv
<1>15. CopiesInv'
  <2>1. \A l \in Kinds : copy'[l] # NoCopy => l # k /\ copy[l] # NoCopy /\ job[l] # "absent"
    BY <1>3 DEF RowInv, CopiesInv, Sessions
  <2>2. \A l \in Kinds : copy'[l] # NoCopy => job'[l] = job[l]
    BY <2>1, <1>10
  <2>3. \A l \in {"orchestrate", "llm"} : copy'[l] # NoCopy => row'["metadata"] = row["metadata"]
    BY <2>1, <1>11, <1>12, <1>13
  <2>4. QED
    BY <2>2, <2>3, <1>2, <1>3, <1>9, CopiesKept
<1>16. FailuresInv'
  <2>1. job'[k] # "running" /\ \A l \in Kinds \ {k} : job'[l] = "running" => job[l] = "running"
    BY <1>10
  <2>2. \A n \in Nat : <<k, n>> \in failures => n <= attempts'[k]
    BY DEF RowInv, FailuresInv, JobsInv
  <2>3. failures' \subseteq Kinds \X Nat /\ overwritten' \in BOOLEAN
    BY <1>2, <1>5 DEF RowInv, FailuresInv
  <2>4. QED
    BY <2>1, <2>2, <2>3, <1>2, <1>5 DEF RowInv, FailuresInv
<1>17. LogInv'
  <2>1. copy[k]["errorLog"] \subseteq failures
    BY <1>3 DEF CopyHonest
  <2>2. QED
    BY <2>1, <1>2, <1>9 DEF RowInv, LogInv
<1>18. DashboardAgrees'
  <2>1. /\ job'["llm"] = "succeeded" => job["llm"] = "succeeded" /\ k # "orchestrate"
        /\ job'["recording"] = "succeeded" => job["recording"] = "succeeded"
        /\ job'["orchestrate"] # "absent" => job["orchestrate"] # "absent"
        /\ job'["orchestrate"] = "succeeded" => job["orchestrate"] = "succeeded" /\ k # "orchestrate"
    BY <1>3, <1>10, <1>12, <1>13
  <2>2. QED
    BY <2>1, <1>2, <1>9, <1>11 DEF RowInv, DashboardAgrees
<1>19. RowType(row)'
  BY <1>9 DEF RowType
<1>20. QED
  BY <1>14, <1>15, <1>16, <1>17, <1>18, <1>19 DEF RowInv

\* A worker's failure: its attempt was counted when it claimed.
LEMMA FailKeeps == ASSUME RowInv, NEW k \in Kinds, Fail(k) PROVE RowInv'
<1>1. k # "orchestrate" /\ attempts' = attempts /\ Failed(k, copy[k], job)
  BY DEF Fail
<1>2. copy[k] # NoCopy /\ k \in Sessions
  BY <1>1 DEF Failed, Write, Sessions
<1>3. RowType(copy[k]) /\ job[k] = "running"
  BY <1>1, <1>2 DEF RowInv, CopiesInv, CopyHonest
<1>4. <<k, attempts'[k]>> \notin failures
  BY <1>1, <1>3 DEF RowInv, FailuresInv, JobsInv
<1>5. /\ job \in [Kinds -> {"absent", "ready", "running", "succeeded", "dead"}]
      /\ attempts' \in [Kinds -> Nat] /\ attempts'[k] >= attempts[k]
      /\ attempts'[k] <= MaxAttempts + crashes
  BY <1>1 DEF RowInv, JobsInv
<1>6. QED
  BY <1>1, <1>3, <1>4, <1>5, FailedKeeps

\* The orchestrator's failure: its attempt counts with the commit.
LEMMA RaisesKeeps == ASSUME RowInv, OrchestrateRaises PROVE RowInv'
<1> DEFINE k == "orchestrate"
<1>1. attempts' = [attempts EXCEPT !["orchestrate"] = @ + 1]
  BY DEF OrchestrateRaises
<1>2. copy["orchestrate"] # NoCopy /\ "orchestrate" \in Sessions /\ "orchestrate" \in Kinds
  BY DEF OrchestrateRaises, Failed, Write, Sessions, Kinds
<1>3. RowType(copy["orchestrate"]) /\ job["orchestrate"] = "ready" /\ short \in BOOLEAN
  BY <1>2 DEF RowInv, CopiesInv, CopyHonest, JobsInv
<1>4. /\ attempts' \in [Kinds -> Nat] /\ attempts'["orchestrate"] = attempts["orchestrate"] + 1
      /\ \A l \in Kinds \ {"orchestrate"} : attempts'[l] = attempts[l]
  BY <1>1, <1>2 DEF RowInv, JobsInv
<1>5. /\ attempts'["orchestrate"] >= attempts["orchestrate"]
      /\ attempts'["orchestrate"] <= MaxAttempts + crashes
  BY <1>2, <1>3, <1>4, InteractionRowAssumption DEF RowInv, JobsInv
<1>6. <<"orchestrate", attempts'["orchestrate"]>> \notin failures
  BY <1>2, <1>4 DEF RowInv, FailuresInv, JobsInv
<1>7. CASE Failed("orchestrate", copy["orchestrate"], job)
  <2>1. job \in [Kinds -> {"absent", "ready", "running", "succeeded", "dead"}]
    BY DEF RowInv, JobsInv
  <2>2. QED
    BY <2>1, <1>2, <1>3, <1>4, <1>5, <1>6, <1>7, FailedKeeps
<1>8. CASE /\ ~short
           /\ Failed("orchestrate", Orchestrated(copy["orchestrate"]), Created(Children \ {"llm"}))
  <2> DEFINE jobs == Created(Children \ {"llm"})
             changed == Orchestrated(copy["orchestrate"])
  <2>1. /\ jobs \in [Kinds -> {"absent", "ready", "running", "succeeded", "dead"}]
        /\ \A l \in Kinds : \/ jobs[l] = job[l]
                            \/ job[l] = "absent" /\ jobs[l] = "ready" /\ l \notin {"llm", "orchestrate"}
    <3>1. "orchestrate" \notin Children
      BY DEF Children
    <3>2. job \in [Kinds -> {"absent", "ready", "running", "succeeded", "dead"}]
      BY DEF RowInv, JobsInv
    <3>3. \A l \in Kinds :
            jobs[l] = IF l \in Children \ {"llm"} /\ job[l] = "absent" THEN "ready" ELSE job[l]
      BY DEF Created
    <3>4. jobs \in [Kinds -> {"absent", "ready", "running", "succeeded", "dead"}]
      BY <3>2 DEF Created
    <3>5. QED
      BY <3>1, <3>3, <3>4
  <2>2. RowType(changed) /\ \A c \in Columns \ {"metadata"} : changed[c] = copy["orchestrate"][c]
    BY <1>3, OrchestratedRow
  <2> HIDE DEF jobs, changed
  <2>3. Failed("orchestrate", changed, jobs)
    BY <1>8 DEF jobs, changed
  <2>4. QED
    BY <2>1, <2>2, <2>3, <1>2, <1>4, <1>5, <1>6, FailedKeeps
<1>9. QED
  BY <1>7, <1>8 DEF OrchestrateRaises

\* A crash loses a copy; a job that was running is recovered.
LEMMA CrashKeeps == ASSUME RowInv, NEW s \in Sessions, Crash(s) PROVE RowInv'
<1>1. /\ crashes < MaxCrashes /\ crashes' = crashes + 1
      /\ copy' = [copy EXCEPT ![s] = NoCopy]
      /\ UNCHANGED <<short, row, attempts, sidInPayload, answer, failures, overwritten>>
  BY DEF Crash
<1>2. /\ job' \in [Kinds -> {"absent", "ready", "running", "succeeded", "dead"}]
      /\ \A k \in Kinds : job'[k] = IF k = s /\ job[k] = "running" THEN "ready" ELSE job[k]
  BY DEF Crash, RowInv, JobsInv
<1>3. JobsInv'
  <2>1. MaxAttempts \in Nat /\ MaxCrashes \in Nat /\ crashes \in Nat /\ attempts \in [Kinds -> Nat]
    BY InteractionRowAssumption DEF RowInv, JobsInv
  <2>2. "orchestrate" \in Kinds /\ "llm" \in Kinds
    BY DEF Kinds
  <2>3. \A k \in Kinds :
          /\ attempts[k] <= MaxAttempts + crashes'
          /\ job'[k] \in {"absent", "ready"} => attempts[k] < MaxAttempts + crashes'
    BY <1>1, <1>2, <2>1 DEF RowInv, JobsInv
  <2>4. short \/ job'["orchestrate"] \in {"absent", "ready"} => job'["llm"] = "absent"
    BY <1>2, <2>2 DEF RowInv, JobsInv
  <2>5. job'["orchestrate"] # "running" /\ crashes' \in 0 .. MaxCrashes
    BY <1>1, <1>2, <2>1, <2>2 DEF RowInv, JobsInv
  <2>6. QED
    BY <1>1, <1>2, <2>3, <2>4, <2>5 DEF RowInv, JobsInv
<1>4. CopiesInv'
  <2>1. \A k \in Kinds : copy'[k] # NoCopy => job'[k] = job[k]
    BY <1>1, <1>2 DEF RowInv, CopiesInv, Sessions
  <2>2. QED
    BY <2>1, <1>1, CopiesKept
<1>5. FailuresInv' /\ LogInv' /\ RowType(row)'
  BY <1>1, <1>2 DEF RowInv, FailuresInv, LogInv, RowType
<1>6. DashboardAgrees'
  BY <1>1, <1>2 DEF RowInv, DashboardAgrees, Kinds
<1>7. QED
  BY <1>3, <1>4, <1>5, <1>6 DEF RowInv

LEMMA RowInvNext == RowInv /\ [Next]_vars => RowInv'
<1> SUFFICES ASSUME RowInv, [Next]_vars PROVE RowInv'
  OBVIOUS
<1>1. ASSUME NEW d \in Deliveries, Receive(d) PROVE RowInv'
  BY <1>1, LoadKeeps, InteractionRowAssumption DEF Receive, Sessions
<1>2. ASSUME NEW k \in Kinds, Load(k) PROVE RowInv'
  BY <1>2, LoadKeeps DEF Load, Sessions
<1>3. CASE UNCHANGED vars
  BY <1>3 DEF vars, RowInv, RowType, JobsInv, CopiesInv, CopyHonest, Current, FailuresInv, LogInv,
     DashboardAgrees
<1>4. QED
  BY <1>1, <1>2, <1>3, EndKeeps, ClaimKeeps, ResultKeeps, FailKeeps, OrchestrateKeeps,
     RaisesKeeps, UploadedKeeps, AnalysedKeeps, CrashKeeps DEF Next

LEMMA RowInvAlways == Spec => []RowInv
<1>1. QED
  BY RowInvInit, RowInvNext, PTL DEF Spec

-----------------------------------------------------------------------------
(* Theorems *)

\* Type correctness of the row, the copies and the jobs; attempts stay within their
\* maximum and one more for each crash.
THEOREM TypeCorrect == Spec => []TypeOK
<1>1. RowInv => TypeOK
  <2> SUFFICES ASSUME RowInv PROVE TypeOK
    OBVIOUS
  <2>1. attempts \in [Kinds -> 0 .. MaxAttempts + MaxCrashes]
    BY InteractionRowAssumption DEF RowInv, JobsInv
  <2>2. QED
    BY <2>1 DEF RowInv, RowType, JobsInv, CopiesInv, CopyHonest, FailuresInv, TypeOK
<1>2. QED
  BY <1>1, RowInvAlways, PTL

\* The dashboard's columns say what the jobs did, though every write is made from a copy
\* that other transactions may have overtaken.
THEOREM RowAgreesWithJobs == Spec => []DashboardAgrees
<1>1. RowInv => DashboardAgrees
  BY DEF RowInv
<1>2. QED
  BY <1>1, RowInvAlways, PTL

\* The error log holds failures that happened, counts them right, and is complete unless
\* two handlers overlapped.
THEOREM ErrorLogIsHonest == Spec => []ErrorLogHonest
<1>1. RowInv => ErrorLogHonest
  BY DEF RowInv, RowType, LogInv, ErrorLogHonest
<1>2. QED
  BY <1>1, RowInvAlways, PTL
=============================================================================
