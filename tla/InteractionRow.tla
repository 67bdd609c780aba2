--------------------------- MODULE InteractionRow ---------------------------
(***************************************************************************)
(* The row of the interactions table that the webhook and every job of the *)
(* interaction write to, each in a transaction of its own: the call's end, *)
(* the dashboard's metadata, the recording's key, the error log.           *)
(*                                                                         *)
(* Nobody locks the row when reading it.  A session reads it, computes new *)
(* values, dictionaries and lists included, and its flush sends the        *)
(* columns that differ from what it read; that UPDATE waits for another    *)
(* transaction's, then overwrites the columns whole.  So a transaction is  *)
(* two steps here, Load and a write, and anything may come between them.   *)
(*                                                                         *)
(* Claims are exclusive in this module (JobQueue tells when they are); a   *)
(* worker's crash comes together with the recovery of its job.             *)
(***************************************************************************)
EXTENDS Naturals, FiniteSets

CONSTANTS Deliveries,      \* the webhook and its repeats
          Stages,          \* call_stage values the analysis may return
          MaxAttempts,     \* max_attempts of a job
          MaxCrashes       \* bound of the environment

Kinds == {"orchestrate", "recording", "llm", "signal", "lead"}

Sessions == Kinds \cup Deliveries

ASSUME InteractionRowAssumption ==
  /\ Deliveries \cap Kinds = {}
  /\ "none" \notin Stages /\ "short_call" \notin Stages
  /\ MaxAttempts \in Nat \ {0} /\ MaxCrashes \in Nat

\* The columns the pipeline writes.
Columns == {"ended", "callSid", "metadata", "recordingKey", "errorLog", "retryCount"}

NewRow == [c \in Columns |->
             CASE c = "metadata"   -> [status |-> "none", stage |-> "none"]
               [] c = "errorLog"   -> {}
               [] c = "retryCount" -> 0
               [] OTHER            -> FALSE]

NoCopy == [c \in {} |-> 0]

VARIABLES
  short,        \* the transcript has fewer than four turns
  row,          \* the row in the database
  copy,         \* the row as a session has loaded it
  job,          \* status of the interaction's job of a kind: absent, ready, running, succeeded, dead
  attempts,
  sidInPayload, \* the orchestrate job's payload has a call_sid
  answer,       \* the call_stage in the LLM job's result
  failures,     \* the failures handled: kind and attempt (history)
  overwritten,  \* a failure was written over an error log that had changed (history)
  crashes

vars == <<short, row, copy, job, attempts, sidInPayload, answer, failures, overwritten, crashes>>

Init ==
  /\ short \in BOOLEAN
  /\ row = NewRow
  /\ copy = [s \in Sessions |-> NoCopy]
  /\ job = [k \in Kinds |-> "absent"]
  /\ attempts = [k \in Kinds |-> 0]
  /\ sidInPayload = FALSE
  /\ answer = "none"
  /\ failures = {} /\ overwritten = FALSE
  /\ crashes = 0

\* Mutant: the whole row is sent.
FlushWhole(db, old, new) == new

\* The UPDATE of a flush: the columns in which new differs from what was loaded.
Flush(db, old, new) == [c \in Columns |-> IF new[c] = old[c] THEN db[c] ELSE new[c]]

\* The write of session s, which has changed its copy to new, and its commit.
Write(s, new) ==
  /\ copy[s] # NoCopy
  /\ row' = Flush(row, copy[s], new)
  /\ copy' = [copy EXCEPT ![s] = NoCopy]

\* create_if_absent for the kinds ks, inside a transaction.
Created(ks) == [k \in Kinds |-> IF k \in ks /\ job[k] = "absent" THEN "ready" ELSE job[k]]

-----------------------------------------------------------------------------
(* The webhook *)

Receive(d) ==
  /\ copy[d] = NoCopy
  /\ copy' = [copy EXCEPT ![d] = row]
  /\ UNCHANGED <<short, row, job, attempts, sidInPayload, answer, failures, overwritten, crashes>>

\* mark_ended and enqueue_interaction_ended.  The payload is that of the delivery which
\* inserts the job; a repeat may bring a call_sid that it lacks.
EndInteraction(d, callSid) ==
  LET known == callSid \/ copy[d]["callSid"]
  IN  /\ Write(d, [copy[d] EXCEPT !["ended"] = TRUE, !["callSid"] = known])
      /\ job' = Created({"orchestrate"})
      /\ sidInPayload' = IF job["orchestrate"] = "absent" THEN known ELSE sidInPayload
      /\ UNCHANGED <<short, attempts, answer, failures, overwritten, crashes>>

-----------------------------------------------------------------------------
(* Jobs: claim, load, outcome *)

\* Mutant: a claim without its status filter.
ClaimAny(k) ==
  /\ k # "orchestrate" /\ job[k] # "absent"
  /\ job' = [job EXCEPT ![k] = "running"]
  /\ attempts' = [attempts EXCEPT ![k] = @ + 1]
  /\ UNCHANGED <<short, row, copy, sidInPayload, answer, failures, overwritten, crashes>>

\* claim_ready_jobs.
Claim(k) ==
  /\ k # "orchestrate" /\ job[k] = "ready"
  /\ job' = [job EXCEPT ![k] = "running"]
  /\ attempts' = [attempts EXCEPT ![k] = @ + 1]
  /\ UNCHANGED <<short, row, copy, sidInPayload, answer, failures, overwritten, crashes>>

\* The transaction that writes the outcome reads the interaction.  The orchestrator's
\* claims the job as well: its attempt counts when it commits.
Load(k) ==
  /\ job[k] = IF k = "orchestrate" THEN "ready" ELSE "running"
  /\ copy[k] = NoCopy
  /\ copy' = [copy EXCEPT ![k] = row]
  /\ UNCHANGED <<short, row, job, attempts, sidInPayload, answer, failures, overwritten, crashes>>

\* The children of the orchestrate job, and the metadata that goes with them.
Children == (IF sidInPayload THEN {"recording"} ELSE {})
              \cup (IF short THEN {"signal", "lead"} ELSE {"llm"})

Orchestrated(r) ==
  [r EXCEPT !["metadata"].status = IF short THEN "skipped" ELSE "queued",
            !["metadata"].stage = IF short THEN "short_call" ELSE @]

OrchestrateSucceeds ==
  /\ Write("orchestrate", Orchestrated(copy["orchestrate"]))
  /\ job' = [Created(Children) EXCEPT !["orchestrate"] = "succeeded"]
  /\ attempts' = [attempts EXCEPT !["orchestrate"] = @ + 1]
  /\ UNCHANGED <<short, sidInPayload, answer, failures, overwritten, crashes>>

\* update_analysis_result, mark_succeeded with the result, and the result jobs.
Analysed(s) ==
  /\ Write("llm", [copy["llm"] EXCEPT !["metadata"] = [status |-> "completed", stage |-> s]])
  /\ answer' = s
  /\ job' = [Created({"signal", "lead"}) EXCEPT !["llm"] = "succeeded"]
  /\ UNCHANGED <<short, attempts, sidInPayload, failures, overwritten, crashes>>

\* update_recording_key and mark_succeeded.
Uploaded ==
  /\ Write("recording", [copy["recording"] EXCEPT !["recordingKey"] = TRUE])
  /\ job' = [job EXCEPT !["recording"] = "succeeded"]
  /\ UNCHANGED <<short, attempts, sidInPayload, answer, failures, overwritten, crashes>>

\* The success of a result job does not touch the interaction.
ResultDone(k) ==
  /\ k \in {"signal", "lead"} /\ job[k] = "running" /\ copy[k] = NoCopy
  /\ job' = [job EXCEPT ![k] = "succeeded"]
  /\ UNCHANGED <<short, row, copy, attempts, sidInPayload, answer, failures, overwritten, crashes>>

\* Mutant: the failure is logged when the job is given up.
AppendErrorAtLast(k, r) ==
  IF attempts'[k] < MaxAttempts THEN r
  ELSE [r EXCEPT !["errorLog"] = @ \cup {<<k, attempts'[k]>>}, !["retryCount"] = @ + 1]

\* append_error.
AppendError(k, r) ==
  [r EXCEPT !["errorLog"] = @ \cup {<<k, attempts'[k]>>}, !["retryCount"] = @ + 1]

\* What every failure does, on a copy that the transaction may have changed before.
Failed(k, changed, jobs) ==
  /\ Write(k, AppendError(k, changed))
  /\ failures' = failures \cup {<<k, attempts'[k]>>}
  /\ overwritten' = (overwritten \/ copy[k]["errorLog"] # row["errorLog"])
  /\ \E then \in (IF k = "recording" THEN {"dead"} ELSE {})
                  \cup {IF attempts'[k] < MaxAttempts THEN "ready" ELSE "dead"} :
       job' = [jobs EXCEPT ![k] = then]
  /\ UNCHANGED <<short, sidInPayload, answer, crashes>>

\* job_failure_handler.handle: retried or dead-lettered; RecordingUnavailable is not retried.
Fail(k) ==
  /\ k # "orchestrate"
  /\ UNCHANGED attempts
  /\ Failed(k, copy[k], job)

\* An exception in _create_child_jobs, before its first write or, estimating the tokens,
\* after the recording job and the metadata.
OrchestrateRaises ==
  /\ attempts' = [attempts EXCEPT !["orchestrate"] = @ + 1]
  /\ \/ Failed("orchestrate", copy["orchestrate"], job)
     \/ /\ ~short
        /\ Failed("orchestrate", Orchestrated(copy["orchestrate"]), Created(Children \ {"llm"}))

\* A session is lost, and the job it was for is recovered; or the delivery fails.
Crash(s) ==
  /\ crashes < MaxCrashes
  /\ \/ copy[s] # NoCopy
     \/ s \in Kinds /\ job[s] = "running"
  /\ crashes' = crashes + 1
  /\ copy' = [copy EXCEPT ![s] = NoCopy]
  /\ job' = [k \in Kinds |-> IF k = s /\ job[k] = "running" THEN "ready" ELSE job[k]]
  /\ UNCHANGED <<short, row, attempts, sidInPayload, answer, failures, overwritten>>

Next ==
  \/ \E d \in Deliveries : Receive(d) \/ \E callSid \in BOOLEAN : EndInteraction(d, callSid)
  \/ \E k \in Kinds : Claim(k) \/ Load(k) \/ ResultDone(k) \/ Fail(k)
  \/ OrchestrateSucceeds \/ OrchestrateRaises \/ Uploaded
  \/ \E s \in Stages : Analysed(s)
  \/ \E s \in Sessions : Crash(s)

Spec == Init /\ [][Next]_vars

-----------------------------------------------------------------------------
(* Properties *)

\* Types.
TypeOK ==
  /\ DOMAIN row = Columns /\ row["errorLog"] \subseteq Kinds \X Nat
  /\ \A s \in Sessions : copy[s] = NoCopy \/ DOMAIN copy[s] = Columns
  /\ job \in [Kinds -> {"absent", "ready", "running", "succeeded", "dead"}]
  /\ attempts \in [Kinds -> 0 .. MaxAttempts + MaxCrashes]
  /\ answer \in Stages \cup {"none"}
  /\ failures \subseteq Kinds \X Nat
  /\ short \in BOOLEAN /\ overwritten \in BOOLEAN /\ sidInPayload \in BOOLEAN /\ crashes \in Nat

\* The row says what the jobs have done, whatever failures of other jobs and repeated
\* webhooks were written from copies read before: the dashboard shows the stage that is
\* in the job's result, a fetched recording keeps its key, an ended call its end.
DashboardAgrees ==
  /\ job["llm"] = "succeeded" => row["metadata"] = [status |-> "completed", stage |-> answer]
  /\ job["recording"] = "succeeded" => row["recordingKey"]
  /\ job["orchestrate"] # "absent" => row["ended"]
  /\ short /\ job["orchestrate"] = "succeeded" => row["metadata"].status = "skipped"

\* The error log holds failures that happened, as many as retry_count says, and misses
\* one only if a handler wrote over another's entry.
ErrorLogHonest ==
  /\ row["errorLog"] \subseteq failures
  /\ row["retryCount"] = Cardinality(row["errorLog"])
  /\ ~overwritten => row["errorLog"] = failures
=============================================================================
