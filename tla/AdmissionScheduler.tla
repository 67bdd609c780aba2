------------------------- MODULE AdmissionScheduler -------------------------
(***************************************************************************)
(* Which LLM jobs get on, minute after minute.  The LLM workers claim the  *)
(* waiting jobs by priority, then age, a batch at a time, each passing     *)
(* over what the others have claimed; within the claim's transaction the   *)
(* rate limiter decides about one job of the batch after the other, each   *)
(* in the minute it comes to it; what it refuses is due again within a     *)
(* second of the next minute, in which the counters start from zero.       *)
(*                                                                         *)
(* The limiter's lock on the platform's row is the one that decides who    *)
(* waits, so it stands for both rows; TokenBudget has them apart, with the *)
(* insertion of a minute's rows and the usage recorded after the calls.    *)
(* JobQueue has the rest of a job's row: its attempts, dead workers, locks.*)
(***************************************************************************)
EXTENDS AdmissionPolicy, Classifier, FiniteSets

CONSTANTS Workers,           \* the processes that call run_once
          Nobody,
          Text,              \* of a job's call: the phrases in the transcript and the disposition
          Recurring,         \* the jobs that stand for one call after the other
          Unreadable,        \* the jobs whose payload has a budget int() does not take
          BatchLimit,        \* limit of run_once
          TicksPerMinute,    \* run_once calls in a minute, of all workers together, at least
          MaxFailures        \* bound: failed calls that are retried, and claims that fail by themselves

ASSUME AdmissionSchedulerAssumption ==
  /\ GlobalAccount \notin Customers
  /\ Nobody \notin Workers
  /\ CustomerOf \in [Jobs -> Customers]
  /\ Estimate \in [Jobs -> Nat \ {0}]
  /\ Budget \in [Jobs -> Nat \ {0}]
  /\ DOMAIN Text = Jobs
  /\ HighJobs = {j \in Jobs : Classify(Text[j]) = "HIGH"}
  /\ Recurring \subseteq Jobs /\ Unreadable \subseteq Jobs
  /\ TokenLimit \in Nat /\ RequestLimit \in Nat /\ MaxFailures \in Nat
  /\ BatchLimit \in Nat \ {0} /\ TicksPerMinute \in Nat \ {0}

VARIABLES
  phase,     \* of a job: absent, ready, refused (this minute), deferred (in an earlier one and
             \* not due yet), running, backoff, over
  holder,    \* of a job: the worker in whose open claim it is
  older,     \* of the jobs that wait, run or back off, and have one priority: <<i, j>> if i
             \* was created before j
  usage,     \* the counters of the current minute, as committed
  locker,    \* the worker whose open claim has locked them
  draft,     \* the counters as that worker sees them
  ticks,     \* ticks so far in the current minute, counted up to TicksPerMinute
  failures

vars == <<phase, holder, older, usage, locker, draft, ticks, failures>>

Init ==
  /\ phase = [j \in Jobs |-> "absent"]
  /\ holder = [j \in Jobs |-> Nobody]
  /\ older = {}
  /\ usage = NewUsage
  /\ locker = Nobody
  /\ draft = NewUsage
  /\ ticks = 0
  /\ failures = 0

-----------------------------------------------------------------------------
(* Claim and admission *)

\* The orchestrator gives the job the priority of its call.
Priority == [j \in Jobs |-> Classify(Text[j])]

Rank(p) == CASE p = "HIGH" -> 0 [] p = "MEDIUM" -> 1 [] OTHER -> 2

\* Mutant: the query without created_at in its ORDER BY may return the newest first.
BeforeNewest(i, j) ==
  \/ Rank(Priority[i]) < Rank(Priority[j])
  \/ <<j, i>> \in older

\* ORDER BY priority_order, created_at.
Before(i, j) ==
  \/ Rank(Priority[i]) < Rank(Priority[j])
  \/ <<i, j>> \in older

ReadyJobs == {j \in Jobs : phase[j] = "ready" /\ holder[j] = Nobody}

Batch == {j \in ReadyJobs : Cardinality({i \in ReadyJobs : Before(i, j)}) < BatchLimit}

Held(w) == {j \in Jobs : holder[j] = w}

\* claim_ready_jobs at the head of a tick: SKIP LOCKED, so the batch is made up from what
\* is in no other open claim.
Claim(w) ==
  /\ Held(w) = {}
  /\ holder' = [j \in Jobs |-> IF j \in Batch THEN w ELSE holder[j]]
  /\ ticks' = IF ticks < TicksPerMinute THEN ticks + 1 ELSE ticks
  /\ UNCHANGED <<phase, older, usage, locker, draft, failures>>

\* The job that the claim's loop has come to.
Undecided(w) == {j \in Held(w) : phase[j] = "ready"}

NextUp(w, j) == j \in Undecided(w) /\ \A i \in Undecided(w) : ~ Before(i, j)

\* llm_rate_limiter.admit: takes the minute's rows, or waits for the worker that has them.
Consult(w, j) ==
  /\ NextUp(w, j) /\ j \notin Unreadable
  /\ locker \in {Nobody, w}
  /\ locker' = w
  /\ UNCHANGED <<holder, older, usage, ticks, failures>>

Admit(w, j) ==
  /\ Consult(w, j) /\ Admits(draft, j)
  /\ draft' = Reserved(draft, j)
  /\ phase' = [phase EXCEPT ![j] = "running"]

\* run_after is a time in the first second of the next minute.
Refuse(w, j) ==
  /\ Consult(w, j) /\ ~ Admits(draft, j)
  /\ phase' = [phase EXCEPT ![j] = "refused"]
  /\ UNCHANGED draft

Free(w) ==
  /\ holder' = [j \in Jobs |-> IF j \in Held(w) THEN Nobody ELSE holder[j]]
  /\ locker' = IF locker = w THEN Nobody ELSE locker

\* The claim is committed, and what was reserved with it, unless in a minute that is past.
Commit(w) ==
  /\ Held(w) # {} /\ Undecided(w) = {}
  /\ Free(w)
  /\ usage' = IF locker = w THEN draft ELSE usage
  /\ UNCHANGED <<phase, older, draft, ticks, failures>>

\* Mutant: the deferrals are written in a session of their own.
RollBackReservations(w) ==
  /\ Free(w)
  /\ draft' = IF locker = w THEN usage ELSE draft
  /\ phase' = [j \in Jobs |-> IF j \in Held(w) /\ phase[j] = "running" THEN "ready"
                              ELSE phase[j]]
  /\ UNCHANGED <<older, usage, ticks>>

\* The claim is rolled back, and every job of the batch waits for another tick.
RollBack(w) ==
  /\ Free(w)
  /\ draft' = IF locker = w THEN usage ELSE draft
  /\ phase' = [j \in Jobs |-> IF j \in Held(w) THEN "ready" ELSE phase[j]]
  /\ UNCHANGED <<older, usage, ticks>>

\* _customer_budget raises on the job the loop has come to.
Raise(w) ==
  /\ \E j \in Unreadable : NextUp(w, j)
  /\ RollBack(w)
  /\ UNCHANGED failures

\* The worker dies, or another was first to insert the minute's rows.
Fail(w) ==
  /\ Held(w) # {} /\ failures < MaxFailures
  /\ failures' = failures + 1
  /\ RollBack(w)

\* minute_window has moved on: counters start from zero, for the claims that are open too.
NextMinute ==
  /\ ticks = TicksPerMinute
  /\ ticks' = 0
  /\ usage' = NewUsage /\ draft' = NewUsage /\ locker' = Nobody
  /\ phase' = [j \in Jobs |-> IF phase[j] = "refused" THEN "deferred" ELSE phase[j]]
  /\ UNCHANGED <<holder, older, failures>>

\* The time of _seconds_to_next_window is up, at most a second into a new minute.
Due(j) ==
  /\ phase[j] = "deferred" /\ holder[j] = Nobody
  /\ phase' = [phase EXCEPT ![j] = "ready"]
  /\ UNCHANGED <<holder, older, usage, locker, draft, ticks, failures>>

-----------------------------------------------------------------------------
(* Jobs come and go *)

Queued == {j \in Jobs : phase[j] \notin {"absent", "over"}}

\* create_if_absent inserts the job of another call.
Arrive(j) ==
  /\ phase[j] = "absent"
  /\ phase' = [phase EXCEPT ![j] = "ready"]
  /\ older' = older \cup ({i \in Queued : Priority[i] = Priority[j]} \X {j})
  /\ UNCHANGED <<holder, usage, locker, draft, ticks, failures>>

\* The job was admitted, and the claim committed.
Started(j) == phase[j] = "running" /\ holder[j] = Nobody

\* Mutant: a finished job is claimed no more and keeps its place.
EndInPlace(j) ==
  /\ Started(j)
  /\ phase' = [phase EXCEPT ![j] = IF j \in Recurring THEN "absent" ELSE "over"]
  /\ UNCHANGED <<holder, older, usage, locker, draft, ticks, failures>>

\* The job succeeds, or fails for good.
End(j) ==
  /\ Started(j)
  /\ phase' = [phase EXCEPT ![j] = IF j \in Recurring THEN "absent" ELSE "over"]
  /\ older' = {p \in older : j \notin {p[1], p[2]}}
  /\ UNCHANGED <<holder, usage, locker, draft, ticks, failures>>

\* The call fails and the policy grants another attempt after a delay.
Retry(j) ==
  /\ Started(j) /\ failures < MaxFailures
  /\ failures' = failures + 1
  /\ phase' = [phase EXCEPT ![j] = "backoff"]
  /\ UNCHANGED <<holder, older, usage, locker, draft, ticks>>

BackoffPasses(j) ==
  /\ phase[j] = "backoff"
  /\ phase' = [phase EXCEPT ![j] = "ready"]
  /\ UNCHANGED <<holder, older, usage, locker, draft, ticks, failures>>

Decide(w) == \E j \in Jobs : Admit(w, j) \/ Refuse(w, j)

Next ==
  \/ \E w \in Workers : Claim(w) \/ Decide(w) \/ Commit(w) \/ Raise(w) \/ Fail(w)
  \/ NextMinute
  \/ \E j \in Jobs : Due(j) \/ Arrive(j) \/ End(j) \/ Retry(j) \/ BackoffPasses(j)

Spec == Init /\ [][Next]_vars

\* The scheduler ticks and the clock runs on; the database serves who waits for a row;
\* calls return and delays pass.  Nobody need call.  Of the actions under one WF at most one
\* is enabled at a time, but for the two ways in which a call returns.
FairSpec ==
  /\ Spec
  /\ \A w \in Workers : WF_vars(Claim(w) \/ Commit(w) \/ Raise(w)) /\ SF_vars(Decide(w))
  /\ WF_vars(NextMinute)
  /\ \A j \in Jobs : WF_vars(Due(j) \/ End(j) \/ Retry(j) \/ BackoffPasses(j))

-----------------------------------------------------------------------------
(* Properties *)

Phases == {"absent", "ready", "refused", "deferred", "running", "backoff", "over"}

\* Types; created_at orders the jobs of a priority in the queue, and no others; a claim holds
\* what is waiting or was decided about; the counters differ only for who has locked them.
TypeOK ==
  /\ phase \in [Jobs -> Phases]
  /\ holder \in [Jobs -> Workers \cup {Nobody}]
  /\ older \subseteq {p \in Queued \X Queued : Priority[p[1]] = Priority[p[2]]}
  /\ \A i, j \in Queued : Priority[i] = Priority[j] =>
       (<<i, j>> \in older <=> i # j /\ <<j, i>> \notin older)
  /\ \A i, j, k \in Queued : <<i, j>> \in older /\ <<j, k>> \in older => <<i, k>> \in older
  /\ usage \in Usage /\ draft \in Usage
  /\ locker \in Workers \cup {Nobody}
  /\ locker = Nobody => draft = usage
  /\ ticks \in 0 .. TicksPerMinute /\ failures \in 0 .. MaxFailures
  /\ \A j \in Jobs : phase[j] \in {"absent", "backoff", "over"} => holder[j] = Nobody

\* What the limiter has refused it would refuse for the rest of the minute, whatever is
\* admitted or rolled back meanwhile: to look at the job no sooner than in the next minute
\* costs it nothing in this one.  (In the next it may: it is due up to a second late.)
RefusalsStand ==
  \A j \in Jobs : phase[j] = "refused" =>
    ~ Admits(IF holder[j] = Nobody THEN usage ELSE draft, j)

\* i asks for no more than j, from the same budget, at the same priority.
NoHarder(i, j) ==
  /\ CustomerOf[i] = CustomerOf[j] /\ Priority[i] = Priority[j]
  /\ Estimate[i] <= Estimate[j] /\ Budget[i] >= Budget[j]

\* Within a customer and a priority the queue is fair as far as the code makes it so.  A job
\* is not claimed past an older one that is ready and in no claim.  It is not admitted past
\* an older one that asks for no more if that was refused in the same minute, by any worker,
\* or if it is in the same batch and not decided about.  It may be admitted past one that
\* another worker holds, that became ready since the claim, or that was refused in an
\* earlier minute.
NoOvertaking ==
  [][\A i, j \in Jobs : <<i, j>> \in older /\ NoHarder(i, j) =>
       /\ i \in ReadyJobs /\ j \in ReadyJobs /\ holder'[j] # Nobody => holder'[i] # Nobody
       /\ phase[j] = "ready" /\ phase'[j] = "running" =>
            /\ phase[i] # "refused"
            /\ holder[i] = holder[j] => phase[i] \in {"running", "deferred"}]_vars

Fits(j) == Estimate[j] <= Budget[j] /\ j \notin Unreadable

Urgent(j) == Text[j] \cap HighKeywords # {}

Casual(j) == Contained(Text[j]) \cap HighKeywords = {}

\* A call in which a high-value word came up is never passed over for one in which none
\* did, not even inside another phrase, whatever else was said and whosever it is: who
\* claims the latter claims the former, and has decided about it before the latter is
\* admitted.
UrgentFirst ==
  [][\A i, j \in Jobs : Urgent(i) /\ Casual(j) =>
       /\ i \in ReadyJobs /\ j \in ReadyJobs /\ holder'[j] # Nobody => holder'[i] = holder'[j]
       /\ phase[j] = "ready" /\ phase'[j] = "running" /\ holder[i] = holder[j]
            => phase[i] # "ready"]_vars

\* A customer over its budget is deferred while the others continue: every job that fits
\* its own customer's budget ends, whatever other customers queue ahead of it.
OthersContinue ==
  \A j \in Jobs \ Recurring : Fits(j) => (phase[j] = "ready" ~> phase[j] = "over")

\* A full batch of other jobs is ahead of the job.
Crowded(j) ==
  phase[j] = "ready" /\ Cardinality({i \in ReadyJobs : Before(i, j)}) >= BatchLimit

\* The code keeps that promise only to the job that is not always again behind a full batch,
\* and while no job with an unreadable budget is queued.
OthersContinueIfNotCrowded ==
  \A j \in Jobs \ Recurring : Fits(j) =>
    (<>[](~ Crowded(j) /\ \A u \in Unreadable : phase[u] = "absent")
       => (phase[j] = "ready" ~> phase[j] = "over"))
=============================================================================
