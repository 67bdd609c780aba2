---------------------- MODULE AdmissionSchedulerProofs ----------------------
(***************************************************************************)
(* The order in which LLM jobs get on, for any jobs, customers, limits,    *)
(* batches and workers and any supply of new jobs: what the open claims    *)
(* admit agrees with the order of the queue as far as the properties say,  *)
(* although they interleave, are rolled back and last into other minutes.  *)
(*                                                                         *)
(* Within a minute the counters only grow, from decision to decision and   *)
(* from claim to claim, for a rollback leaves those that were committed;   *)
(* and the limiter is monotone in them: what it refused once it refuses    *)
(* for the rest of the minute, with all that asks for no less.             *)
(***************************************************************************)
EXTENDS AdmissionScheduler, FiniteSetTheorems, TLAPS

-----------------------------------------------------------------------------
(* The limiter *)

\* The counters v are reached from u by reserving.
Grown(u, v) ==
  \A a \in Accounts : /\ u[a].reservedTokens <= v[a].reservedTokens
                      /\ u[a].requestsReserved <= v[a].requestsReserved

\* Growth of usage is a preorder.
LEMMA GrownOrder ==
  /\ \A u \in Usage : Grown(u, u)
  /\ \A u, v, x \in Usage : Grown(u, v) /\ Grown(v, x) => Grown(u, x)
<1>1. \A u \in Usage, a \in Accounts :
        u[a].reservedTokens \in Nat /\ u[a].requestsReserved \in Nat
  BY DEF Usage, Row
<1>2. \A u \in Usage : Grown(u, u)
  BY <1>1 DEF Grown
<1>3. ASSUME NEW u \in Usage, NEW v \in Usage, NEW x \in Usage, Grown(u, v), Grown(v, x),
             NEW a \in Accounts
      PROVE  /\ u[a].reservedTokens <= x[a].reservedTokens
             /\ u[a].requestsReserved <= x[a].requestsReserved
  <2>1. /\ u[a].reservedTokens <= v[a].reservedTokens
        /\ u[a].requestsReserved <= v[a].requestsReserved
        /\ v[a].reservedTokens <= x[a].reservedTokens
        /\ v[a].requestsReserved <= x[a].requestsReserved
    BY <1>3 DEF Grown
  <2>2. QED
    BY <1>1, <2>1
<1>4. QED
  BY <1>2, <1>3 DEF Grown

\* A reservation turns counters into counters that have grown.
LEMMA ReservationGrows ==
  ASSUME NEW u \in Usage, NEW j \in Jobs
  PROVE  Reserved(u, j) \in Usage /\ Grown(u, Reserved(u, j))
<1>1. Estimate[j] \in Nat
  BY AdmissionSchedulerAssumption
<1>2. ASSUME NEW a \in Accounts
      PROVE  /\ Reserved(u, j)[a] \in Row
             /\ u[a].reservedTokens <= Reserved(u, j)[a].reservedTokens
             /\ u[a].requestsReserved <= Reserved(u, j)[a].requestsReserved
  <2>1. u[a] \in Row
    BY DEF Usage
  <2>2. Reserved(u, j)[a] =
          IF a \in {GlobalAccount, CustomerOf[j]}
            THEN [u[a] EXCEPT !.reservedTokens = @ + Estimate[j], !.requestsReserved = @ + 1]
            ELSE u[a]
    BY DEF Reserved
  <2>3. CASE a \in {GlobalAccount, CustomerOf[j]}
    <3>1. PICK r \in Row : r = u[a]
      BY <2>1
    <3>2. PICK e \in Nat : e = Estimate[j]
      BY <1>1
    <3>3. Reserved(u, j)[a] = [r EXCEPT !.reservedTokens = r.reservedTokens + e,
                                        !.requestsReserved = r.requestsReserved + 1]
      BY <2>2, <2>3, <3>1, <3>2
    <3>4. PICK t \in Nat, q \in Nat, y \in Nat, z \in Nat :
            r = [reservedTokens |-> t, requestsReserved |-> q,
                 usedTokens |-> y, requestsUsed |-> z]
      BY DEF Row
    <3>5. Reserved(u, j)[a] = [reservedTokens |-> t + e, requestsReserved |-> q + 1,
                               usedTokens |-> y, requestsUsed |-> z]
      BY <3>3, <3>4
    <3>6. t + e \in Nat /\ q + 1 \in Nat /\ t <= t + e /\ q <= q + 1
      OBVIOUS
    <3>7. Reserved(u, j)[a] \in Row
      BY <3>5, <3>6 DEF Row
    <3>8. QED
      BY <3>1, <3>4, <3>5, <3>6, <3>7
  <2>4. CASE a \notin {GlobalAccount, CustomerOf[j]}
    BY <2>1, <2>2, <2>4 DEF Row
  <2>5. QED
    BY <2>3, <2>4
<1>3. Reserved(u, j) = [a \in Accounts |-> Reserved(u, j)[a]]
  BY DEF Reserved
<1>4. QED
  BY <1>2, <1>3 DEF Usage, Grown

\* What is admitted now would have been admitted earlier in the minute, and so would
\* anything that asks for no more.
LEMMA AdmitsEasier ==
  ASSUME NEW u \in Usage, NEW v \in Usage, Grown(u, v),
         NEW i \in Jobs, NEW j \in Jobs, NoHarder(i, j), Admits(v, j)
  PROVE  Admits(u, i)
<1> DEFINE c == CustomerOf[j]
           g == GlobalAccount
<1>1. g \in Accounts /\ c \in Accounts /\ CustomerOf[i] = c
  BY AdmissionSchedulerAssumption DEF NoHarder, Accounts
<1>2. i \in HighJobs <=> j \in HighJobs
  BY AdmissionSchedulerAssumption DEF NoHarder, Priority
<1>3. /\ Estimate[i] \in Nat /\ Estimate[j] \in Nat /\ Estimate[i] <= Estimate[j]
      /\ Budget[i] \in Nat /\ Budget[j] \in Nat /\ Budget[j] <= Budget[i]
      /\ TokenLimit \in Nat /\ RequestLimit \in Nat
  BY AdmissionSchedulerAssumption DEF NoHarder
<1>4. /\ u[g].reservedTokens \in Nat /\ v[g].reservedTokens \in Nat
      /\ u[c].reservedTokens \in Nat /\ v[c].reservedTokens \in Nat
      /\ u[g].requestsReserved \in Nat /\ v[g].requestsReserved \in Nat
  BY <1>1 DEF Usage, Row
<1>5. /\ u[g].reservedTokens <= v[g].reservedTokens
      /\ u[c].reservedTokens <= v[c].reservedTokens
      /\ u[g].requestsReserved <= v[g].requestsReserved
  BY <1>1 DEF Grown
<1>6. /\ v[g].reservedTokens + Estimate[j] <= TokenLimit
      /\ v[g].requestsReserved + 1 <= RequestLimit
      /\ \/ v[c].reservedTokens + Estimate[j] <= Budget[j]
         \/ j \in HighJobs /\ 10 * v[g].reservedTokens < 7 * TokenLimit
  BY DEF Admits
<1> HIDE DEF g, c
<1>7. /\ u[g].reservedTokens + Estimate[i] <= TokenLimit
      /\ u[g].requestsReserved + 1 <= RequestLimit
  BY <1>3, <1>4, <1>5, <1>6
<1>8. \/ u[c].reservedTokens + Estimate[i] <= Budget[i]
      \/ i \in HighJobs /\ 10 * u[g].reservedTokens < 7 * TokenLimit
  <2>1. CASE v[c].reservedTokens + Estimate[j] <= Budget[j]
    BY <1>3, <1>4, <1>5, <2>1
  <2>2. CASE j \in HighJobs /\ 10 * v[g].reservedTokens < 7 * TokenLimit
    BY <1>2, <1>3, <1>4, <1>5, <2>2
  <2>3. QED
    BY <1>6, <2>1, <2>2
<1>9. QED
  BY <1>1, <1>7, <1>8 DEF Admits, g, c

\* A job asks for no more than itself.
LEMMA NoHarderItself == \A j \in Jobs : NoHarder(j, j)
<1>1. \A j \in Jobs : Estimate[j] \in Nat /\ Budget[j] \in Nat
  BY AdmissionSchedulerAssumption
<1>2. QED
  BY <1>1 DEF NoHarder

\* What is refused is refused when more is reserved.
LEMMA StillRefused ==
  ASSUME NEW u \in Usage, NEW v \in Usage, Grown(u, v), NEW j \in Jobs, ~ Admits(u, j)
  PROVE  ~ Admits(v, j)
BY NoHarderItself, AdmitsEasier

-----------------------------------------------------------------------------
(* The order of the queue *)

\* The priorities, and how they rank.
LEMMA RankFacts ==
  /\ \A j \in Jobs : Priority[j] \in {"HIGH", "MEDIUM", "LOW"}
  /\ \A p, q \in {"HIGH", "MEDIUM", "LOW"} : Rank(p) = Rank(q) => p = q
  /\ \A p \in {"HIGH", "MEDIUM", "LOW"} :
       Rank(p) \in Nat /\ (p # "HIGH" => Rank("HIGH") < Rank(p))
<1>1. Rank("HIGH") = 0 /\ Rank("MEDIUM") = 1 /\ Rank("LOW") = 2
  BY DEF Rank
<1>2. \A j \in Jobs : Priority[j] \in {"HIGH", "MEDIUM", "LOW"}
  BY DEF Priority, Classify
<1>3. QED
  BY <1>1, <1>2

\* Age orders the jobs of each priority in the queue.
Ordered ==
  /\ older \subseteq {p \in Queued \X Queued : Priority[p[1]] = Priority[p[2]]}
  /\ \A i, j \in Queued : Priority[i] = Priority[j] =>
       (<<i, j>> \in older <=> i # j /\ <<j, i>> \notin older)
  /\ \A i, j, k \in Queued : <<i, j>> \in older /\ <<j, k>> \in older => <<i, k>> \in older

\* Priority and age together are transitive.
LEMMA BeforeTransitive ==
  ASSUME Ordered, NEW i \in Queued, NEW j \in Queued, NEW k \in Queued,
         Before(i, j), Before(j, k)
  PROVE  Before(i, k)
<1>1. \A a, b : <<a, b>> \in older => Priority[a] = Priority[b]
  BY DEF Ordered
<1>2. i \in Jobs /\ j \in Jobs /\ k \in Jobs
  BY DEF Queued
<1>3. /\ Rank(Priority[i]) \in Nat /\ Rank(Priority[j]) \in Nat /\ Rank(Priority[k]) \in Nat
  BY <1>2, RankFacts
<1>4. CASE <<i, j>> \in older /\ <<j, k>> \in older
  BY <1>4 DEF Ordered, Before
<1>5. CASE ~ (<<i, j>> \in older /\ <<j, k>> \in older)
  <2>1. \/ Rank(Priority[i]) < Rank(Priority[j])
        \/ Priority[i] = Priority[j]
    BY <1>1 DEF Before
  <2>2. \/ Rank(Priority[j]) < Rank(Priority[k])
        \/ Priority[j] = Priority[k]
    BY <1>1 DEF Before
  <2>3. \/ Rank(Priority[i]) < Rank(Priority[j])
        \/ Rank(Priority[j]) < Rank(Priority[k])
    BY <1>5 DEF Before
  <2>4. Rank(Priority[i]) < Rank(Priority[k])
    BY <1>3, <2>1, <2>2, <2>3
  <2>5. QED
    BY <2>4 DEF Before
<1>6. QED
  BY <1>4, <1>5

-----------------------------------------------------------------------------
(* The inductive invariant *)

\* A refusal that is not committed was made by the worker that has the counters locked.
LockerRefused ==
  \A j \in Jobs : phase[j] = "refused" /\ holder[j] # Nobody => locker = holder[j]

\* A refusal stands against what its worker has reserved while that is not committed, and
\* against what is committed after that; so what is reserved must only grow.
SchedulerInv ==
  /\ TypeOK /\ IsFiniteSet(Queued)
  /\ RefusalsStand /\ LockerRefused /\ Grown(usage, draft)

\* TypeOK without the order of the queue.
FlatTypes ==
  /\ phase \in [Jobs -> Phases]
  /\ holder \in [Jobs -> Workers \cup {Nobody}]
  /\ usage \in Usage /\ draft \in Usage
  /\ locker \in Workers \cup {Nobody}
  /\ locker = Nobody => draft = usage
  /\ ticks \in 0 .. TicksPerMinute /\ failures \in 0 .. MaxFailures
  /\ \A j \in Jobs : phase[j] \in {"absent", "backoff", "over"} => holder[j] = Nobody

LEMMA TypeParts == (TypeOK <=> Ordered /\ FlatTypes) /\ (TypeOK' <=> Ordered' /\ FlatTypes')
BY DEF TypeOK, Ordered, FlatTypes

\* Nobody works under the name Nobody, and the bounds are numbers.
LEMMA Constants ==
  /\ Nobody \notin Workers
  /\ TicksPerMinute \in Nat \ {0} /\ MaxFailures \in Nat /\ BatchLimit \in Nat \ {0}
BY AdmissionSchedulerAssumption

LEMMA SchedulerInit == Init => SchedulerInv
<1> SUFFICES ASSUME Init PROVE SchedulerInv
  OBVIOUS
<1>1. Queued = {} /\ IsFiniteSet(Queued)
  BY FS_EmptySet DEF Init, Queued
<1>2. NewUsage \in Usage
  BY DEF NewUsage, Usage, Row
<1>3. FlatTypes
  BY <1>2, Constants DEF Init, FlatTypes, Phases
<1>4. Ordered
  BY <1>1 DEF Init, Ordered
<1>5. RefusalsStand /\ LockerRefused
  BY DEF Init, RefusalsStand, LockerRefused
<1>6. Grown(usage, draft)
  BY <1>2, GrownOrder DEF Init
<1>7. QED
  BY <1>1, <1>3, <1>4, <1>5, <1>6, TypeParts DEF SchedulerInv

\* The steps that leave the queue's members and their order alone.
LEMMA QueueStays ==
  ASSUME Ordered, IsFiniteSet(Queued), Queued' = Queued, UNCHANGED older
  PROVE  Ordered' /\ IsFiniteSet(Queued)'
<1>1. IsFiniteSet(Queued')
  OBVIOUS
<1>2. Ordered'
  BY DEF Ordered
<1>3. QED
  BY <1>1, <1>2

\* The steps that leave the counters alone and refuse nothing.
LEMMA CountersStay ==
  ASSUME SchedulerInv, UNCHANGED <<usage, draft, locker>>,
         \A j \in Jobs : phase'[j] = "refused" => phase[j] = "refused" /\ holder'[j] = holder[j]
  PROVE  RefusalsStand' /\ LockerRefused' /\ Grown(usage, draft)'
<1>1. RefusalsStand /\ LockerRefused /\ Grown(usage, draft)
  BY DEF SchedulerInv
<1>2. RefusalsStand'
  BY <1>1 DEF RefusalsStand, Admits
<1>3. LockerRefused'
  BY <1>1 DEF LockerRefused
<1>4. Grown(usage, draft)'
  BY <1>1 DEF Grown
<1>5. QED
  BY <1>2, <1>3, <1>4

\* The steps of the claims that do not touch the counters, and of jobs that stay in the queue.
LEMMA QuietKeeps ==
  ASSUME SchedulerInv, FlatTypes', Queued' = Queued, UNCHANGED <<older, usage, draft, locker>>,
         \A j \in Jobs : phase'[j] = "refused" => phase[j] = "refused" /\ holder'[j] = holder[j]
  PROVE  SchedulerInv'
<1>1. Ordered' /\ IsFiniteSet(Queued)'
  BY TypeParts, QueueStays DEF SchedulerInv
<1>2. RefusalsStand' /\ LockerRefused' /\ Grown(usage, draft)'
  BY CountersStay
<1>3. QED
  BY <1>1, <1>2, TypeParts DEF SchedulerInv

LEMMA ClaimKeeps == ASSUME NEW w \in Workers, SchedulerInv, Claim(w) PROVE SchedulerInv'
<1>1. /\ holder' = [j \in Jobs |-> IF j \in Batch THEN w ELSE holder[j]]
      /\ ticks' = IF ticks < TicksPerMinute THEN ticks + 1 ELSE ticks
      /\ UNCHANGED <<phase, older, usage, locker, draft, failures>>
  BY DEF Claim
<1>2. FlatTypes
  BY TypeParts DEF SchedulerInv
<1>3. \A j \in Jobs : j \in Batch => phase[j] = "ready"
  BY DEF Batch, ReadyJobs
<1>4. ticks' \in 0 .. TicksPerMinute
  BY <1>1, <1>2, Constants DEF FlatTypes
<1>5. \A j \in Jobs : phase'[j] # "ready" => holder'[j] = holder[j]
  BY <1>1, <1>3
<1>6. holder' \in [Jobs -> Workers \cup {Nobody}]
  BY <1>1, <1>2 DEF FlatTypes
<1>7. FlatTypes'
  BY <1>1, <1>2, <1>4, <1>5, <1>6 DEF FlatTypes
<1>8. Queued' = Queued
  BY <1>1 DEF Queued
<1>9. QED
  BY <1>1, <1>5, <1>7, <1>8, QuietKeeps

\* What a decision does, whichever it is.
LEMMA ConsultFacts ==
  ASSUME NEW w \in Workers, NEW j \in Jobs, SchedulerInv, Consult(w, j)
  PROVE  /\ holder[j] = w /\ phase[j] = "ready" /\ w # Nobody
         /\ locker \in {Nobody, w} /\ locker' = w
         /\ UNCHANGED <<holder, older, usage, ticks, failures>>
BY Constants DEF Consult, NextUp, Undecided, Held

\* No other worker has a refusal open while this one may lock the counters.
LEMMA OpenRefusals ==
  ASSUME NEW w \in Workers, SchedulerInv, locker \in {Nobody, w},
         NEW i \in Jobs, phase[i] = "refused"
  PROVE  holder[i] \in {Nobody, w} /\ ~ Admits(draft, i)
<1>1. FlatTypes /\ RefusalsStand /\ LockerRefused /\ Grown(usage, draft)
  BY TypeParts DEF SchedulerInv
<1>2. holder[i] \in {Nobody, w}
  BY <1>1 DEF LockerRefused
<1>3. CASE holder[i] = Nobody
  <2>1. ~ Admits(usage, i) /\ usage \in Usage /\ draft \in Usage
    BY <1>1, <1>3 DEF RefusalsStand, FlatTypes
  <2>2. QED
    BY <1>1, <1>2, <2>1, StillRefused
<1>4. CASE holder[i] # Nobody
  BY <1>1, <1>2, <1>4 DEF RefusalsStand
<1>5. QED
  BY <1>3, <1>4

LEMMA AdmitKeeps ==
  ASSUME NEW w \in Workers, NEW j \in Jobs, SchedulerInv, Admit(w, j) PROVE SchedulerInv'
<1>1. /\ holder[j] = w /\ phase[j] = "ready" /\ w # Nobody
      /\ locker \in {Nobody, w} /\ locker' = w
      /\ UNCHANGED <<holder, older, usage, ticks, failures>>
  BY ConsultFacts DEF Admit
<1>2. draft' = Reserved(draft, j) /\ phase' = [phase EXCEPT ![j] = "running"]
  BY DEF Admit
<1>3. Ordered /\ FlatTypes /\ IsFiniteSet(Queued) /\ RefusalsStand /\ Grown(usage, draft)
  BY TypeParts DEF SchedulerInv
<1>4. draft' \in Usage /\ Grown(draft, draft')
  BY <1>2, <1>3, ReservationGrows DEF FlatTypes
<1>5. phase' \in [Jobs -> Phases] /\ \A i \in Jobs : i # j => phase'[i] = phase[i]
  BY <1>2, <1>3 DEF FlatTypes, Phases
<1>6. phase'[j] = "running"
  BY <1>2, <1>3 DEF FlatTypes
<1>7. FlatTypes'
  BY <1>1, <1>3, <1>4, <1>5, <1>6 DEF FlatTypes
<1>8. Queued' = Queued
  BY <1>1, <1>5, <1>6 DEF Queued
<1>9. Ordered' /\ IsFiniteSet(Queued)'
  BY <1>1, <1>3, <1>8, QueueStays
<1>10. Grown(usage', draft')
  BY <1>1, <1>3, <1>4, GrownOrder DEF FlatTypes
<1>11. ASSUME NEW i \in Jobs, phase'[i] = "refused"
       PROVE  /\ ~ Admits(IF holder'[i] = Nobody THEN usage' ELSE draft', i)
              /\ holder'[i] # Nobody => locker' = holder'[i]
  <2>1. phase[i] = "refused" /\ holder'[i] = holder[i] /\ draft \in Usage
    BY <1>1, <1>3, <1>5, <1>6, <1>11 DEF FlatTypes
  <2>2. holder[i] \in {Nobody, w} /\ ~ Admits(draft, i)
    BY <1>1, <2>1, OpenRefusals
  <2>3. ~ Admits(draft', i)
    BY <1>4, <2>1, <2>2, StillRefused
  <2>4. holder[i] = Nobody => ~ Admits(usage, i)
    BY <1>3, <2>1 DEF RefusalsStand
  <2>5. QED
    BY <1>1, <2>1, <2>2, <2>3, <2>4
<1>12. RefusalsStand' /\ LockerRefused'
  BY <1>11 DEF RefusalsStand, LockerRefused, Admits
<1>13. Grown(usage, draft)'
  BY <1>10 DEF Grown
<1>14. QED
  BY <1>7, <1>9, <1>12, <1>13, TypeParts DEF SchedulerInv

LEMMA RefuseKeeps ==
  ASSUME NEW w \in Workers, NEW j \in Jobs, SchedulerInv, Refuse(w, j) PROVE SchedulerInv'
<1>1. /\ holder[j] = w /\ phase[j] = "ready" /\ w # Nobody
      /\ locker \in {Nobody, w} /\ locker' = w
      /\ UNCHANGED <<holder, older, usage, ticks, failures>>
  BY ConsultFacts DEF Refuse
<1>2. ~ Admits(draft, j) /\ draft' = draft /\ phase' = [phase EXCEPT ![j] = "refused"]
  BY DEF Refuse
<1>3. Ordered /\ FlatTypes /\ IsFiniteSet(Queued) /\ RefusalsStand /\ Grown(usage, draft)
  BY TypeParts DEF SchedulerInv
<1>4. /\ phase' \in [Jobs -> Phases] /\ \A i \in Jobs : i # j => phase'[i] = phase[i]
      /\ phase'[j] = "refused"
  BY <1>2, <1>3 DEF FlatTypes, Phases
<1>5. FlatTypes'
  BY <1>1, <1>2, <1>3, <1>4 DEF FlatTypes
<1>6. Queued' = Queued
  BY <1>1, <1>4 DEF Queued
<1>7. Ordered' /\ IsFiniteSet(Queued)'
  BY <1>1, <1>3, <1>6, QueueStays
<1>8. ASSUME NEW i \in Jobs, phase'[i] = "refused"
      PROVE  /\ ~ Admits(IF holder'[i] = Nobody THEN usage' ELSE draft', i)
             /\ holder'[i] # Nobody => locker' = holder'[i]
  <2>1. CASE i = j
    BY <1>1, <1>2, <2>1
  <2>2. CASE i # j
    <3>1. phase[i] = "refused" /\ holder'[i] = holder[i]
      BY <1>1, <1>4, <1>8, <2>2
    <3>2. holder[i] \in {Nobody, w} /\ ~ Admits(draft, i)
      BY <1>1, <3>1, OpenRefusals
    <3>3. holder[i] = Nobody => ~ Admits(usage, i)
      BY <1>3, <3>1 DEF RefusalsStand
    <3>4. QED
      BY <1>1, <1>2, <3>1, <3>2, <3>3
  <2>3. QED
    BY <2>1, <2>2
<1>9. RefusalsStand' /\ LockerRefused'
  BY <1>8 DEF RefusalsStand, LockerRefused, Admits
<1>10. Grown(usage, draft)'
  BY <1>1, <1>2, <1>3 DEF Grown
<1>11. QED
  BY <1>5, <1>7, <1>9, <1>10, TypeParts DEF SchedulerInv

\* What the end of a claim leaves to the others: with the lock nobody else has refusals open.
LEMMA FreeFacts ==
  ASSUME NEW w \in Workers, SchedulerInv, Free(w)
  PROVE  /\ holder' \in [Jobs -> Workers \cup {Nobody}]
         /\ locker' \in Workers \cup {Nobody}
         /\ locker = w => locker' = Nobody
         /\ locker # w => locker' = locker
         /\ \A i \in Jobs : holder[i] = w => holder'[i] = Nobody
         /\ \A i \in Jobs : holder[i] # w => holder'[i] = holder[i]
<1>1. FlatTypes
  BY TypeParts DEF SchedulerInv
<1>2. holder' = [j \in Jobs |-> IF j \in Held(w) THEN Nobody ELSE holder[j]]
  BY DEF Free
<1>3. locker' = IF locker = w THEN Nobody ELSE locker
  BY DEF Free
<1>4. \A i \in Jobs : i \in Held(w) <=> holder[i] = w
  BY DEF Held
<1>5. QED
  BY <1>1, <1>2, <1>3, <1>4 DEF FlatTypes

LEMMA CommitKeeps == ASSUME NEW w \in Workers, SchedulerInv, Commit(w) PROVE SchedulerInv'
<1>1. /\ Free(w) /\ usage' = (IF locker = w THEN draft ELSE usage)
      /\ UNCHANGED <<phase, older, draft, ticks, failures>>
  BY DEF Commit
<1>2. /\ Ordered /\ FlatTypes /\ IsFiniteSet(Queued)
      /\ RefusalsStand /\ LockerRefused /\ Grown(usage, draft)
  BY TypeParts DEF SchedulerInv
<1>3. /\ holder' \in [Jobs -> Workers \cup {Nobody}]
      /\ locker' \in Workers \cup {Nobody}
      /\ locker = w => locker' = Nobody
      /\ locker # w => locker' = locker
      /\ \A i \in Jobs : holder[i] = w => holder'[i] = Nobody
      /\ \A i \in Jobs : holder[i] # w => holder'[i] = holder[i]
  BY <1>1, FreeFacts
<1>4. usage' \in Usage /\ (locker' = Nobody => draft' = usage')
  BY <1>1, <1>2, <1>3 DEF FlatTypes
<1>5. \A j \in Jobs : phase[j] \in {"absent", "backoff", "over"} => holder'[j] = Nobody
  BY <1>2, <1>3 DEF FlatTypes
<1>6. FlatTypes'
  BY <1>1, <1>2, <1>3, <1>4, <1>5 DEF FlatTypes
<1>7. Queued' = Queued
  BY <1>1 DEF Queued
<1>8. Ordered' /\ IsFiniteSet(Queued)'
  BY <1>1, <1>2, <1>7, QueueStays
<1>9. Grown(usage', draft')
  BY <1>1, <1>2, GrownOrder DEF FlatTypes
<1>10. ASSUME NEW i \in Jobs, phase'[i] = "refused"
       PROVE  /\ ~ Admits(IF holder'[i] = Nobody THEN usage' ELSE draft', i)
              /\ holder'[i] # Nobody => locker' = holder'[i]
  <2>1. phase[i] = "refused" /\ w # Nobody
    BY <1>1, <1>10, Constants
  <2>2. /\ ~ Admits(IF holder[i] = Nobody THEN usage ELSE draft, i)
        /\ holder[i] # Nobody => locker = holder[i]
    BY <1>2, <2>1 DEF RefusalsStand, LockerRefused
  <2>3. CASE locker = w
    <3>1. holder[i] \in {Nobody, w} /\ ~ Admits(draft, i)
      BY <2>1, <2>3, OpenRefusals
    <3>2. holder'[i] = Nobody /\ usage' = draft
      BY <1>1, <1>3, <2>3, <3>1
    <3>3. QED
      BY <3>1, <3>2
  <2>4. CASE locker # w
    <3>1. holder[i] # w
      BY <2>1, <2>2, <2>4
    <3>2. holder'[i] = holder[i] /\ usage' = usage /\ draft' = draft /\ locker' = locker
      BY <1>1, <1>3, <2>4, <3>1
    <3>3. QED
      BY <2>2, <3>2
  <2>5. QED
    BY <2>3, <2>4
<1>11. RefusalsStand' /\ LockerRefused'
  BY <1>10 DEF RefusalsStand, LockerRefused, Admits
<1>12. Grown(usage, draft)'
  BY <1>9 DEF Grown
<1>13. QED
  BY <1>6, <1>8, <1>11, <1>12, TypeParts DEF SchedulerInv

LEMMA RollBackKeeps ==
  ASSUME NEW w \in Workers, SchedulerInv, RollBack(w), failures' \in 0 .. MaxFailures
  PROVE  SchedulerInv'
<1>1. /\ Free(w) /\ draft' = (IF locker = w THEN usage ELSE draft)
      /\ phase' = [j \in Jobs |-> IF j \in Held(w) THEN "ready" ELSE phase[j]]
      /\ UNCHANGED <<older, usage, ticks>>
  BY DEF RollBack
<1>2. /\ Ordered /\ FlatTypes /\ IsFiniteSet(Queued)
      /\ RefusalsStand /\ LockerRefused /\ Grown(usage, draft)
  BY TypeParts DEF SchedulerInv
<1>3. /\ holder' \in [Jobs -> Workers \cup {Nobody}]
      /\ locker' \in Workers \cup {Nobody}
      /\ locker = w => locker' = Nobody
      /\ locker # w => locker' = locker
      /\ \A i \in Jobs : holder[i] = w => holder'[i] = Nobody
      /\ \A i \in Jobs : holder[i] # w => holder'[i] = holder[i]
  BY <1>1, FreeFacts
<1>4. draft' \in Usage /\ (locker' = Nobody => draft' = usage')
  BY <1>1, <1>2, <1>3 DEF FlatTypes
<1>5. /\ \A i \in Jobs : holder[i] = w => phase'[i] = "ready"
      /\ \A i \in Jobs : holder[i] # w => phase'[i] = phase[i]
  BY <1>1 DEF Held
<1>6. phase' \in [Jobs -> Phases]
  BY <1>1, <1>2 DEF FlatTypes, Phases
<1>7. \A j \in Jobs : phase'[j] \in {"absent", "backoff", "over"} => holder'[j] = Nobody
  BY <1>2, <1>3, <1>5 DEF FlatTypes
<1>8. FlatTypes'
  BY <1>1, <1>2, <1>3, <1>4, <1>6, <1>7 DEF FlatTypes
<1>9. \A i \in Jobs : holder[i] = w => phase[i] \notin {"absent", "over"}
  BY <1>2, Constants DEF FlatTypes
<1>10. Queued' = Queued
  BY <1>5, <1>9 DEF Queued
<1>11. Ordered' /\ IsFiniteSet(Queued)'
  BY <1>1, <1>2, <1>10, QueueStays
<1>12. Grown(usage', draft')
  BY <1>1, <1>2, GrownOrder DEF FlatTypes
<1>13. ASSUME NEW i \in Jobs, phase'[i] = "refused"
       PROVE  /\ ~ Admits(IF holder'[i] = Nobody THEN usage' ELSE draft', i)
              /\ holder'[i] # Nobody => locker' = holder'[i]
  <2>1. phase[i] = "refused" /\ holder[i] # w /\ holder'[i] = holder[i]
    BY <1>3, <1>5, <1>13
  <2>2. /\ ~ Admits(IF holder[i] = Nobody THEN usage ELSE draft, i)
        /\ holder[i] # Nobody => locker = holder[i]
    BY <1>2, <2>1 DEF RefusalsStand, LockerRefused
  <2>3. CASE holder[i] = Nobody
    BY <1>1, <2>1, <2>2, <2>3
  <2>4. CASE holder[i] # Nobody
    <3>1. locker' = locker /\ draft' = draft
      BY <1>1, <1>3, <2>1, <2>2, <2>4
    <3>2. QED
      BY <2>1, <2>2, <2>4, <3>1
  <2>5. QED
    BY <2>3, <2>4
<1>14. RefusalsStand' /\ LockerRefused'
  BY <1>13 DEF RefusalsStand, LockerRefused, Admits
<1>15. Grown(usage, draft)'
  BY <1>12 DEF Grown
<1>16. QED
  BY <1>8, <1>11, <1>14, <1>15, TypeParts DEF SchedulerInv

LEMMA MinuteKeeps == SchedulerInv /\ NextMinute => SchedulerInv'
<1> SUFFICES ASSUME SchedulerInv, NextMinute PROVE SchedulerInv'
  OBVIOUS
<1>1. /\ ticks' = 0 /\ usage' = NewUsage /\ draft' = NewUsage /\ locker' = Nobody
      /\ phase' = [j \in Jobs |-> IF phase[j] = "refused" THEN "deferred" ELSE phase[j]]
      /\ UNCHANGED <<holder, older, failures>>
  BY DEF NextMinute
<1>2. Ordered /\ FlatTypes /\ IsFiniteSet(Queued)
  BY TypeParts DEF SchedulerInv
<1>3. NewUsage \in Usage
  BY DEF NewUsage, Usage, Row
<1>4. FlatTypes'
  BY <1>1, <1>2, <1>3, Constants DEF FlatTypes, Phases
<1>5. Queued' = Queued
  BY <1>1 DEF Queued
<1>6. Ordered' /\ IsFiniteSet(Queued)'
  BY <1>1, <1>2, <1>5, QueueStays
<1>7. \A j \in Jobs : phase'[j] # "refused"
  BY <1>1
<1>8. RefusalsStand' /\ LockerRefused'
  BY <1>7 DEF RefusalsStand, LockerRefused
<1>9. Grown(usage', draft')
  BY <1>1, <1>3, GrownOrder
<1>10. Grown(usage, draft)'
  BY <1>9 DEF Grown
<1>11. QED
  BY <1>4, <1>6, <1>8, <1>10, TypeParts DEF SchedulerInv

\* A job becomes due, or waits for a retry.
LEMMA WaitKeeps ==
  ASSUME NEW j \in Jobs, SchedulerInv,
         phase[j] \in {"deferred", "running", "backoff"}, holder[j] = Nobody,
         phase' = [phase EXCEPT ![j] = "backoff"] \/ phase' = [phase EXCEPT ![j] = "ready"],
         failures' \in 0 .. MaxFailures,
         UNCHANGED <<holder, older, usage, locker, draft, ticks>>
  PROVE  SchedulerInv'
<1>1. FlatTypes
  BY TypeParts DEF SchedulerInv
<1>2. /\ phase'[j] \in {"backoff", "ready"} /\ \A i \in Jobs : i # j => phase'[i] = phase[i]
      /\ phase' \in [Jobs -> Phases]
  BY <1>1 DEF FlatTypes, Phases
<1>3. FlatTypes'
  BY <1>1, <1>2 DEF FlatTypes
<1>4. Queued' = Queued
  BY <1>2 DEF Queued
<1>5. \A i \in Jobs : phase'[i] = "refused" => phase[i] = "refused" /\ holder'[i] = holder[i]
  BY <1>2
<1>6. QED
  BY <1>3, <1>4, <1>5, QuietKeeps

LEMMA ArriveKeeps == ASSUME NEW j \in Jobs, SchedulerInv, Arrive(j) PROVE SchedulerInv'
<1> DEFINE Peers == {i \in Queued : Priority[i] = Priority[j]}
<1>1. /\ phase[j] = "absent" /\ phase' = [phase EXCEPT ![j] = "ready"]
      /\ older' = older \cup (Peers \X {j})
      /\ UNCHANGED <<holder, usage, locker, draft, ticks, failures>>
  BY DEF Arrive
<1>2. Ordered /\ FlatTypes /\ IsFiniteSet(Queued)
  BY TypeParts DEF SchedulerInv
<1>3. /\ phase'[j] = "ready" /\ \A i \in Jobs : i # j => phase'[i] = phase[i]
      /\ phase' \in [Jobs -> Phases]
  BY <1>1, <1>2 DEF FlatTypes, Phases
<1>4. FlatTypes'
  BY <1>1, <1>2, <1>3 DEF FlatTypes
<1>5. j \notin Queued /\ Queued' = Queued \cup {j}
  BY <1>1, <1>3 DEF Queued
<1>6. IsFiniteSet(Queued')
  BY <1>2, <1>5, FS_AddElement
<1>7. /\ \A a, b : <<a, b>> \in older => a \in Queued /\ b \in Queued /\ Priority[a] = Priority[b]
      /\ \A a, b \in Queued : Priority[a] = Priority[b] =>
           (<<a, b>> \in older <=> a # b /\ <<b, a>> \notin older)
      /\ \A a, b, c \in Queued :
           <<a, b>> \in older /\ <<b, c>> \in older => <<a, c>> \in older
  BY <1>2 DEF Ordered
<1>8. \A a, b : <<a, b>> \in older' <=>
        <<a, b>> \in older \/ (a \in Queued /\ Priority[a] = Priority[j] /\ b = j)
  BY <1>1
<1>9. older' \subseteq {p \in Queued' \X Queued' : Priority[p[1]] = Priority[p[2]]}
  <2>1. \A p \in older' : p \in older \/ p \in Peers \X {j}
    BY <1>1
  <2>2. \A p \in older : p \in Queued \X Queued /\ Priority[p[1]] = Priority[p[2]]
    BY <1>2 DEF Ordered
  <2>3. \A p \in Peers \X {j} : p \in Queued' \X Queued' /\ Priority[p[1]] = Priority[p[2]]
    BY <1>5
  <2>4. QED
    BY <1>5, <2>1, <2>2, <2>3
<1>10. ASSUME NEW a \in Queued', NEW b \in Queued', Priority[a] = Priority[b]
       PROVE  <<a, b>> \in older' <=> a # b /\ <<b, a>> \notin older'
  <2>1. (a \in Queued \/ a = j) /\ (b \in Queued \/ b = j)
    BY <1>5
  <2>2. /\ <<a, b>> \in older' <=>
             <<a, b>> \in older \/ (a \in Queued /\ Priority[a] = Priority[j] /\ b = j)
        /\ <<b, a>> \in older' <=>
             <<b, a>> \in older \/ (b \in Queued /\ Priority[b] = Priority[j] /\ a = j)
    BY <1>8
  <2>3. QED
    BY <1>5, <1>7, <1>10, <2>1, <2>2
<1>11. ASSUME NEW a \in Queued', NEW b \in Queued', NEW c \in Queued',
              <<a, b>> \in older', <<b, c>> \in older'
       PROVE  <<a, c>> \in older'
  <2>1. (a \in Queued \/ a = j) /\ (b \in Queued \/ b = j) /\ (c \in Queued \/ c = j)
    BY <1>5
  <2>2. <<a, b>> \in older \/ (a \in Queued /\ Priority[a] = Priority[j] /\ b = j)
    BY <1>8, <1>11
  <2>3. <<b, c>> \in older \/ (b \in Queued /\ Priority[b] = Priority[j] /\ c = j)
    BY <1>8, <1>11
  <2>4. <<a, c>> \in older \/ (a \in Queued /\ Priority[a] = Priority[j] /\ c = j)
    BY <1>5, <1>7, <2>1, <2>2, <2>3
  <2>5. QED
    BY <1>8, <2>4
<1>12. Ordered'
  <2> HIDE DEF Queued
  <2>1. QED
    BY <1>9, <1>10, <1>11 DEF Ordered
<1>13. \A i \in Jobs : phase'[i] = "refused" => phase[i] = "refused" /\ holder'[i] = holder[i]
  BY <1>1, <1>3
<1>14. RefusalsStand' /\ LockerRefused' /\ Grown(usage, draft)'
  BY <1>1, <1>13, CountersStay
<1>15. QED
  BY <1>4, <1>6, <1>12, <1>14, TypeParts DEF SchedulerInv

LEMMA EndKeeps == ASSUME NEW j \in Jobs, SchedulerInv, End(j) PROVE SchedulerInv'
<1>1. /\ holder[j] = Nobody
      /\ phase' = [phase EXCEPT ![j] = IF j \in Recurring THEN "absent" ELSE "over"]
      /\ older' = {p \in older : j \notin {p[1], p[2]}}
      /\ UNCHANGED <<holder, usage, locker, draft, ticks, failures>>
  BY DEF End, Started
<1>2. Ordered /\ FlatTypes /\ IsFiniteSet(Queued)
  BY TypeParts DEF SchedulerInv
<1>3. /\ phase'[j] \in {"absent", "over"} /\ \A i \in Jobs : i # j => phase'[i] = phase[i]
      /\ phase' \in [Jobs -> Phases]
  BY <1>1, <1>2 DEF FlatTypes, Phases
<1>4. FlatTypes'
  BY <1>1, <1>2, <1>3 DEF FlatTypes
<1>5. Queued' = Queued \ {j}
  BY <1>3 DEF Queued
<1>6. IsFiniteSet(Queued')
  BY <1>2, <1>5, FS_RemoveElement
<1>7. \A a, b \in Queued' : <<a, b>> \in older' <=> <<a, b>> \in older
  BY <1>1, <1>5
<1>8. older' \subseteq {p \in Queued' \X Queued' : Priority[p[1]] = Priority[p[2]]}
  <2>1. \A p \in older' : p \in Queued \X Queued /\ Priority[p[1]] = Priority[p[2]]
    BY <1>1, <1>2 DEF Ordered
  <2>2. \A p \in older' : p[1] # j /\ p[2] # j
    BY <1>1
  <2>3. QED
    BY <1>5, <2>1, <2>2
<1>9. /\ \A a, b \in Queued' : Priority[a] = Priority[b] =>
           (<<a, b>> \in older' <=> a # b /\ <<b, a>> \notin older')
      /\ \A a, b, c \in Queued' :
           <<a, b>> \in older' /\ <<b, c>> \in older' => <<a, c>> \in older'
  BY <1>2, <1>5, <1>7 DEF Ordered
<1>10. Ordered'
  <2> HIDE DEF Queued
  <2>1. QED
    BY <1>8, <1>9 DEF Ordered
<1>11. \A i \in Jobs : phase'[i] = "refused" => phase[i] = "refused" /\ holder'[i] = holder[i]
  BY <1>1, <1>3
<1>12. RefusalsStand' /\ LockerRefused' /\ Grown(usage, draft)'
  BY <1>1, <1>11, CountersStay
<1>13. QED
  BY <1>4, <1>6, <1>10, <1>12, TypeParts DEF SchedulerInv

LEMMA SchedulerNext == SchedulerInv /\ [Next]_vars => SchedulerInv'
<1> SUFFICES ASSUME SchedulerInv, [Next]_vars PROVE SchedulerInv'
  OBVIOUS
<1>1. FlatTypes /\ failures \in 0 .. MaxFailures
  BY TypeParts DEF SchedulerInv, FlatTypes
<1>2. CASE UNCHANGED vars
  <2>1. UNCHANGED <<phase, holder, older, usage, locker, draft, ticks, failures>>
    BY <1>2 DEF vars
  <2>2. FlatTypes' /\ Queued' = Queued
    BY <1>1, <2>1 DEF FlatTypes, Queued
  <2>3. QED
    BY <2>1, <2>2, QuietKeeps
<1>3. ASSUME NEW w \in Workers, Claim(w) \/ Decide(w) \/ Commit(w) PROVE SchedulerInv'
  BY <1>3, ClaimKeeps, AdmitKeeps, RefuseKeeps, CommitKeeps DEF Decide
<1>4. ASSUME NEW w \in Workers, Raise(w) \/ Fail(w) PROVE SchedulerInv'
  <2>1. RollBack(w) /\ failures' \in 0 .. MaxFailures
    BY <1>1, <1>4, Constants DEF Raise, Fail
  <2>2. QED
    BY <2>1, RollBackKeeps
<1>5. ASSUME NEW j \in Jobs, Due(j) \/ Retry(j) \/ BackoffPasses(j) PROVE SchedulerInv'
  <2>1. phase[j] = "backoff" => holder[j] = Nobody
    BY <1>1 DEF FlatTypes
  <2>2. failures' \in 0 .. MaxFailures
    BY <1>1, <1>5, Constants DEF Due, Retry, BackoffPasses
  <2>3. QED
    BY <1>5, <2>1, <2>2, WaitKeeps DEF Due, Retry, BackoffPasses, Started
<1>6. QED
  BY <1>2, <1>3, <1>4, <1>5, MinuteKeeps, ArriveKeeps, EndKeeps DEF Next

\* The types of the scheduler's state, that the age of the queued jobs of a priority orders
\* them, and who can have what open.
THEOREM TypeCorrect == Spec => []TypeOK
<1>1. SchedulerInv => TypeOK
  BY DEF SchedulerInv
<1>2. QED
  BY <1>1, SchedulerInit, SchedulerNext, PTL DEF Spec

\* A job that was refused would be refused again as long as the minute lasts, whatever
\* claims are made, committed or rolled back in it.  Its deferral costs it nothing in that
\* minute; in the next it may, for it is due up to a second after the counters are reset.
THEOREM DeferralsHold == Spec => []RefusalsStand
<1>1. SchedulerInv => RefusalsStand
  BY DEF SchedulerInv
<1>2. QED
  BY <1>1, SchedulerInit, SchedulerNext, PTL DEF Spec

-----------------------------------------------------------------------------
(* The order in which jobs get on *)

\* A ready job that nobody holds comes into a claim with all that is before it.
LEMMA ClaimsFromTheHead ==
  ASSUME SchedulerInv, [Next]_vars, NEW i \in ReadyJobs, NEW j \in ReadyJobs, Before(i, j),
         holder'[j] # Nobody
  PROVE  holder'[i] = holder'[j]
<1>1. /\ Ordered /\ FlatTypes /\ IsFiniteSet(Queued)
      /\ ReadyJobs \subseteq Queued /\ ReadyJobs \subseteq Jobs
  BY TypeParts DEF SchedulerInv, ReadyJobs, Queued
<1>2. holder[i] = Nobody /\ holder[j] = Nobody
  BY DEF ReadyJobs
<1>3. PICK w \in Workers : Claim(w)
  <2>1. ASSUME NEW w \in Workers, Commit(w) \/ Raise(w) \/ Fail(w) PROVE FALSE
    <3>1. Free(w)
      BY <2>1 DEF Commit, Raise, Fail, RollBack
    <3>2. QED
      BY <1>1, <1>2, <3>1, FreeFacts, Constants
  <2>2. ASSUME NEW w \in Workers, Decide(w) PROVE FALSE
    BY <1>2, <2>2 DEF Decide, Admit, Refuse, Consult
  <2>3. CASE \/ NextMinute \/ UNCHANGED vars
             \/ \E k \in Jobs : Due(k) \/ Arrive(k) \/ End(k) \/ Retry(k) \/ BackoffPasses(k)
    BY <1>2, <2>3 DEF NextMinute, vars, Due, Arrive, End, Retry, BackoffPasses
  <2>4. QED
    BY <2>1, <2>2, <2>3 DEF Next
<1>4. holder' = [k \in Jobs |-> IF k \in Batch THEN w ELSE holder[k]]
  BY <1>3 DEF Claim
<1>5. j \in Batch
  BY <1>1, <1>2, <1>4
<1> DEFINE I == {k \in ReadyJobs : Before(k, i)}
           J == {k \in ReadyJobs : Before(k, j)}
<1>6. I \subseteq J
  BY <1>1, BeforeTransitive
<1>7. J \subseteq Queued /\ Cardinality(J) < BatchLimit
  BY <1>1, <1>5 DEF Batch
<1> HIDE DEF I, J
<1>8. IsFiniteSet(J) /\ IsFiniteSet(I) /\ Cardinality(I) <= Cardinality(J)
  BY <1>1, <1>6, <1>7, FS_Subset
<1>9. Cardinality(I) \in Nat /\ Cardinality(J) \in Nat /\ BatchLimit \in Nat
  BY <1>8, FS_CardinalityType, Constants
<1>10. Cardinality(I) < BatchLimit
  BY <1>7, <1>8, <1>9
<1>11. i \in Batch
  BY <1>10 DEF Batch, I
<1>12. QED
  BY <1>1, <1>4, <1>5, <1>11

\* Only a decision of the worker that holds it sets a job running, after those of its claim
\* that are before it.
LEMMA DecisionsAdmit ==
  ASSUME SchedulerInv, [Next]_vars, NEW j \in Jobs, phase[j] = "ready", phase'[j] = "running"
  PROVE  \E w \in Workers :
           /\ Admit(w, j) /\ holder[j] = w /\ locker \in {Nobody, w} /\ Admits(draft, j)
           /\ \A i \in Jobs : holder[i] = w /\ phase[i] = "ready" => ~ Before(i, j)
<1>1. FlatTypes
  BY TypeParts DEF SchedulerInv
<1>2. ASSUME NEW w \in Workers, Claim(w) \/ Commit(w) \/ Raise(w) \/ Fail(w) PROVE FALSE
  BY <1>2 DEF Claim, Commit, Raise, Fail, RollBack
<1>3. CASE NextMinute \/ UNCHANGED vars
  BY <1>3 DEF NextMinute, vars
<1>4. ASSUME NEW k \in Jobs, Due(k) \/ Arrive(k) \/ End(k) \/ Retry(k) \/ BackoffPasses(k)
      PROVE  FALSE
  BY <1>1, <1>4 DEF Due, Arrive, End, Retry, BackoffPasses, Started, FlatTypes
<1>5. ASSUME NEW w \in Workers, Decide(w) PROVE Admit(w, j)
  <2>1. PICK k \in Jobs : Admit(w, k) \/ Refuse(w, k)
    BY <1>5 DEF Decide
  <2>2. k = j /\ Admit(w, k)
    BY <1>1, <2>1 DEF Admit, Refuse, FlatTypes
  <2>3. QED
    BY <2>2
<1>6. PICK w \in Workers : Admit(w, j)
  BY <1>2, <1>3, <1>4, <1>5 DEF Next
<1>7. /\ j \in Undecided(w) /\ locker \in {Nobody, w} /\ Admits(draft, j)
      /\ \A i \in Undecided(w) : ~ Before(i, j)
  BY <1>6 DEF Admit, Consult, NextUp
<1>8. \A i \in Jobs : i \in Undecided(w) <=> holder[i] = w /\ phase[i] = "ready"
  BY DEF Undecided, Held
<1>9. QED
  BY <1>6, <1>7, <1>8

\* Within a customer and a priority: no job is claimed past an older one that is ready and
\* in no claim, nor admitted past an older one that asks for no more and was refused in the
\* same minute, by whichever worker, or is in the same batch and not decided about.
THEOREM NobodyOvertakes == Spec => NoOvertaking
<1>1. ASSUME SchedulerInv, [Next]_vars, NEW i \in Jobs, NEW j \in Jobs,
             <<i, j>> \in older, NoHarder(i, j)
      PROVE  /\ i \in ReadyJobs /\ j \in ReadyJobs /\ holder'[j] # Nobody => holder'[i] # Nobody
             /\ phase[j] = "ready" /\ phase'[j] = "running" =>
                  /\ phase[i] # "refused"
                  /\ holder[i] = holder[j] => phase[i] \in {"running", "deferred"}
  <2>1. Before(i, j)
    BY <1>1 DEF Before
  <2>2. FlatTypes
    BY <1>1, TypeParts DEF SchedulerInv
  <2>3. ASSUME i \in ReadyJobs, j \in ReadyJobs, holder'[j] # Nobody PROVE holder'[i] # Nobody
    BY <1>1, <2>1, <2>3, ClaimsFromTheHead
  <2>4. ASSUME phase[j] = "ready", phase'[j] = "running"
        PROVE  /\ phase[i] # "refused"
               /\ holder[i] = holder[j] => phase[i] \in {"running", "deferred"}
    <3>1. PICK w \in Workers :
            /\ Admit(w, j) /\ holder[j] = w /\ locker \in {Nobody, w} /\ Admits(draft, j)
            /\ \A k \in Jobs : holder[k] = w /\ phase[k] = "ready" => ~ Before(k, j)
      BY <1>1, <2>4, DecisionsAdmit
    <3>2. phase[i] # "refused"
      <4> SUFFICES ASSUME phase[i] = "refused" PROVE FALSE
        OBVIOUS
      <4>1. ~ Admits(draft, i)
        BY <1>1, <3>1, OpenRefusals
      <4>2. draft \in Usage /\ Grown(draft, draft)
        BY <2>2, GrownOrder DEF FlatTypes
      <4>3. QED
        BY <1>1, <3>1, <4>1, <4>2, AdmitsEasier
    <3>3. ASSUME holder[i] = holder[j] PROVE phase[i] \in {"running", "deferred"}
      <4>1. holder[i] = w /\ w # Nobody
        BY <3>1, <3>3, Constants
      <4>2. phase[i] # "ready"
        BY <2>1, <3>1, <4>1
      <4>3. phase[i] \in Phases /\ phase[i] \notin {"absent", "backoff", "over"}
        BY <2>2, <4>1 DEF FlatTypes
      <4>4. QED
        BY <3>2, <4>2, <4>3 DEF Phases
    <3>4. QED
      BY <3>2, <3>3
  <2>5. QED
    BY <2>3, <2>4
<1>2. SchedulerInv /\ [Next]_vars =>
        \A i, j \in Jobs : <<i, j>> \in older /\ NoHarder(i, j) =>
          /\ i \in ReadyJobs /\ j \in ReadyJobs /\ holder'[j] # Nobody => holder'[i] # Nobody
          /\ phase[j] = "ready" /\ phase'[j] = "running" =>
               /\ phase[i] # "refused"
               /\ holder[i] = holder[j] => phase[i] \in {"running", "deferred"}
  BY <1>1
<1>3. QED
  BY <1>2, SchedulerInit, SchedulerNext, PTL DEF Spec, NoOvertaking

\* A call in which a high-value word came up is never passed over for one without: whoever
\* claims the latter claims the former with it, and decides about the former first.
THEOREM UrgentCallsFirst == Spec => UrgentFirst
<1>1. ASSUME SchedulerInv, [Next]_vars, NEW i \in Jobs, NEW j \in Jobs, Urgent(i), Casual(j)
      PROVE  /\ i \in ReadyJobs /\ j \in ReadyJobs /\ holder'[j] # Nobody
                  => holder'[i] = holder'[j]
             /\ phase[j] = "ready" /\ phase'[j] = "running" /\ holder[i] = holder[j]
                  => phase[i] # "ready"
  <2>1. ASSUME NEW p \in Text[i], p \in HighKeywords PROVE p \in Contained(Text[i])
    <3>1. p \in Inside(p)
      BY <2>1 DEF Inside
    <3>2. QED
      BY <3>1 DEF Contained
  <2>2. Priority[i] = "HIGH"
    BY <1>1, <2>1 DEF Priority, Classify, Urgent
  <2>3. Priority[j] \in {"MEDIUM", "LOW"}
    BY <1>1 DEF Priority, Classify, Casual
  <2>4. Before(i, j)
    BY <2>2, <2>3, RankFacts DEF Before
  <2>5. ASSUME i \in ReadyJobs, j \in ReadyJobs, holder'[j] # Nobody
        PROVE  holder'[i] = holder'[j]
    BY <1>1, <2>4, <2>5, ClaimsFromTheHead
  <2>6. ASSUME phase[j] = "ready", phase'[j] = "running", holder[i] = holder[j]
        PROVE  phase[i] # "ready"
    BY <1>1, <2>4, <2>6, DecisionsAdmit
  <2>7. QED
    BY <2>5, <2>6
<1>2. SchedulerInv /\ [Next]_vars =>
        \A i, j \in Jobs : Urgent(i) /\ Casual(j) =>
          /\ i \in ReadyJobs /\ j \in ReadyJobs /\ holder'[j] # Nobody => holder'[i] = holder'[j]
          /\ phase[j] = "ready" /\ phase'[j] = "running" /\ holder[i] = holder[j]
               => phase[i] # "ready"
  BY <1>1
<1>3. QED
  BY <1>2, SchedulerInit, SchedulerNext, PTL DEF Spec, UrgentFirst
=============================================================================
