--------------------------- MODULE RowLocksProofs ---------------------------
(***************************************************************************)
(* The locks of the workers' transactions, for any number of workers,      *)
(* interactions, crashes and overruns: every deadlock is over a job that   *)
(* two workers have, so a deployment in which no two ever do has none.     *)
(***************************************************************************)
EXTENDS RowLocks, FiniteSetTheorems, WellFoundedInduction, TLAPS

-----------------------------------------------------------------------------
(* Rows and sequences of them *)

\* The three tables have no row in common.
LEMMA RowFacts ==
  /\ JobRows \subseteq Rows /\ Ledger \in Rows
  /\ \A i \in Interactions : InteractionRow(i) \in Rows
  /\ \A r \in JobRows : /\ r = <<r[1], r[2]>> /\ r[1] \in JobTypes /\ r[2] \in Interactions
                        /\ r # Ledger
                        /\ \A i \in Interactions : r # InteractionRow(i)
  /\ \A i \in Interactions : InteractionRow(i) # Ledger
  /\ \A i, j \in Interactions : InteractionRow(i) = InteractionRow(j) => i = j
BY DEF JobRows, Rows, Ledger, InteractionRow, JobTypes

\* The rows of a table are finitely many.
LEMMA TablesFinite ==
  /\ \A S \in SUBSET JobRows : IsFiniteSet(S)
  /\ \A S \in SUBSET {InteractionRow(i) : i \in Interactions} : IsFiniteSet(S)
<1>1. IsFiniteSet(JobTypes)
  <2>1. IsFiniteSet({"orchestrate"} \cup {"llm"} \cup {"recording"} \cup {"signal"} \cup {"lead"})
    <3>1. IsFiniteSet({"orchestrate"} \cup {"llm"} \cup {"recording"})
      BY FS_AddElement, FS_Singleton
    <3>2. QED
      BY <3>1, FS_AddElement
  <2>2. JobTypes = {"orchestrate"} \cup {"llm"} \cup {"recording"} \cup {"signal"} \cup {"lead"}
    BY DEF JobTypes
  <2>3. QED
    BY <2>1, <2>2
<1>2. IsFiniteSet(Interactions)
  BY RowLocksAssumption
<1>3. IsFiniteSet(JobRows)
  BY <1>1, <1>2, FS_Product DEF JobRows
<1>4. IsFiniteSet({"interaction"} \X Interactions)
  BY <1>2, FS_Product, FS_Singleton
<1>5. {InteractionRow(i) : i \in Interactions} \subseteq {"interaction"} \X Interactions
  BY DEF InteractionRow
<1>6. QED
  BY <1>3, <1>4, <1>5, FS_Subset

\* An enumeration of a finite set is a sequence of its members.
LEMMA EnumerationType ==
  ASSUME NEW S, IsFiniteSet(S), NEW s \in SetToSeqs(S)
  PROVE  s \in Seq(S) /\ \A n \in DOMAIN s : s[n] \in S
<1>1. Cardinality(S) \in Nat
  BY FS_CardinalityType
<1>2. s \in [1 .. Cardinality(S) -> S]
  BY DEF SetToSeqs
<1>3. QED
  BY <1>1, <1>2

\* What is left of a sequence after its head.
LEMMA TailFacts ==
  ASSUME NEW S, NEW s \in Seq(S), s # <<>>
  PROVE  /\ Tail(s) \in Seq(S) /\ Head(s) \in S /\ Head(s) = s[1] /\ 1 \in DOMAIN s
         /\ \A n \in DOMAIN Tail(s) : n + 1 \in DOMAIN s /\ n \in Nat \ {0} /\ Tail(s)[n] = s[n + 1]
OBVIOUS

\* Short sequences.
LEMMA TupleType ==
  ASSUME NEW S, NEW a \in S, NEW b \in S, NEW c \in S
  PROVE  {<<>>, <<a>>, <<a, b>>, <<a, b, c>>} \subseteq Seq(S)
<1>1. <<>> \in Seq(S) /\ <<a>> \in Seq(S) /\ <<a, b>> \in Seq(S) /\ <<a, b, c>> \in Seq(S)
  OBVIOUS
<1>2. QED
  BY <1>1

\* ... and their heads and tails.
LEMMA TupleTail ==
  ASSUME NEW a, NEW b, NEW c
  PROVE  /\ Tail(<<a, b, c>>) = <<b, c>> /\ <<a, b, c>>[1] = a
         /\ Tail(<<a, b>>) = <<b>> /\ <<a, b>>[1] = a
         /\ Tail(<<a>>) = <<>> /\ <<a>>[1] = a
OBVIOUS

-----------------------------------------------------------------------------
(* Types *)

\* What types rest on: who closes a job knows how it ends.
TypeInv == TypeOK /\ \A w \in Workers : pc[w] = "closing" => result[w] # "none"

LEMMA TypeInit == Init => TypeInv
BY RowLocksAssumption DEF Init, TypeOK, TypeInv

\* What a transaction may have to lock next: after the claim query,
LEMMA FollowingType ==
  ASSUME NEW w \in Workers, NEW S \in SUBSET JobRows, NEW s \in Following(w, S)
  PROVE  s \in Seq(Rows)
<1> DEFINE T == {InteractionRow(r[2]) : r \in S}
<1>1. T \subseteq {InteractionRow(i) : i \in Interactions} /\ T \subseteq Rows
  BY RowFacts
<1>2. IsFiniteSet(T)
  BY <1>1, TablesFinite
<1>3. s \in {<<Ledger>>, <<>>} \/ s \in SetToSeqs(T)
  BY DEF Following
<1> HIDE DEF T
<1>4. CASE s \in SetToSeqs(T)
  <2>1. s \in Seq(T)
    BY <1>2, <1>4, EnumerationType
  <2>2. QED
    BY <1>1, <2>1
<1>5. CASE s \in {<<Ledger>>, <<>>}
  <2>1. Ledger \in Rows
    BY RowFacts
  <2>2. QED
    BY <1>5, <2>1, TupleType
<1>6. QED
  BY <1>3, <1>4, <1>5

\* ... and to close a job.
LEMMA ProgramType ==
  ASSUME NEW w \in Workers, NEW r \in JobRows, NEW succeeds \in BOOLEAN,
         NEW s \in Program(w, r, succeeds)
  PROVE  s \in Seq(Rows)
<1> DEFINE i == InteractionRow(r[2])
<1>1. r \in Rows /\ i \in Rows /\ Ledger \in Rows
  BY RowFacts
<1>2. s \in {<<i, Ledger, r>>, <<i, r>>, <<r, i>>, <<r>>}
  BY DEF Program
<1> HIDE DEF i
<1>3. QED
  BY <1>1, <1>2, TupleType

\* A transaction that ends gives its rows back and keeps the types.
LEMMA ReleaseType == TypeOK => \A w \in Workers : Release(w) => holder' \in [Rows -> Workers \cup {Nobody}]
BY DEF TypeOK, Release

LEMMA TypeNext == TypeInv /\ [Next]_vars => TypeOK'
<1> SUFFICES ASSUME TypeInv, [Next]_vars PROVE TypeOK'
  OBVIOUS
<1>0. TypeOK
  BY DEF TypeInv
<1> USE <1>0
<1> USE DEF envVars
<1>1. ASSUME NEW w \in Workers, Acquire(w) PROVE TypeOK'
  <2>1. Head(todo[w]) \in Rows /\ Tail(todo[w]) \in Seq(Rows)
    BY <1>1, TailFacts DEF Acquire, TypeOK
  <2>2. QED
    BY <1>1, <2>1 DEF Acquire, TypeOK
<1>2. ASSUME NEW w \in Workers, Recover(w) PROVE TypeOK'
  <2>1. PICK found \in SUBSET JobRows :
          /\ touched' = [touched EXCEPT ![w] = found]
          /\ \E rows \in InIdOrder(found) : todo' = [todo EXCEPT ![w] = rows]
    BY <1>2 DEF Recover, Found
  <2>2. PICK rows \in SetToSeqs(found) : todo' = [todo EXCEPT ![w] = rows]
    BY <2>1 DEF InIdOrder
  <2>3. rows \in Seq(Rows)
    <3>1. rows \in Seq(found)
      BY TablesFinite, EnumerationType
    <3>2. QED
      BY <3>1, RowFacts
  <2>4. QED
    BY <1>2, <2>1, <2>2, <2>3 DEF Recover, TypeOK
<1>3. ASSUME NEW w \in Workers, Claim(w) PROVE TypeOK'
  <2>1. PICK S \in SUBSET Claimable(w) :
          /\ batch' = [batch EXCEPT ![w] = S]
          /\ holder' = [r \in Rows |-> IF r \in S THEN w ELSE holder[r]]
          /\ \E rows \in Following(w, S) : todo' = [todo EXCEPT ![w] = rows]
    BY <1>3 DEF Claim
  <2>2. S \in SUBSET JobRows
    BY DEF Claimable
  <2>3. PICK rows \in Following(w, S) : todo' = [todo EXCEPT ![w] = rows]
    BY <2>1
  <2>4. rows \in Seq(Rows)
    BY <2>2, FollowingType
  <2>5. QED
    BY <1>3, <2>1, <2>2, <2>3, <2>4 DEF Claim, TypeOK
<1>4. ASSUME NEW w \in Workers, CommitClaim(w) PROVE TypeOK'
  <2>1. PICK admitted \in SUBSET batch[w] :
          /\ batch' = [batch EXCEPT ![w] = admitted]
          /\ job' = [r \in JobRows |-> IF r \in admitted THEN "running"
                                       ELSE IF r \in touched[w] \cup batch[w] THEN "ready"
                                       ELSE job[r]]
          /\ pc' = [pc EXCEPT ![w] = IF admitted = {} THEN "idle" ELSE "working"]
    BY <1>4 DEF CommitClaim
  <2>2. holder' \in [Rows -> Workers \cup {Nobody}]
    BY <1>4, ReleaseType DEF CommitClaim
  <2>3. job' \in [JobRows -> {"absent", "ready", "running", "stale", "over"}]
    BY <2>1 DEF TypeOK
  <2>4. batch' \in [Workers -> SUBSET JobRows]
    BY <2>1 DEF TypeOK
  <2>5. QED
    BY <1>4, <2>1, <2>2, <2>3, <2>4 DEF CommitClaim, TypeOK
<1>5. ASSUME NEW w \in Workers, CommitOrchestration(w) PROVE TypeOK'
  <2>1. holder' \in [Rows -> Workers \cup {Nobody}]
    BY <1>5, ReleaseType DEF CommitOrchestration
  <2>2. job' \in [JobRows -> {"absent", "ready", "running", "stale", "over"}]
    BY <1>5 DEF CommitOrchestration, TypeOK
  <2>3. QED
    BY <1>5, <2>1, <2>2 DEF CommitOrchestration, TypeOK
<1>6. ASSUME NEW w \in Workers, BeginClosing(w) PROVE TypeOK'
  <2>1. PICK r \in batch[w], succeeds \in BOOLEAN, ending \in {"over", "ready"} :
          /\ \E rows \in Program(w, r, succeeds) : todo' = [todo EXCEPT ![w] = rows]
          /\ touched' = [touched EXCEPT ![w] = {r}]
          /\ batch' = [batch EXCEPT ![w] = @ \ {r}]
          /\ result' = [result EXCEPT ![w] = ending]
    BY <1>6 DEF BeginClosing
  <2>2. r \in JobRows
    BY DEF TypeOK
  <2>3. todo' \in [Workers -> Seq(Rows)]
    BY <2>1, <2>2, ProgramType DEF TypeOK
  <2>4. QED
    BY <1>6, <2>1, <2>2, <2>3 DEF BeginClosing, TypeOK
<1>7. ASSUME NEW w \in Workers, Skip(w) PROVE TypeOK'
  BY <1>7 DEF Skip, TypeOK
<1>8. ASSUME NEW w \in Workers, CommitClosing(w) PROVE TypeOK'
  <2>1. holder' \in [Rows -> Workers \cup {Nobody}]
    BY <1>8, ReleaseType DEF CommitClosing
  <2>2. result[w] \in {"over", "ready"}
    BY <1>8 DEF CommitClosing, TypeInv, TypeOK
  <2>3. job' \in [JobRows -> {"absent", "ready", "running", "stale", "over"}]
    BY <1>8, <2>2 DEF CommitClosing, TypeOK
  <2>4. QED
    BY <1>8, <2>1, <2>3 DEF CommitClosing, TypeOK
<1>9. ASSUME NEW w \in Workers, EndTick(w), job' = job, crashes' \in Nat, overruns' \in Nat
      PROVE  TypeOK'
  BY <1>9, ReleaseType DEF EndTick, TypeOK
<1>10. ASSUME NEW w \in Workers, Abort(w) \/ Crash(w) PROVE TypeOK'
  BY <1>9, <1>10 DEF Abort, Crash, TypeOK
<1>11. ASSUME NEW r \in JobRows, Overrun(r) \/ Expire(r) PROVE TypeOK'
  BY <1>11 DEF Overrun, Expire, TypeOK
<1>12. CASE UNCHANGED vars
  BY <1>12 DEF vars, TypeOK
<1>13. QED
  BY <1>1, <1>2, <1>3, <1>4, <1>5, <1>6, <1>7, <1>8, <1>10, <1>11, <1>12
     DEF Next, AllOver, TransactionStep, WorkStep

LEMMA ResultNext == TypeInv /\ [Next]_vars => TypeInv'
<1> SUFFICES ASSUME TypeInv, [Next]_vars, NEW w \in Workers
             PROVE  pc'[w] = "closing" => result'[w] # "none"
  BY TypeNext DEF TypeInv
<1> USE DEF TypeInv, TypeOK, envVars
<1>1. ASSUME NEW v \in Workers, Recover(v) \/ TransactionStep(v)
      PROVE  pc'[w] = "closing" => result'[w] # "none"
  BY <1>1 DEF Recover, TransactionStep, Acquire, Claim, CommitClaim, CommitOrchestration,
              CommitClosing
<1>2. ASSUME NEW v \in Workers, WorkStep(v)
      PROVE  pc'[w] = "closing" => result'[w] # "none"
  BY <1>2 DEF WorkStep, BeginClosing, Skip
<1>3. ASSUME NEW v \in Workers, Abort(v) \/ Crash(v)
      PROVE  pc'[w] = "closing" => result'[w] # "none"
  BY <1>3 DEF Abort, Crash, EndTick
<1>4. ASSUME NEW r \in JobRows, Overrun(r) \/ Expire(r)
      PROVE  pc'[w] = "closing" => result'[w] # "none"
  BY <1>4 DEF Overrun, Expire
<1>5. CASE UNCHANGED vars
  BY <1>5 DEF vars
<1>6. QED
  BY <1>1, <1>2, <1>3, <1>4, <1>5 DEF Next, AllOver

\* Every variable keeps its type, whoever crashes or outlives its lock.
THEOREM TypeCorrect == Spec => []TypeOK
<1>1. TypeInv => TypeOK
  BY DEF TypeInv
<1>2. QED
  BY <1>1, TypeInit, ResultNext, PTL DEF Spec

-----------------------------------------------------------------------------
(* What a transaction holds *)

Held(w) == {r \in Rows : holder[r] = w}

\* The rows of a recovery, in the order of their keys: those it has come before those it
\* has yet to get.
RecoveryLocks(w) ==
  /\ batch[w] = {}
  /\ Held(w) \subseteq touched[w]
  /\ \A n \in DOMAIN todo[w] : todo[w][n] \in touched[w]
  /\ \A m, n \in DOMAIN todo[w] : m < n => Id[todo[w][m]] <= Id[todo[w][n]]
  /\ \A r \in Held(w), n \in DOMAIN todo[w] : Id[r] <= Id[todo[w][n]]

\* An interaction that belongs to a job of the orchestrator's batch.
Child(w, r) ==
  Kind[w] = "orchestrate" /\ \E b \in batch[w] : r = InteractionRow(b[2])

\* After the claim query the batch is locked, and what the rest of the transaction needs is
\* the ledger, last, or the interactions of the batch.
AdmissionLocks(w) ==
  /\ batch[w] \subseteq Held(w) /\ \A b \in batch[w] : KindOf(b) = Kind[w]
  /\ \A r \in Held(w) : \/ r \in touched[w] \cup batch[w]
                        \/ r = Ledger /\ todo[w] = <<>>
                        \/ Child(w, r)
  /\ \/ todo[w] = <<Ledger>>
     \/ \A n \in DOMAIN todo[w] : Child(w, todo[w][n])

\* How far a transaction can be that closes job r: what it has yet to lock, what it holds.
Progress(r) ==
  LET i == InteractionRow(r[2])
  IN  {<< <<i, Ledger, r>>, {} >>, << <<Ledger, r>>, {i} >>, << <<r>>, {i, Ledger} >>,
       << <<>>, {i, Ledger, r} >>,
       << <<i, r>>, {} >>, << <<r>>, {i} >>, << <<>>, {i, r} >>,
       << <<r, i>>, {} >>, << <<i>>, {r} >>,
       << <<r>>, {} >>, << <<>>, {r} >>}

ClosingLocks(w) ==
  \E r \in JobRows : touched[w] = {r} /\ <<todo[w], Held(w)>> \in Progress(r)

LocksOf(w) ==
  CASE pc[w] = "recovering" -> RecoveryLocks(w)
    [] pc[w] = "admitting"  -> AdmissionLocks(w)
    [] pc[w] = "closing"    -> ClosingLocks(w)
    [] OTHER -> todo[w] = <<>> /\ Held(w) = {}

LockInv == TypeInv /\ \A w \in Workers : LocksOf(w)

-----------------------------------------------------------------------------
(* Deadlocks *)

\* A transaction that has a job row locked has recovered, claimed or is closing the job.
LEMMA HeldJobs ==
  ASSUME LockInv, NEW w \in Workers, NEW r \in JobRows, r \in Held(w)
  PROVE  r \in touched[w] \cup batch[w] /\ pc[w] \in {"recovering", "admitting", "closing"}
<1>1. LocksOf(w)
  BY DEF LockInv
<1>2. CASE pc[w] = "recovering"
  BY <1>1, <1>2 DEF LocksOf, RecoveryLocks
<1>3. CASE pc[w] = "admitting"
  <2>1. ~ Child(w, r)
    BY <1>3, RowFacts DEF Child, LockInv, TypeInv, TypeOK
  <2>2. r # Ledger
    BY RowFacts
  <2>3. QED
    BY <1>1, <1>3, <2>1, <2>2 DEF LocksOf, AdmissionLocks
<1>4. CASE pc[w] = "closing"
  <2>1. PICK q \in JobRows : touched[w] = {q} /\ <<todo[w], Held(w)>> \in Progress(q)
    BY <1>1, <1>4 DEF LocksOf, ClosingLocks
  <2>2. Held(w) \subseteq {InteractionRow(q[2]), Ledger, q}
    BY <2>1 DEF Progress
  <2>3. r = q
    BY <2>2, RowFacts
  <2>4. QED
    BY <1>4, <2>1, <2>3
<1>5. QED
  BY <1>1, <1>2, <1>3, <1>4 DEF LocksOf

\* A transaction that holds the ledger and waits is closing a job, and waits for its row.
LEMMA LedgerHolder ==
  ASSUME LockInv, NEW w \in Workers, Ledger \in Held(w), todo[w] # <<>>
  PROVE  pc[w] = "closing" /\ Head(todo[w]) \in touched[w]
<1>1. LocksOf(w)
  BY DEF LockInv
<1>2. CASE pc[w] = "recovering"
  <2>1. Ledger \in JobRows
    BY <1>1, <1>2 DEF LocksOf, RecoveryLocks, LockInv, TypeInv, TypeOK
  <2>2. QED
    BY <2>1, RowFacts
<1>3. CASE pc[w] = "admitting"
  <2>1. ~ Child(w, Ledger) /\ Ledger \notin touched[w] \cup batch[w]
    BY RowFacts DEF Child, LockInv, TypeInv, TypeOK
  <2>2. QED
    BY <1>1, <1>3, <2>1 DEF LocksOf, AdmissionLocks
<1>4. CASE pc[w] = "closing"
  <2>1. PICK q \in JobRows : touched[w] = {q} /\ <<todo[w], Held(w)>> \in Progress(q)
    BY <1>1, <1>4 DEF LocksOf, ClosingLocks
  <2>2. InteractionRow(q[2]) # Ledger /\ q # Ledger
    BY <2>1, RowFacts
  <2>3. todo[w] = <<q>>
    BY <2>1, <2>2 DEF Progress
  <2>4. QED
    BY <1>4, <2>1, <2>3
<1>5. QED
  BY <1>1, <1>2, <1>3, <1>4 DEF LocksOf

\* A transaction that holds the row of an interaction and does not close a job is the
\* orchestrator's, and the interaction belongs to its batch.
LEMMA InteractionHolder ==
  ASSUME LockInv, NEW w \in Workers, NEW i \in Interactions, InteractionRow(i) \in Held(w),
         pc[w] # "closing"
  PROVE  pc[w] = "admitting" /\ <<"orchestrate", i>> \in batch[w]
<1> DEFINE r == InteractionRow(i)
<1>1. LocksOf(w)
  BY DEF LockInv
<1>2. r \notin touched[w] \cup batch[w] /\ r # Ledger
  BY RowFacts DEF LockInv, TypeInv, TypeOK
<1>3. pc[w] = "admitting"
  BY <1>1, <1>2 DEF LocksOf, RecoveryLocks
<1>4. Child(w, r)
  BY <1>1, <1>2, <1>3 DEF LocksOf, AdmissionLocks
<1>5. PICK b \in batch[w] : r = InteractionRow(b[2])
  BY <1>4 DEF Child
<1>6. b \in JobRows /\ b[1] = "orchestrate"
  BY <1>1, <1>3, <1>4 DEF LocksOf, AdmissionLocks, Child, KindOf, LockInv, TypeInv, TypeOK
<1>7. b[2] = i /\ b = <<b[1], b[2]>>
  BY <1>5, <1>6, RowFacts
<1>8. QED
  BY <1>3, <1>6, <1>7

\* What a transaction can be waiting for.
LEMMA WaitsFor ==
  ASSUME LockInv, NEW w \in Workers, todo[w] # <<>>
  PROVE  /\ pc[w] \in {"recovering", "admitting", "closing"} /\ 1 \in DOMAIN todo[w]
         /\ pc[w] = "recovering" => Head(todo[w]) \in touched[w]
         /\ pc[w] = "admitting" => Head(todo[w]) = Ledger \/ Child(w, Head(todo[w]))
         /\ pc[w] = "closing" => \/ Head(todo[w]) \in touched[w] \cup {Ledger}
                                \/ \E i \in Interactions : Head(todo[w]) = InteractionRow(i)
<1>1. LocksOf(w) /\ todo[w] \in Seq(Rows)
  BY DEF LockInv, TypeInv, TypeOK
<1>2. Head(todo[w]) = todo[w][1] /\ 1 \in DOMAIN todo[w]
  BY <1>1, TailFacts
<1>3. pc[w] \in {"recovering", "admitting", "closing"}
  BY <1>1 DEF LocksOf
<1>4. pc[w] = "recovering" => Head(todo[w]) \in touched[w]
  BY <1>1, <1>2 DEF LocksOf, RecoveryLocks
<1>5. pc[w] = "admitting" => Head(todo[w]) = Ledger \/ Child(w, Head(todo[w]))
  BY <1>1, <1>2 DEF LocksOf, AdmissionLocks
<1>6. ASSUME pc[w] = "closing"
      PROVE  \/ Head(todo[w]) \in touched[w] \cup {Ledger}
             \/ \E i \in Interactions : Head(todo[w]) = InteractionRow(i)
  <2>1. PICK q \in JobRows : touched[w] = {q} /\ <<todo[w], Held(w)>> \in Progress(q)
    BY <1>1, <1>6 DEF LocksOf, ClosingLocks
  <2> DEFINE i == InteractionRow(q[2])
  <2>2. todo[w] \in {<<i, Ledger, q>>, <<Ledger, q>>, <<q>>, <<i, q>>, <<q, i>>, <<i>>}
    BY <2>1 DEF Progress
  <2>3. Head(todo[w]) \in {i, Ledger, q}
    <3> HIDE DEF i
    <3>1. QED
      BY <2>2
  <2>4. q[2] \in Interactions
    BY RowFacts
  <2>5. QED
    BY <2>1, <2>3, <2>4
<1>7. QED
  BY <1>2, <1>3, <1>4, <1>5, <1>6

\* A transaction that closes a job and waits for the interaction holds nothing, or the job.
LEMMA ClosingForInteraction ==
  ASSUME LockInv, NEW w \in Workers, todo[w] # <<>>, pc[w] = "closing",
         Head(todo[w]) \notin touched[w], Head(todo[w]) # Ledger
  PROVE  Held(w) \subseteq touched[w] /\ touched[w] \subseteq JobRows
<1>1. LocksOf(w)
  BY DEF LockInv
<1>2. PICK q \in JobRows : touched[w] = {q} /\ <<todo[w], Held(w)>> \in Progress(q)
  BY <1>1 DEF LocksOf, ClosingLocks
<1> DEFINE i == InteractionRow(q[2])
<1>3. i # Ledger /\ q # Ledger /\ i # q
  BY RowFacts
<1>4. \/ todo[w] \in {<<Ledger, q>>, <<q>>}
      \/ Held(w) \subseteq {q}
  BY <1>2 DEF Progress
<1>5. todo[w] \notin {<<Ledger, q>>, <<q>>}
  BY <1>2
<1>6. QED
  BY <1>2, <1>4, <1>5

\* The least of the naturals in a set.
LEMMA LeastNat ==
  ASSUME NEW N \in SUBSET Nat, N # {}
  PROVE  \E n \in N : \A m \in N : n <= m
<1>1. PICK n \in N : \A m \in N : <<m, n>> \notin OpToRel(<, Nat)
  BY NatLessThanWellFounded, WFMin
<1>2. \A m \in N : ~ (m < n)
  BY <1>1 DEF OpToRel
<1>3. QED
  BY <1>2

\* Transactions that only recover take their rows in the order of the keys and cannot be
\* the whole of a circle.
LEMMA RecoveriesDoNotDeadlock ==
  ASSUME LockInv, NEW S \in SUBSET Workers, Circle(S),
         \A w \in S : pc[w] = "recovering" /\ todo[w] # <<>>
  PROVE  FALSE
<1>1. ASSUME NEW w \in S
      PROVE  /\ Head(todo[w]) \in JobRows /\ holder[Head(todo[w])] # w
             /\ Head(todo[w]) = todo[w][1] /\ 1 \in DOMAIN todo[w]
             /\ LocksOf(w)
  <2>1. Blocker(w) # Nobody
    BY RowLocksAssumption DEF Circle
  <2>2. holder[Head(todo[w])] # w
    BY <2>1 DEF Blocker
  <2>3. Head(todo[w]) \in touched[w] /\ touched[w] \subseteq JobRows
    BY WaitsFor DEF LockInv, TypeInv, TypeOK
  <2>4. todo[w] \in Seq(Rows) /\ LocksOf(w)
    BY DEF LockInv, TypeInv, TypeOK
  <2>5. QED
    BY <2>2, <2>3, <2>4, TailFacts
<1> DEFINE rank(w) == Id[Head(todo[w])]
<1>2. \A w \in S : rank(w) \in Nat
  BY <1>1, RowLocksAssumption
<1>3. PICK v \in S : \A w \in S : rank(v) <= rank(w)
  <2>1. {rank(w) : w \in S} \in SUBSET Nat /\ {rank(w) : w \in S} # {}
    BY <1>2 DEF Circle
  <2>2. PICK n \in {rank(w) : w \in S} : \A m \in {rank(w) : w \in S} : n <= m
    BY <2>1, LeastNat
  <2>3. QED
    BY <2>2
<1>4. PICK u \in S : Blocker(u) = v
  BY DEF Circle
<1>5. Head(todo[u]) \in Held(v)
  <2>1. holder[Head(todo[u])] = v
    BY <1>4, RowLocksAssumption DEF Blocker
  <2>2. QED
    BY <1>1, <2>1, RowFacts DEF Held
<1>6. rank(u) <= rank(v)
  BY <1>1, <1>5 DEF LocksOf, RecoveryLocks
<1>7. rank(u) = rank(v)
  BY <1>2, <1>3, <1>6
<1>8. Head(todo[u]) = Head(todo[v])
  BY <1>1, <1>7, RowLocksAssumption
<1>9. QED
  BY <1>1, <1>5, <1>8 DEF Held

\* In a circle without two workers on one job, nobody waits for anything but a recovery.
LEMMA DeadlockLemma == LockInv => DeadlockIsOverOneJob
<1> SUFFICES ASSUME LockInv, NEW S \in SUBSET Workers, Circle(S),
                    \A v, w \in S : v # w /\ pc[w] = "closing"
                                      => touched[w] \cap (batch[v] \cup touched[v]) = {}
             PROVE  FALSE
  BY DEF DeadlockIsOverOneJob
<1>1. ASSUME NEW v \in S
      PROVE  /\ todo[v] # <<>> /\ Blocker(v) \in S /\ Blocker(v) # v
             /\ Head(todo[v]) \in Held(Blocker(v))
             /\ touched[v] \subseteq JobRows
  <2>1. Blocker(v) \in S /\ Blocker(v) # Nobody
    BY RowLocksAssumption DEF Circle
  <2>2. todo[v] # <<>> /\ holder[Head(todo[v])] = Blocker(v) /\ Blocker(v) # v
    BY <2>1 DEF Blocker
  <2>3. todo[v] \in Seq(Rows) /\ touched[v] \subseteq JobRows
    BY DEF LockInv, TypeInv, TypeOK
  <2>4. Head(todo[v]) \in Rows
    BY <2>2, <2>3
  <2>5. QED
    BY <2>1, <2>2, <2>3, <2>4 DEF Held
<1>2. \A w \in S : \E v \in S : Blocker(v) = w
  BY DEF Circle
<1>3. ASSUME NEW v \in S PROVE pc[v] = "closing" => Head(todo[v]) \notin touched[v]
  <2> SUFFICES ASSUME pc[v] = "closing", Head(todo[v]) \in touched[v] PROVE FALSE
    OBVIOUS
  <2>1. Head(todo[v]) \in JobRows
    BY <1>1
  <2>2. Head(todo[v]) \in touched[Blocker(v)] \cup batch[Blocker(v)]
    BY <1>1, <2>1, HeldJobs
  <2>3. QED
    BY <1>1, <2>2
<1>4. ASSUME NEW v \in S PROVE Head(todo[v]) # Ledger
  <2> SUFFICES ASSUME Head(todo[v]) = Ledger PROVE FALSE
    OBVIOUS
  <2> DEFINE w == Blocker(v)
  <2>1. w \in S /\ Ledger \in Held(w) /\ todo[w] # <<>>
    BY <1>1
  <2>2. pc[w] = "closing" /\ Head(todo[w]) \in touched[w]
    BY <2>1, LedgerHolder
  <2>3. QED
    BY <1>3, <2>1, <2>2
<1>5. ASSUME NEW w \in S PROVE pc[w] # "closing"
  <2> SUFFICES ASSUME pc[w] = "closing" PROVE FALSE
    OBVIOUS
  <2>1. Held(w) \subseteq touched[w] /\ touched[w] \subseteq JobRows
    BY <1>1, <1>3, <1>4, ClosingForInteraction
  <2>2. PICK v \in S : Blocker(v) = w
    BY <1>2
  <2>3. Head(todo[v]) \in touched[w] /\ v # w /\ Head(todo[v]) \in JobRows
    BY <1>1, <2>1, <2>2
  <2>4. ~ Child(v, Head(todo[v]))
    <3>1. \A b \in batch[v] : b[2] \in Interactions
      BY RowFacts DEF LockInv, TypeInv, TypeOK
    <3>2. QED
      BY <2>3, <3>1, RowFacts DEF Child
  <2>5. Head(todo[v]) \in touched[v]
    BY <1>1, <1>4, <2>3, <2>4, WaitsFor, RowFacts
  <2>6. QED
    BY <2>3, <2>5
<1>6. ASSUME NEW v \in S PROVE pc[v] # "admitting"
  <2> SUFFICES ASSUME pc[v] = "admitting" PROVE FALSE
    OBVIOUS
  <2> DEFINE w == Blocker(v)
  <2>1. w \in S /\ w # v /\ Head(todo[v]) \in Held(w) /\ pc[w] # "closing"
    BY <1>1, <1>5
  <2>2. Child(v, Head(todo[v])) /\ LocksOf(v) /\ LocksOf(w)
    BY <1>1, <1>4, WaitsFor DEF LockInv
  <2>3. PICK b \in batch[v] : Head(todo[v]) = InteractionRow(b[2])
    BY <2>2 DEF Child
  <2>4. b \in JobRows /\ b[1] = "orchestrate" /\ b \in Held(v)
    BY <2>2 DEF LocksOf, AdmissionLocks, Child, KindOf, LockInv, TypeInv, TypeOK
  <2>5. b[2] \in Interactions /\ b = <<"orchestrate", b[2]>>
    BY <2>4, RowFacts
  <2>6. pc[w] = "admitting" /\ b \in batch[w]
    BY <2>1, <2>3, <2>5, InteractionHolder
  <2>7. b \in Held(w)
    BY <2>2, <2>6 DEF LocksOf, AdmissionLocks
  <2>8. QED
    BY <2>1, <2>4, <2>7 DEF Held
<1>7. \A w \in S : pc[w] = "recovering" /\ todo[w] # <<>>
  BY <1>1, <1>5, <1>6, WaitsFor
<1>8. QED
  BY <1>7, RecoveriesDoNotDeadlock

-----------------------------------------------------------------------------
(* The invariant *)

LEMMA LocksInit == Init => LockInv
<1> SUFFICES ASSUME Init PROVE LockInv
  OBVIOUS
<1>1. \A w \in Workers : todo[w] = <<>> /\ pc[w] = "idle" /\ Held(w) = {}
  BY RowLocksAssumption DEF Init, Held
<1>2. QED
  BY <1>1, TypeInit DEF LockInv, LocksOf

\* What a transaction holds, and is about to, is its own affair.
LEMMA LocksUntouched ==
  ASSUME NEW v \in Workers, LocksOf(v), pc'[v] = pc[v], todo'[v] = todo[v],
         touched'[v] = touched[v], batch'[v] = batch[v], Held(v)' = Held(v)
  PROVE  LocksOf(v)'
BY DEF LocksOf, RecoveryLocks, AdmissionLocks, ClosingLocks, Child

\* A transaction that gives its rows back.
LEMMA ReleaseHeld ==
  ASSUME TypeOK, NEW w \in Workers, Release(w)
  PROVE  Held(w)' = {} /\ \A v \in Workers : v # w => Held(v)' = Held(v)
BY RowLocksAssumption DEF Release, Held, TypeOK

\* ... has nothing left to say about locks.
LEMMA EndKeepsLocks ==
  ASSUME LockInv, NEW w \in Workers, Release(w), todo'[w] = <<>>,
         pc'[w] \in {"idle", "working"},
         \A v \in Workers : v # w => /\ pc'[v] = pc[v] /\ todo'[v] = todo[v]
                                    /\ touched'[v] = touched[v] /\ batch'[v] = batch[v]
  PROVE  \A v \in Workers : LocksOf(v)'
<1>1. \A v \in Workers : LocksOf(v) /\ (v # w => Held(v)' = Held(v))
  BY ReleaseHeld DEF LockInv, TypeInv
<1>2. LocksOf(w)'
  BY ReleaseHeld DEF LocksOf, LockInv, TypeInv
<1>3. ASSUME NEW v \in Workers, v # w PROVE LocksOf(v)'
  BY <1>1, <1>3, LocksUntouched
<1>4. QED
  BY <1>2, <1>3

\* A transaction that begins has no lock yet; the others keep theirs.
LEMMA RecoverKeepsLocks ==
  ASSUME LockInv, NEW w \in Workers, Recover(w)
  PROVE  \A v \in Workers : LocksOf(v)'
<1> USE DEF LockInv, TypeInv, TypeOK
<1>1. PICK found \in SUBSET JobRows :
        /\ touched' = [touched EXCEPT ![w] = found]
        /\ \E rows \in InIdOrder(found) : todo' = [todo EXCEPT ![w] = rows]
  BY DEF Recover, Found
<1>2. PICK rows \in InIdOrder(found) : todo' = [todo EXCEPT ![w] = rows]
  BY <1>1
<1>3. /\ \A n \in DOMAIN rows : rows[n] \in found
      /\ \A m, n \in DOMAIN rows : m < n => Id[rows[m]] <= Id[rows[n]]
  <2>1. rows \in SetToSeqs(found) /\ IsFiniteSet(found)
    BY TablesFinite DEF InIdOrder
  <2>2. QED
    BY <2>1, EnumerationType DEF InIdOrder
<1>4. LocksOf(w) /\ pc[w] = "idle" /\ batch[w] = {}
  BY DEF Recover
<1>5. \A v \in Workers : Held(v)' = Held(v)
  BY DEF Recover, Held
<1>6. LocksOf(w)'
  <2>1. pc'[w] = "recovering" /\ batch'[w] = {} /\ touched'[w] = found /\ todo'[w] = rows
    BY <1>1, <1>2, <1>4 DEF Recover
  <2>2. Held(w)' = {}
    BY <1>4, <1>5 DEF LocksOf
  <2>3. QED
    BY <1>3, <2>1, <2>2 DEF LocksOf, RecoveryLocks
<1>7. ASSUME NEW v \in Workers, v # w PROVE LocksOf(v)'
  <2>1. pc'[v] = pc[v] /\ todo'[v] = todo[v] /\ touched'[v] = touched[v] /\ batch'[v] = batch[v]
    BY <1>1, <1>2, <1>7 DEF Recover
  <2>2. QED
    BY <1>5, <2>1, LocksUntouched
<1>8. QED
  BY <1>6, <1>7

\* The next row of a transaction.
LEMMA AcquireFacts ==
  ASSUME LockInv, NEW w \in Workers, Acquire(w)
  PROVE  /\ todo[w] # <<>> /\ todo[w] \in Seq(Rows) /\ Head(todo[w]) \in Rows
         /\ todo'[w] = Tail(todo[w])
         /\ Held(w)' = Held(w) \cup {Head(todo[w])}
         /\ \A v \in Workers : v # w => Held(v)' = Held(v) /\ todo'[v] = todo[v]
         /\ UNCHANGED <<pc, touched, batch>>
<1> DEFINE r == Head(todo[w])
<1>1. todo[w] # <<>> /\ todo[w] \in Seq(Rows) /\ holder[r] \in {w, Nobody}
  BY DEF Acquire, Blocker, LockInv, TypeInv, TypeOK
<1>2. r \in Rows
  BY <1>1, TailFacts
<1>3. holder' = [holder EXCEPT ![r] = w] /\ todo' = [todo EXCEPT ![w] = Tail(@)]
      /\ UNCHANGED <<pc, touched, batch>>
  BY DEF Acquire
<1> HIDE DEF r
<1>4. \A q \in Rows : holder'[q] = IF q = r THEN w ELSE holder[q]
  BY <1>2, <1>3 DEF LockInv, TypeInv, TypeOK
<1>5. Held(w)' = Held(w) \cup {r}
  BY <1>2, <1>4 DEF Held
<1>6. \A v \in Workers : v # w => Held(v)' = Held(v)
  BY <1>1, <1>4, RowLocksAssumption DEF Held
<1>7. \A v \in Workers : todo'[v] = IF v = w THEN Tail(todo[w]) ELSE todo[v]
  BY <1>3 DEF LockInv, TypeInv, TypeOK
<1>8. QED
  BY <1>1, <1>2, <1>3, <1>5, <1>6, <1>7 DEF r

\* One row further on in each kind of transaction.
LEMMA AcquireKeepsLocks ==
  ASSUME LockInv, NEW w \in Workers, Acquire(w)
  PROVE  \A v \in Workers : LocksOf(v)'
<1> DEFINE r == Head(todo[w])
<1>1. LocksOf(w)
  BY DEF LockInv
<1>2. /\ todo[w] # <<>> /\ todo[w] \in Seq(Rows) /\ todo'[w] = Tail(todo[w])
      /\ Held(w)' = Held(w) \cup {r} /\ r = todo[w][1] /\ 1 \in DOMAIN todo[w]
      /\ pc'[w] = pc[w] /\ touched'[w] = touched[w] /\ batch'[w] = batch[w]
  BY AcquireFacts, TailFacts
<1>3. \A n \in DOMAIN todo'[w] : n + 1 \in DOMAIN todo[w] /\ n \in Nat \ {0}
                               /\ todo'[w][n] = todo[w][n + 1]
  BY <1>2, TailFacts
<1> HIDE DEF r
<1>4. ASSUME pc[w] = "recovering" PROVE LocksOf(w)'
  <2>1. RecoveryLocks(w)
    BY <1>1, <1>4 DEF LocksOf
  <2>2. DOMAIN todo[w] \subseteq Nat /\ \A n \in DOMAIN todo'[w] : 1 < n + 1
    BY <1>2, <1>3
  <2>3. batch'[w] = {} /\ Held(w)' \subseteq touched'[w]
    BY <1>2, <2>1 DEF RecoveryLocks
  <2>4. \A n \in DOMAIN todo'[w] : todo'[w][n] \in touched'[w]
    BY <1>2, <1>3, <2>1 DEF RecoveryLocks
  <2>5. \A m, n \in DOMAIN todo'[w] : m < n => Id[todo'[w][m]] <= Id[todo'[w][n]]
    <3>1. \A m, n \in DOMAIN todo'[w] : m < n => m + 1 < n + 1
      BY <1>3
    <3>2. QED
      BY <1>3, <2>1, <3>1 DEF RecoveryLocks
  <2>6. \A q \in Held(w)', n \in DOMAIN todo'[w] : Id[q] <= Id[todo'[w][n]]
    BY <1>2, <1>3, <2>1, <2>2 DEF RecoveryLocks
  <2>7. RecoveryLocks(w)'
    BY <2>3, <2>4, <2>5, <2>6 DEF RecoveryLocks
  <2>8. QED
    BY <1>2, <1>4, <2>7 DEF LocksOf
<1>5. ASSUME pc[w] = "admitting" PROVE LocksOf(w)'
  <2>1. AdmissionLocks(w)
    BY <1>1, <1>5 DEF LocksOf
  <2>2. ASSUME NEW q, Child(w, q) PROVE Kind[w] = "orchestrate" /\ \E b \in batch'[w] : q = InteractionRow(b[2])
    BY <1>2, <2>2 DEF Child
  <2>3. AdmissionLocks(w)'
    <3>1. CASE todo[w] = <<Ledger>>
      <4>1. todo'[w] = <<>> /\ r = Ledger
        BY <1>2, <3>1
      <4>2. QED
        <5>1. \A q \in Held(w) : \/ q \in touched[w] \cup batch[w]
                                 \/ q = Ledger
                                 \/ Kind[w] = "orchestrate" /\ \E b \in batch[w] : q = InteractionRow(b[2])
          BY <2>1 DEF AdmissionLocks, Child
        <5>2. \A q \in Held(w)' :
                \/ q \in touched'[w] \cup batch'[w]
                \/ q = Ledger /\ todo'[w] = <<>>
                \/ Kind[w] = "orchestrate" /\ \E b \in batch'[w] : q = InteractionRow(b[2])
          BY <1>2, <4>1, <5>1
        <5>3. batch'[w] \subseteq Held(w)' /\ \A b \in batch'[w] : KindOf(b) = Kind[w]
          BY <1>2, <2>1 DEF AdmissionLocks
        <5>4. DOMAIN todo'[w] = {}
          BY <4>1
        <5>5. QED
          BY <5>2, <5>3, <5>4 DEF AdmissionLocks, Child
    <3>2. CASE todo[w] # <<Ledger>>
      <4>1. \A n \in DOMAIN todo[w] : Child(w, todo[w][n])
        BY <2>1, <3>2 DEF AdmissionLocks
      <4>2. \A n \in DOMAIN todo'[w] :
              Kind[w] = "orchestrate" /\ \E b \in batch'[w] : todo'[w][n] = InteractionRow(b[2])
        BY <1>3, <2>2, <4>1
      <4>3. Child(w, r)
        BY <1>2, <4>1
      <4>4. \A q \in Held(w)' :
              \/ q \in touched'[w] \cup batch'[w]
              \/ Kind[w] = "orchestrate" /\ \E b \in batch'[w] : q = InteractionRow(b[2])
        <5>1. \A q \in Held(w) : q \in touched[w] \cup batch[w] \/ Child(w, q)
          BY <1>2, <2>1 DEF AdmissionLocks
        <5>2. QED
          BY <1>2, <2>2, <4>3, <5>1
      <4>5. batch'[w] \subseteq Held(w)' /\ \A b \in batch'[w] : KindOf(b) = Kind[w]
        BY <1>2, <2>1 DEF AdmissionLocks
      <4>6. QED
        BY <4>2, <4>4, <4>5 DEF AdmissionLocks, Child
    <3>3. QED
      BY <3>1, <3>2
  <2>4. QED
    BY <1>2, <1>5, <2>3 DEF LocksOf
<1>6. ASSUME pc[w] = "closing" PROVE LocksOf(w)'
  <2>1. PICK q \in JobRows : touched[w] = {q} /\ <<todo[w], Held(w)>> \in Progress(q)
    BY <1>1, <1>6 DEF LocksOf, ClosingLocks
  <2>2. <<todo'[w], Held(w)'>> \in Progress(q)
    <3> DEFINE i == InteractionRow(q[2])
    <3>1. <<todo[w], Held(w)>> \in
            {<< <<i, Ledger, q>>, {} >>, << <<Ledger, q>>, {i} >>, << <<q>>, {i, Ledger} >>,
             << <<i, q>>, {} >>, << <<q>>, {i} >>, << <<q, i>>, {} >>, << <<i>>, {q} >>,
             << <<q>>, {} >>}
      BY <1>2, <2>1 DEF Progress
    <3> HIDE DEF i
    <3> DEFINE t == todo[w]
               h == Held(w)
    <3>2. t \in Seq(Rows) /\ t # <<>> /\ <<todo'[w], Held(w)'>> = <<Tail(t), h \cup {t[1]}>>
      BY <1>2
    <3>3. /\ Tail(<<i, Ledger, q>>) = <<Ledger, q>> /\ <<i, Ledger, q>>[1] = i
          /\ Tail(<<Ledger, q>>) = <<q>> /\ <<Ledger, q>>[1] = Ledger
          /\ Tail(<<i, q>>) = <<q>> /\ <<i, q>>[1] = i
          /\ Tail(<<q, i>>) = <<i>> /\ <<q, i>>[1] = q
          /\ Tail(<<q>>) = <<>> /\ <<q>>[1] = q
          /\ Tail(<<i>>) = <<>> /\ <<i>>[1] = i
      BY TupleTail
    <3> HIDE DEF t, h
    <3>4. <<Tail(t), h \cup {t[1]}>> \in
            {<< <<Ledger, q>>, {i} >>, << <<q>>, {i, Ledger} >>, << <<>>, {i, Ledger, q} >>,
             << <<q>>, {i} >>, << <<>>, {i, q} >>, << <<i>>, {q} >>, << <<>>, {q} >>}
      <4>1. \/ t = <<i, Ledger, q>> /\ h = {}
            \/ t = <<Ledger, q>> /\ h = {i}
            \/ t = <<q>> /\ h = {i, Ledger}
            \/ t = <<i, q>> /\ h = {}
            \/ t = <<q>> /\ h = {i}
            \/ t = <<q, i>> /\ h = {}
            \/ t = <<i>> /\ h = {q}
            \/ t = <<q>> /\ h = {}
        BY <3>1 DEF t, h
      <4>2. QED
        BY <3>3, <4>1
    <3>5. QED
      BY <3>2, <3>4 DEF Progress, i
  <2>3. QED
    BY <1>2, <1>6, <2>1, <2>2 DEF LocksOf, ClosingLocks
<1>7. pc[w] \in {"recovering", "admitting", "closing"}
  BY <1>2, WaitsFor
<1>8. ASSUME NEW v \in Workers, v # w PROVE LocksOf(v)'
  BY <1>2, <1>8, AcquireFacts, LocksUntouched DEF LockInv
<1>9. QED
  BY <1>4, <1>5, <1>6, <1>7, <1>8

\* The claim query locks its batch and says what the transaction locks next.
LEMMA ClaimKeepsLocks ==
  ASSUME LockInv, NEW w \in Workers, Claim(w)
  PROVE  \A v \in Workers : LocksOf(v)'
<1> USE DEF LockInv, TypeInv, TypeOK
<1>1. PICK S \in SUBSET Claimable(w) :
        /\ batch' = [batch EXCEPT ![w] = S]
        /\ holder' = [r \in Rows |-> IF r \in S THEN w ELSE holder[r]]
        /\ \E rows \in Following(w, S) : todo' = [todo EXCEPT ![w] = rows]
  BY DEF Claim
<1>2. PICK rows \in Following(w, S) : todo' = [todo EXCEPT ![w] = rows]
  BY <1>1
<1>3. Held(w) \subseteq touched[w]
  BY DEF Claim, LocksOf, RecoveryLocks
<1>4. S \subseteq JobRows /\ \A r \in S : KindOf(r) = Kind[w] /\ holder[r] \in {w, Nobody}
  BY DEF Claimable
<1>5. Held(w)' = Held(w) \cup S /\ \A v \in Workers : v # w => Held(v)' = Held(v)
  <2>1. S \subseteq Rows
    BY <1>4, RowFacts
  <2>2. QED
    BY <1>1, <1>4, <2>1, RowLocksAssumption DEF Held
<1>6. /\ pc'[w] = "admitting" /\ batch'[w] = S /\ todo'[w] = rows /\ touched'[w] = touched[w]
  BY <1>1, <1>2 DEF Claim
<1>7. \/ rows = <<Ledger>>
      \/ \A n \in DOMAIN rows :
           Kind[w] = "orchestrate" /\ \E b \in S : rows[n] = InteractionRow(b[2])
  <2> DEFINE T == {InteractionRow(b[2]) : b \in S}
  <2>1. CASE Kind[w] = "orchestrate"
    <3>1. rows \in SetToSeqs(T)
      BY <2>1 DEF Following
    <3>2. T \subseteq {InteractionRow(i) : i \in Interactions}
      BY <1>4, RowFacts
    <3>3. \A n \in DOMAIN rows : rows[n] \in T
      <4>1. IsFiniteSet(T)
        BY <3>2, TablesFinite
      <4> HIDE DEF T
      <4>2. QED
        BY <3>1, <4>1, EnumerationType
    <3>4. QED
      BY <2>1, <3>3
  <2>2. CASE Kind[w] # "orchestrate"
    BY <2>2 DEF Following
  <2>3. QED
    BY <2>1, <2>2
<1>8. LocksOf(w)'
  <2>1. S \subseteq Held(w)' /\ \A b \in S : KindOf(b) = Kind[w]
    BY <1>4, <1>5
  <2>2. \A r \in Held(w)' : r \in touched[w] \cup S
    BY <1>3, <1>5
  <2>3. AdmissionLocks(w)'
    BY <1>6, <1>7, <2>1, <2>2 DEF AdmissionLocks, Child
  <2>4. QED
    BY <1>6, <2>3 DEF LocksOf
<1>9. ASSUME NEW v \in Workers, v # w PROVE LocksOf(v)'
  <2>1. pc'[v] = pc[v] /\ todo'[v] = todo[v] /\ touched'[v] = touched[v] /\ batch'[v] = batch[v]
    BY <1>1, <1>2, <1>9 DEF Claim
  <2>2. QED
    BY <1>5, <1>9, <2>1, LocksUntouched
<1>10. QED
  BY <1>8, <1>9

\* A worker takes up the rows of the job it closes, with nothing locked.
LEMMA BeginClosingKeepsLocks ==
  ASSUME LockInv, NEW w \in Workers, BeginClosing(w)
  PROVE  \A v \in Workers : LocksOf(v)'
<1> USE DEF LockInv, TypeInv, TypeOK
<1>1. PICK r \in batch[w], succeeds \in BOOLEAN :
        /\ \E rows \in Program(w, r, succeeds) : todo' = [todo EXCEPT ![w] = rows]
        /\ touched' = [touched EXCEPT ![w] = {r}]
        /\ batch' = [batch EXCEPT ![w] = @ \ {r}]
  BY DEF BeginClosing
<1>2. PICK rows \in Program(w, r, succeeds) : todo' = [todo EXCEPT ![w] = rows]
  BY <1>1
<1>3. pc' = [pc EXCEPT ![w] = "closing"] /\ pc[w] = "working" /\ holder' = holder
  BY DEF BeginClosing
<1>4. Held(w) = {} /\ \A v \in Workers : Held(v)' = Held(v)
  BY <1>3 DEF LocksOf, Held
<1>5. LocksOf(w)'
  <2>1. <<rows, {}>> \in Progress(r)
    BY DEF Program, Progress
  <2>2. r \in JobRows /\ touched'[w] = {r} /\ todo'[w] = rows /\ pc'[w] = "closing"
        /\ Held(w)' = {}
    BY <1>1, <1>2, <1>3, <1>4
  <2>3. QED
    BY <2>1, <2>2 DEF LocksOf, ClosingLocks
<1>6. ASSUME NEW v \in Workers, v # w PROVE LocksOf(v)'
  <2>1. pc'[v] = pc[v] /\ todo'[v] = todo[v] /\ touched'[v] = touched[v] /\ batch'[v] = batch[v]
    BY <1>1, <1>2, <1>3, <1>6
  <2>2. QED
    BY <1>4, <2>1, LocksUntouched
<1>7. QED
  BY <1>5, <1>6

\* A dropped success locks nothing.
LEMMA SkipKeepsLocks ==
  ASSUME LockInv, NEW w \in Workers, Skip(w)
  PROVE  \A v \in Workers : LocksOf(v)'
<1> USE DEF LockInv, TypeInv, TypeOK
<1>1. pc[w] = "working" /\ pc'[w] \in {"idle", "working"} /\ UNCHANGED <<holder, todo, touched>>
  BY DEF Skip
<1>2. \A v \in Workers : Held(v)' = Held(v)
  BY <1>1 DEF Held
<1>3. LocksOf(w)'
  BY <1>1, <1>2 DEF LocksOf
<1>4. ASSUME NEW v \in Workers, v # w PROVE LocksOf(v)'
  <2>1. pc'[v] = pc[v] /\ todo'[v] = todo[v] /\ touched'[v] = touched[v] /\ batch'[v] = batch[v]
    BY <1>1, <1>4 DEF Skip
  <2>2. QED
    BY <1>2, <2>1, LocksUntouched
<1>5. QED
  BY <1>3, <1>4

LEMMA LocksNext == LockInv /\ [Next]_vars => LockInv'
<1> SUFFICES ASSUME LockInv, [Next]_vars PROVE \A v \in Workers : LocksOf(v)'
  BY ResultNext DEF LockInv
<1> USE DEF envVars
<1>0. TypeOK
  BY DEF LockInv, TypeInv
<1>1. ASSUME NEW w \in Workers, CommitClaim(w) \/ CommitOrchestration(w)
      PROVE  \A v \in Workers : LocksOf(v)'
  <2>1. Release(w) /\ pc'[w] \in {"idle", "working"} /\ todo'[w] = <<>>
    BY <1>0, <1>1 DEF CommitClaim, CommitOrchestration, TypeOK
  <2>2. \A v \in Workers : v # w => /\ pc'[v] = pc[v] /\ todo'[v] = todo[v]
                                   /\ touched'[v] = touched[v] /\ batch'[v] = batch[v]
    BY <1>0, <1>1 DEF CommitClaim, CommitOrchestration, TypeOK
  <2>3. QED
    BY <2>1, <2>2, EndKeepsLocks
<1>2. ASSUME NEW w \in Workers, CommitClosing(w) PROVE \A v \in Workers : LocksOf(v)'
  <2>1. Release(w) /\ pc'[w] \in {"idle", "working"} /\ todo'[w] = <<>>
    BY <1>0, <1>2 DEF CommitClosing, TypeOK
  <2>2. \A v \in Workers : v # w => /\ pc'[v] = pc[v] /\ todo'[v] = todo[v]
                                   /\ touched'[v] = touched[v] /\ batch'[v] = batch[v]
    BY <1>0, <1>2 DEF CommitClosing, TypeOK
  <2>3. QED
    BY <2>1, <2>2, EndKeepsLocks
<1>3. ASSUME NEW w \in Workers, Abort(w) \/ Crash(w) PROVE \A v \in Workers : LocksOf(v)'
  <2>1. Release(w) /\ pc'[w] \in {"idle", "working"} /\ todo'[w] = <<>>
    BY <1>0, <1>3 DEF Abort, Crash, EndTick, TypeOK
  <2>2. \A v \in Workers : v # w => /\ pc'[v] = pc[v] /\ todo'[v] = todo[v]
                                   /\ touched'[v] = touched[v] /\ batch'[v] = batch[v]
    BY <1>0, <1>3 DEF Abort, Crash, EndTick, TypeOK
  <2>3. QED
    BY <2>1, <2>2, EndKeepsLocks
<1>4. ASSUME UNCHANGED <<holder, pc, todo, touched, batch>>
      PROVE  \A v \in Workers : LocksOf(v)'
  <2>1. \A v \in Workers : LocksOf(v) /\ Held(v)' = Held(v)
    BY <1>4 DEF LockInv, Held
  <2>2. QED
    BY <1>4, <2>1, LocksUntouched
<1>5. ASSUME NEW r \in JobRows, Overrun(r) \/ Expire(r) PROVE \A v \in Workers : LocksOf(v)'
  BY <1>4, <1>5 DEF Overrun, Expire
<1>6. CASE UNCHANGED vars
  BY <1>4, <1>6 DEF vars
<1>7. QED
  BY <1>1, <1>2, <1>3, <1>5, <1>6, RecoverKeepsLocks, AcquireKeepsLocks, ClaimKeepsLocks,
     BeginClosingKeepsLocks, SkipKeepsLocks DEF Next, AllOver, TransactionStep, WorkStep

\* Whoever crashes or outlives its lock, and in whatever order tables are flushed: a circle
\* of waiting transactions is over a job that two workers have, one of them closing it.
THEOREM DeadlocksAreOverOneJob == Spec => []DeadlockIsOverOneJob
BY LocksInit, LocksNext, DeadlockLemma, PTL DEF Spec

-----------------------------------------------------------------------------
(* Safe deployments *)

\* One worker recovers stale locks, and no batch outlives its own.
SafeLocks == MaxOverruns = 0 /\ \E v \in Workers : Recoverers \subseteq {v}

\* The job rows that a worker's claim has found or taken; those of the jobs it works on.
ClaimRows(w) ==
  /\ \A r \in touched[w] : job[r] = "stale" /\ w \in Recoverers
  /\ \A r \in batch[w] : job[r] = "ready" \/ r \in touched[w]

\* Who works on a job is alone with it, and its row says so.
WorkInv ==
  /\ LockInv /\ overruns = 0
  /\ \A w \in Workers, r \in JobRows : AtWorkOn(w, r) => job[r] = "running"
  /\ \A v, w \in Workers, r \in JobRows : AtWorkOn(v, r) /\ AtWorkOn(w, r) => v = w
  /\ \A w \in Workers : /\ pc[w] = "idle" => batch[w] = {} /\ touched[w] = {}
                        /\ pc[w] = "working" => touched[w] = {}
                        /\ pc[w] = "closing" => touched[w] \cap batch[w] = {}
                        /\ pc[w] \in {"recovering", "admitting"} => ClaimRows(w)

LEMMA WorkInit == Init => WorkInv
<1> SUFFICES ASSUME Init PROVE WorkInv
  OBVIOUS
<1>1. \A w \in Workers : pc[w] = "idle" /\ batch[w] = {} /\ touched[w] = {}
  BY DEF Init
<1>2. \A w \in Workers, r \in JobRows : ~ AtWorkOn(w, r)
  BY <1>1 DEF AtWorkOn
<1>3. overruns = 0
  BY DEF Init
<1>4. QED
  BY <1>1, <1>2, <1>3, LocksInit DEF WorkInv

\* Where each job has one worker there is no circle.
LEMMA WorkAlone == WorkInv => \A S \in SUBSET Workers : ~ Circle(S)
<1> SUFFICES ASSUME WorkInv, NEW S \in SUBSET Workers, Circle(S) PROVE FALSE
  OBVIOUS
<1>1. PICK v, w \in S : v # w /\ pc[w] = "closing" /\ touched[w] \cap (batch[v] \cup touched[v]) # {}
  BY DeadlockLemma DEF WorkInv, DeadlockIsOverOneJob
<1>2. PICK r : r \in touched[w] /\ r \in batch[v] \cup touched[v]
  BY <1>1
<1>3. r \in JobRows /\ AtWorkOn(w, r) /\ pc[v] \in {"idle", "recovering", "admitting", "working", "closing"}
  BY <1>1, <1>2 DEF AtWorkOn, WorkInv, LockInv, TypeInv, TypeOK
<1>4. job[r] = "running" /\ ~ AtWorkOn(v, r)
  BY <1>1, <1>3 DEF WorkInv
<1>5. pc[v] \in {"recovering", "admitting"}
  BY <1>2, <1>3, <1>4 DEF WorkInv, AtWorkOn
<1>6. job[r] \in {"stale", "ready"}
  BY <1>2, <1>5 DEF WorkInv, ClaimRows
<1>7. QED
  BY <1>4, <1>6

\* The rows of two claims: a stale row is found by the one recoverer, a ready one locked by
\* whoever claims it.
LEMMA ClaimsApart ==
  ASSUME SafeLocks, WorkInv, NEW v \in Workers, NEW w \in Workers, v # w,
         pc[w] = "admitting", pc[v] \in {"recovering", "admitting"}
  PROVE  (touched[v] \cup batch[v]) \cap (touched[w] \cup batch[w]) = {}
<1>1. ClaimRows(v) /\ ClaimRows(w) /\ LocksOf(v) /\ LocksOf(w)
  BY DEF WorkInv, LockInv
<1>2. touched[v] = {} \/ touched[w] = {}
  BY <1>1 DEF ClaimRows, SafeLocks
<1>3. batch[v] \cap batch[w] = {}
  <2>1. CASE pc[v] = "recovering"
    BY <1>1, <2>1 DEF LocksOf, RecoveryLocks
  <2>2. CASE pc[v] = "admitting"
    BY <1>1, <2>2 DEF LocksOf, AdmissionLocks, Held
  <2>3. QED
    BY <2>1, <2>2
<1>4. QED
  BY <1>1, <1>2, <1>3 DEF ClaimRows

\* A step of w that changes none of the rows others have, and leaves w in order.
LEMMA OthersAtWork ==
  ASSUME WorkInv, LockInv', overruns' = 0, NEW w \in Workers,
         \A v \in Workers : v # w => /\ pc'[v] = pc[v] /\ touched'[v] = touched[v]
                                    /\ batch'[v] = batch[v],
         \A v \in Workers, r \in JobRows :
           v # w /\ r \in touched[v] \cup batch[v] => job'[r] = job[r],
         \A r \in JobRows : AtWorkOn(w, r)' => job'[r] = "running"
                                            /\ \A v \in Workers : v # w => ~ AtWorkOn(v, r),
         pc'[w] = "idle" => batch'[w] = {} /\ touched'[w] = {},
         pc'[w] = "working" => touched'[w] = {},
         pc'[w] = "closing" => touched'[w] \cap batch'[w] = {},
         pc'[w] \in {"recovering", "admitting"} => ClaimRows(w)'
  PROVE  WorkInv'
<1>1. \A v \in Workers, r \in JobRows : v # w => (AtWorkOn(v, r)' <=> AtWorkOn(v, r))
  BY DEF AtWorkOn
<1>2. ASSUME NEW v \in Workers, NEW r \in JobRows, AtWorkOn(v, r)' PROVE job'[r] = "running"
  <2>1. CASE v = w
    BY <1>2, <2>1
  <2>2. CASE v # w
    BY <1>1, <1>2, <2>2 DEF AtWorkOn, WorkInv
  <2>3. QED
    BY <2>1, <2>2
<1>3. ASSUME NEW u \in Workers, NEW v \in Workers, NEW r \in JobRows,
             AtWorkOn(u, r)', AtWorkOn(v, r)'
      PROVE  u = v
  BY <1>1, <1>3 DEF WorkInv
<1>4. ASSUME NEW v \in Workers, v # w, pc'[v] \in {"recovering", "admitting"}
      PROVE  ClaimRows(v)'
  <2>1. ClaimRows(v) /\ touched[v] \subseteq JobRows /\ batch[v] \subseteq JobRows
    BY <1>4 DEF WorkInv, LockInv, TypeInv, TypeOK
  <2>2. QED
    BY <1>4, <2>1 DEF ClaimRows
<1>5. ASSUME NEW v \in Workers
      PROVE  /\ pc'[v] = "idle" => batch'[v] = {} /\ touched'[v] = {}
             /\ pc'[v] = "working" => touched'[v] = {}
             /\ pc'[v] = "closing" => touched'[v] \cap batch'[v] = {}
             /\ pc'[v] \in {"recovering", "admitting"} => ClaimRows(v)'
  BY <1>4 DEF WorkInv
<1>6. QED
  BY <1>2, <1>3, <1>5 DEF WorkInv

\* Only Overrun counts overruns, and a safe deployment has none.
LEMMA NoOverruns == SafeLocks /\ WorkInv /\ [Next]_vars => overruns' = 0
<1> SUFFICES ASSUME SafeLocks, WorkInv, [Next]_vars PROVE overruns' = 0
  OBVIOUS
<1>1. overruns = 0 /\ MaxOverruns = 0
  BY DEF WorkInv, SafeLocks
<1>2. \A r \in JobRows : ~ Overrun(r)
  BY <1>1 DEF Overrun
<1>3. ASSUME NEW w \in Workers, Recover(w) \/ TransactionStep(w) \/ WorkStep(w)
      PROVE  overruns' = overruns
  BY <1>3 DEF Recover, TransactionStep, WorkStep, Acquire, Claim, CommitClaim,
              CommitOrchestration, CommitClosing, BeginClosing, Skip, envVars
<1>4. QED
  BY <1>1, <1>2, <1>3 DEF Next, AllOver, vars, envVars, Abort, Crash, Expire

\* The claim is over: its jobs are the worker's own, or nobody's.
LEMMA CommitKeepsWork ==
  ASSUME SafeLocks, WorkInv, LockInv', overruns' = 0, NEW w \in Workers,
         CommitClaim(w) \/ CommitOrchestration(w)
  PROVE  WorkInv'
<1> USE DEF LockInv, TypeInv, TypeOK
<1>1. pc[w] = "admitting" /\ ClaimRows(w) /\ LockInv
  BY DEF WorkInv, CommitClaim, CommitOrchestration
<1>2. \A v \in Workers : v # w => /\ pc'[v] = pc[v] /\ touched'[v] = touched[v]
                                 /\ batch'[v] = batch[v]
  BY <1>1 DEF CommitClaim, CommitOrchestration
<1>3. /\ touched'[w] = {} /\ pc'[w] \in {"idle", "working"} /\ batch'[w] \subseteq batch[w]
      /\ pc'[w] = "idle" => batch'[w] = {}
      /\ \A r \in batch'[w] : job'[r] = "running"
      /\ \A r \in JobRows : r \notin touched[w] \cup batch[w] /\ job[r] # "absent" => job'[r] = job[r]
  <2>1. CASE CommitClaim(w)
    <3>1. PICK admitted \in IF Kind[w] = "llm" THEN SUBSET batch[w] ELSE {batch[w]} :
            /\ job' = [r \in JobRows |-> IF r \in admitted THEN "running"
                                         ELSE IF r \in touched[w] \cup batch[w] THEN "ready"
                                         ELSE job[r]]
            /\ batch' = [batch EXCEPT ![w] = admitted]
            /\ pc' = [pc EXCEPT ![w] = IF admitted = {} THEN "idle" ELSE "working"]
      BY <2>1 DEF CommitClaim
    <3> admitted \subseteq batch[w]
      OBVIOUS
    <3>2. touched'[w] = {}
      BY <2>1 DEF CommitClaim
    <3>3. batch'[w] = admitted /\ admitted \subseteq JobRows
          /\ pc'[w] = IF admitted = {} THEN "idle" ELSE "working"
      BY <3>1
    <3>4. \A r \in JobRows : job'[r] = IF r \in admitted THEN "running"
                                      ELSE IF r \in touched[w] \cup batch[w] THEN "ready" ELSE job[r]
      BY <3>1
    <3>5. QED
      BY <3>2, <3>3, <3>4
  <2>2. CASE CommitOrchestration(w)
    BY <2>2 DEF CommitOrchestration
  <2>3. QED
    BY <2>1, <2>2, <1>1 DEF CommitClaim, CommitOrchestration
<1>4. ASSUME NEW v \in Workers, NEW r \in JobRows, v # w, r \in touched[v] \cup batch[v]
      PROVE  r \notin touched[w] \cup batch[w] /\ job[r] # "absent"
  <2>1. CASE pc[v] \in {"recovering", "admitting"}
    BY <1>1, <1>4, <2>1, ClaimsApart DEF WorkInv, ClaimRows
  <2>2. CASE pc[v] \in {"working", "closing"}
    <3>1. AtWorkOn(v, r)
      BY <1>4, <2>2 DEF AtWorkOn
    <3>2. job[r] = "running"
      BY <3>1 DEF WorkInv
    <3>3. QED
      BY <1>1, <3>2 DEF ClaimRows
  <2>3. CASE pc[v] = "idle"
    BY <1>4, <2>3 DEF WorkInv
  <2>4. QED
    BY <1>1, <2>1, <2>2, <2>3
<1>5. ASSUME NEW r \in JobRows, AtWorkOn(w, r)'
      PROVE  job'[r] = "running" /\ \A v \in Workers : v # w => ~ AtWorkOn(v, r)
  <2>1. r \in batch'[w]
    BY <1>3, <1>5 DEF AtWorkOn
  <2>2. QED
    BY <1>3, <1>4, <2>1 DEF AtWorkOn
<1>6. \A v \in Workers, r \in JobRows :
        v # w /\ r \in touched[v] \cup batch[v] => job'[r] = job[r]
  BY <1>3, <1>4
<1>7. QED
  BY <1>2, <1>3, <1>5, <1>6, OthersAtWork

\* A closed job is nobody's.
LEMMA CloseKeepsWork ==
  ASSUME WorkInv, LockInv', overruns' = 0, NEW w \in Workers, CommitClosing(w)
  PROVE  WorkInv'
<1> USE DEF LockInv, TypeInv, TypeOK
<1>1. pc[w] = "closing" /\ LockInv
  BY DEF WorkInv, CommitClosing
<1>2. \A v \in Workers : v # w => /\ pc'[v] = pc[v] /\ touched'[v] = touched[v]
                                 /\ batch'[v] = batch[v]
  BY <1>1 DEF CommitClosing
<1>3. /\ touched'[w] = {} /\ pc'[w] \in {"idle", "working"} /\ batch'[w] = batch[w]
      /\ pc'[w] = "idle" => batch'[w] = {}
      /\ \A r \in JobRows : r \notin touched[w] /\ job[r] # "absent" => job'[r] = job[r]
  BY <1>1 DEF CommitClosing, Follows
<1>4. \A r \in touched[w] \cup batch[w] :
        r \in JobRows /\ AtWorkOn(w, r) /\ job[r] = "running"
  BY <1>1 DEF WorkInv, AtWorkOn
<1>5. ASSUME NEW v \in Workers, NEW r \in JobRows, v # w, r \in touched[v] \cup batch[v]
      PROVE  r \notin touched[w] \cup batch[w] /\ job[r] # "absent"
  <2>1. job[r] # "absent"
    BY <1>1, <1>5 DEF WorkInv, ClaimRows, AtWorkOn
  <2>2. ASSUME r \in touched[w] \cup batch[w] PROVE FALSE
    <3>1. AtWorkOn(w, r) /\ job[r] = "running"
      BY <1>4, <2>2
    <3>2. pc[v] \notin {"working", "closing"}
      BY <1>5, <3>1 DEF AtWorkOn, WorkInv
    <3>3. QED
      BY <1>1, <1>5, <3>1, <3>2 DEF WorkInv, ClaimRows
  <2>3. QED
    BY <2>1, <2>2
<1>6. ASSUME NEW r \in JobRows, AtWorkOn(w, r)'
      PROVE  job'[r] = "running" /\ \A v \in Workers : v # w => ~ AtWorkOn(v, r)
  <2>1. r \in batch[w] /\ r \notin touched[w] /\ job[r] = "running"
    BY <1>1, <1>3, <1>4, <1>6 DEF AtWorkOn, WorkInv
  <2>2. QED
    BY <1>3, <1>4, <1>5, <2>1 DEF AtWorkOn
<1>7. \A v \in Workers, r \in JobRows :
        v # w /\ r \in touched[v] \cup batch[v] => job'[r] = job[r]
  BY <1>3, <1>5
<1>8. QED
  BY <1>2, <1>3, <1>6, <1>7, OthersAtWork

\* A claim begins with stale rows and goes on with ready ones.
LEMMA ClaimKeepsWork ==
  ASSUME WorkInv, LockInv', overruns' = 0, NEW w \in Workers, Recover(w) \/ Claim(w)
  PROVE  WorkInv'
<1> USE DEF LockInv, TypeInv, TypeOK
<1>1. LockInv /\ pc[w] \in {"idle", "recovering"} /\ job' = job
  BY DEF WorkInv, Recover, Claim
<1>2. \A v \in Workers : v # w => /\ pc'[v] = pc[v] /\ touched'[v] = touched[v]
                                 /\ batch'[v] = batch[v]
  BY <1>1 DEF Recover, Claim
<1>3. pc'[w] \in {"recovering", "admitting"} /\ ClaimRows(w)'
  <2>1. CASE Recover(w)
    BY <1>1, <2>1 DEF Recover, Found, ClaimRows
  <2>2. CASE Claim(w)
    <3>1. PICK S \in SUBSET Claimable(w) : batch' = [batch EXCEPT ![w] = S]
      BY <2>2 DEF Claim
    <3>2. ClaimRows(w) /\ touched' = touched /\ pc'[w] = "admitting"
      BY <1>1, <2>2 DEF Claim, WorkInv, ClaimRows
    <3>3. batch'[w] = S /\ \A r \in S : job[r] = "ready" \/ r \in touched[w]
      BY <1>1, <3>1 DEF Claimable
    <3>4. QED
      BY <1>1, <3>2, <3>3 DEF ClaimRows
  <2>3. QED
    BY <2>1, <2>2
<1>4. \A r \in JobRows : ~ AtWorkOn(w, r)'
  BY <1>3 DEF AtWorkOn
<1>5. QED
  BY <1>1, <1>2, <1>3, <1>4, OthersAtWork

\* A worker turns to a job of its batch, or drops one.
LEMMA TurnKeepsWork ==
  ASSUME WorkInv, LockInv', overruns' = 0, NEW w \in Workers, WorkStep(w)
  PROVE  WorkInv'
<1> USE DEF LockInv, TypeInv, TypeOK
<1>1. LockInv /\ pc[w] = "working" /\ job' = job /\ touched[w] = {}
  BY DEF WorkInv, WorkStep, BeginClosing, Skip
<1>2. \A v \in Workers : v # w => /\ pc'[v] = pc[v] /\ touched'[v] = touched[v]
                                 /\ batch'[v] = batch[v]
  BY <1>1 DEF WorkStep, BeginClosing, Skip
<1>3. /\ pc'[w] \in {"idle", "working", "closing"}
      /\ touched'[w] \cup batch'[w] \subseteq batch[w] /\ touched'[w] \cap batch'[w] = {}
      /\ pc'[w] = "idle" => touched'[w] = {} /\ batch'[w] = {}
      /\ pc'[w] = "working" => touched'[w] = {}
  <2>1. CASE BeginClosing(w)
    BY <1>1, <2>1 DEF BeginClosing
  <2>2. CASE Skip(w)
    BY <1>1, <2>2 DEF Skip
  <2>3. QED
    BY <2>1, <2>2 DEF WorkStep
<1>4. \A r \in JobRows : AtWorkOn(w, r)' => AtWorkOn(w, r)
  BY <1>1, <1>3 DEF AtWorkOn
<1>5. \A r \in JobRows : AtWorkOn(w, r)' => job'[r] = "running"
                                          /\ \A v \in Workers : v # w => ~ AtWorkOn(v, r)
  BY <1>1, <1>4 DEF WorkInv
<1>6. QED
  BY <1>1, <1>2, <1>3, <1>5, OthersAtWork

\* A worker that aborts or dies leaves its jobs to the recovery.
LEMMA EndKeepsWork ==
  ASSUME WorkInv, LockInv', overruns' = 0, NEW w \in Workers, EndTick(w), job' = job
  PROVE  WorkInv'
<1> USE DEF LockInv, TypeInv, TypeOK
<1>1. LockInv
  BY DEF WorkInv
<1>2. \A v \in Workers : v # w => /\ pc'[v] = pc[v] /\ touched'[v] = touched[v]
                                 /\ batch'[v] = batch[v]
  BY <1>1 DEF EndTick
<1>3. pc'[w] = "idle" /\ touched'[w] = {} /\ batch'[w] = {}
  BY <1>1 DEF EndTick
<1>4. \A r \in JobRows : ~ AtWorkOn(w, r)'
  BY <1>3 DEF AtWorkOn
<1>5. QED
  BY <1>2, <1>3, <1>4, OthersAtWork

LEMMA WorkNext == SafeLocks /\ WorkInv /\ [Next]_vars => WorkInv'
<1> SUFFICES ASSUME SafeLocks, WorkInv, [Next]_vars PROVE WorkInv'
  OBVIOUS
<1>1. LockInv' /\ overruns' = 0 /\ LockInv
  BY LocksNext, NoOverruns DEF WorkInv
<1>2. ASSUME NEW r \in JobRows, Expire(r) PROVE WorkInv'
  <2>1. /\ UNCHANGED <<pc, touched, batch>> /\ job[r] = "running"
        /\ \A w \in Workers : ~ AtWorkOn(w, r)
        /\ \A q \in JobRows : job'[q] = IF q = r THEN "stale" ELSE job[q]
    BY <1>1, <1>2 DEF Expire, LockInv, TypeInv, TypeOK
  <2>2. \A w \in Workers, q \in JobRows : AtWorkOn(w, q)' <=> AtWorkOn(w, q)
    BY <2>1 DEF AtWorkOn
  <2>3. ASSUME NEW w \in Workers, pc[w] \in {"recovering", "admitting"} PROVE ClaimRows(w)'
    <3>1. ClaimRows(w) /\ touched[w] \subseteq JobRows /\ batch[w] \subseteq JobRows
      BY <1>1, <2>3 DEF WorkInv, LockInv, TypeInv, TypeOK
    <3>2. QED
      BY <2>1, <3>1 DEF ClaimRows
  <2>4. QED
    BY <1>1, <2>1, <2>2, <2>3 DEF WorkInv
<1>3. ASSUME UNCHANGED <<job, pc, touched, batch>> PROVE WorkInv'
  BY <1>1, <1>3 DEF WorkInv, AtWorkOn, ClaimRows
<1>4. ASSUME NEW w \in Workers, Acquire(w) PROVE WorkInv'
  BY <1>3, <1>4 DEF Acquire
<1>5. \A r \in JobRows : ~ Overrun(r)
  BY DEF Overrun, SafeLocks, WorkInv
<1>6. ASSUME NEW w \in Workers, Abort(w) \/ Crash(w) PROVE WorkInv'
  BY <1>1, <1>6, EndKeepsWork DEF Abort, Crash
<1>7. CASE UNCHANGED vars
  BY <1>3, <1>7 DEF vars
<1>8. QED
  BY <1>1, <1>2, <1>4, <1>5, <1>6, <1>7, CommitKeepsWork, CloseKeepsWork, ClaimKeepsWork,
     TurnKeepsWork DEF Next, AllOver, TransactionStep

\* One worker that recovers stale locks and batches that do not outlive theirs: no
\* transaction ever waits in a circle, so Postgres has none to abort.
THEOREM SafeDeploymentsDoNotDeadlock ==
  ASSUME SafeLocks
  PROVE  Spec => [](\A S \in SUBSET Workers : ~ Circle(S))
BY SafeLocks, WorkInit, WorkNext, WorkAlone, PTL DEF Spec
=============================================================================
