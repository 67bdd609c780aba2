----------------------- MODULE OrchestratorBatchProofs -----------------------
(***************************************************************************)
(* The orchestrator's batches, for any number of interactions, workers,    *)
(* attempts and rollbacks: a transaction shared by several jobs charges    *)
(* none of them for another.                                               *)
(***************************************************************************)
EXTENDS OrchestratorBatch, TLAPS

\* A row with every claim accounted for.
Settled(i, r) ==
  /\ r \in Row /\ r.status # "running"
  /\ r.attempts = Worked(r)
  /\ r.status = "dead" => Raises[i] # "never" /\ r.errors = MaxAttempts
  /\ r.status \notin {"succeeded", "dead"} => r.attempts < MaxAttempts
  /\ r.status = "succeeded" <=> "llm" \in r.children
  /\ r.children # {} => r.attempts > 0
  /\ Raises[i] = "early" => r.children = {}

\* A row that a claim has been drafted for, and no outcome yet.
Open(i, r) ==
  /\ r \in Row /\ r.status = "running"
  /\ r.attempts = r.errors + 1 /\ r.attempts <= MaxAttempts
  /\ "llm" \notin r.children
  /\ Raises[i] = "early" => r.children = {}

\* The inductive invariant.
BatchInv ==
  /\ TypeOK /\ BatchesDisjoint
  /\ \A i \in Interactions : Settled(i, rows[i])
  /\ \A w \in Orchestrators : \A i \in Batch(w) :
       IF i \in todo[w] THEN Open(i, draft[w][i]) ELSE Settled(i, draft[w][i])

\* The rows before anything happened.
LEMMA InitBatchInv == Init => BatchInv
<1> SUFFICES ASSUME Init PROVE BatchInv
  OBVIOUS
<1> USE DEF Init
<1>1. \A w \in Orchestrators : draft[w] = NoDraft /\ Batch(w) = {} /\ todo[w] = {}
  BY DEF NoDraft, Batch
<1>2. NewRow \in Row
  BY DEF NewRow, Row, Statuses
<1>3. \A i \in Interactions : rows[i] = NewRow /\ Settled(i, rows[i])
  BY <1>2, OrchestratorBatchAssumption DEF NewRow, Settled, Worked
<1>4. TypeOK
  <2>1. \A w \in Orchestrators : draft[w] \in [Batch(w) -> Row]
    BY <1>1 DEF NoDraft
  <2>2. rows \in [Interactions -> Row] /\ \A i \in Interactions : rows[i].status # "running"
    BY <1>2 DEF NewRow
  <2>3. todo \in [Orchestrators -> SUBSET Interactions] /\ rollbacks \in Nat
    OBVIOUS
  <2>4. DOMAIN draft = Orchestrators
    OBVIOUS
  <2>5. QED
    BY <2>1, <2>2, <2>3, <2>4, <1>1 DEF TypeOK
<1>5. QED
  BY <1>1, <1>3, <1>4 DEF BatchInv, BatchesDisjoint

\* A claim opens a settled row that is ready.
LEMMA TakenIsOpen ==
  ASSUME NEW i \in Interactions, Settled(i, rows[i]), rows[i].status = "ready"
  PROVE  Open(i, Taken(i))
<1>1. rows[i].attempts \in Nat /\ rows[i].errors \in Nat
  BY DEF Settled, Row
<1>2. Taken(i).status = "running" /\ Taken(i).attempts = rows[i].attempts + 1
      /\ Taken(i).errors = rows[i].errors /\ Taken(i).children = rows[i].children
  BY DEF Taken, Settled, Row
<1>3. Taken(i) \in Row
  <2>1. ASSUME NEW n \in Nat
        PROVE  [rows[i] EXCEPT !.status = "running", !.attempts = n] \in Row
    BY DEF Settled, Row, Statuses
  <2>2. rows[i].attempts + 1 \in Nat
    BY <1>1
  <2>3. QED
    BY <2>1, <2>2, Zenon DEF Taken
<1>4. rows[i].attempts = rows[i].errors /\ rows[i].attempts < MaxAttempts
  BY <1>1 DEF Settled, Worked
<1>5. QED
  BY <1>1, <1>2, <1>3, <1>4, OrchestratorBatchAssumption DEF Open, Settled

\* An outcome settles an open row: success,
LEMMA SuccessSettles ==
  ASSUME NEW i \in Interactions, NEW r, Open(i, r), Raises[i] = "never"
  PROVE  Settled(i, [r EXCEPT !.children = Children, !.status = "succeeded"])
<1> DEFINE s == [r EXCEPT !.children = Children, !.status = "succeeded"]
<1>1. s \in Row /\ s.status = "succeeded" /\ s.children = Children
      /\ s.attempts = r.attempts /\ s.errors = r.errors
  BY DEF Open, Row, Statuses, Children
<1>2. r.attempts \in Nat /\ r.errors \in Nat
  BY DEF Open, Row
<1>3. QED
  BY <1>1, <1>2 DEF Open, Settled, Worked, Children

\* ... or a failure.
LEMMA FailureSettles ==
  ASSUME NEW i \in Interactions, NEW r, Open(i, r), Raises[i] # "never"
  PROVE  Settled(i, [r EXCEPT !.children = @ \cup Partial(i),
                              !.errors = @ + 1,
                              !.status = IF r.attempts < MaxAttempts THEN "backoff" ELSE "dead"])
<1> DEFINE s == [r EXCEPT !.children = @ \cup Partial(i),
                          !.errors = @ + 1,
                          !.status = IF r.attempts < MaxAttempts THEN "backoff" ELSE "dead"]
<1>1. r.attempts \in Nat /\ r.errors \in Nat /\ MaxAttempts \in Nat
  BY OrchestratorBatchAssumption DEF Open, Row
<1>2. s.status = (IF r.attempts < MaxAttempts THEN "backoff" ELSE "dead")
      /\ s.children = r.children \cup Partial(i)
      /\ s.attempts = r.attempts /\ s.errors = r.errors + 1
  BY DEF Open, Row
<1>3. s \in Row
  BY <1>1 DEF Open, Row, Statuses, Children, Partial
<1>4. "llm" \notin s.children /\ (Raises[i] = "early" => s.children = {})
  BY <1>2 DEF Open, Partial
<1>5. s.attempts = Worked(s)
  BY <1>1, <1>2 DEF Open, Worked
<1>6. /\ s.status = "dead" => s.errors = MaxAttempts
      /\ s.status \notin {"succeeded", "dead"} => s.attempts < MaxAttempts
      /\ s.status \notin {"running", "succeeded"} /\ s.attempts > 0
  BY <1>1, <1>2 DEF Open
<1>7. QED
  BY <1>3, <1>4, <1>5, <1>6 DEF Settled

\* Writing the outcome of one job of the batch.
LEMMA WrittenKeepsInv ==
  ASSUME BatchInv, NEW w \in Orchestrators, NEW i \in todo[w], NEW row,
         Written(w, i, row), Settled(i, row)
  PROVE  BatchInv'
<1>1. i \in Batch(w) /\ i \in Interactions /\ row \in Row
  BY DEF BatchInv, TypeOK, Settled
<1>2. \A v \in Orchestrators :
        /\ Batch(v)' = Batch(v)
        /\ v # w => draft'[v] = draft[v] /\ todo'[v] = todo[v]
  BY DEF BatchInv, TypeOK, Written, Batch
<1>3. /\ todo'[w] = todo[w] \ {i}
      /\ draft'[w] = [draft[w] EXCEPT ![i] = row]
  BY DEF BatchInv, TypeOK, Written
<1>4. \A j \in Batch(w) : draft'[w][j] = IF j = i THEN row ELSE draft[w][j]
  BY <1>1, <1>3 DEF BatchInv, TypeOK, Batch
<1>5. TypeOK'
  <2>1. \A v \in Orchestrators : draft'[v] \in [Batch(v) -> Row]
    BY <1>1, <1>2, <1>3 DEF BatchInv, TypeOK
  <2>2. /\ rows' = rows /\ rollbacks' = rollbacks
        /\ DOMAIN draft' = Orchestrators
        /\ todo' \in [Orchestrators -> SUBSET Interactions]
    BY DEF BatchInv, TypeOK, Written
  <2>3. \A v \in Orchestrators : todo'[v] \subseteq Batch(v)
    BY <1>2, <1>3 DEF BatchInv, TypeOK
  <2>4. QED
    BY <2>1, <2>2, <2>3, <1>2 DEF BatchInv, TypeOK
<1>6. BatchesDisjoint'
  BY <1>2 DEF BatchInv, BatchesDisjoint
<1>7. \A v \in Orchestrators : \A j \in Batch(v) :
        IF j \in todo'[v] THEN Open(j, draft'[v][j]) ELSE Settled(j, draft'[v][j])
  <2>1. ASSUME NEW v \in Orchestrators, NEW j \in Batch(v)
        PROVE  IF j \in todo[v] THEN Open(j, draft[v][j]) ELSE Settled(j, draft[v][j])
    BY DEF BatchInv
  <2>2. ASSUME NEW v \in Orchestrators, NEW j \in Batch(v), v # w
        PROVE  IF j \in todo'[v] THEN Open(j, draft'[v][j]) ELSE Settled(j, draft'[v][j])
    BY <1>2, <2>1, <2>2
  <2>3. ASSUME NEW j \in Batch(w), j # i
        PROVE  IF j \in todo'[w] THEN Open(j, draft'[w][j]) ELSE Settled(j, draft'[w][j])
    BY <1>3, <1>4, <2>1, <2>3
  <2>4. i \notin todo'[w] /\ Settled(i, draft'[w][i])
    BY <1>1, <1>3, <1>4
  <2>5. QED
    BY <2>2, <2>3, <2>4
<1>8. \A j \in Interactions : Settled(j, rows'[j])
  BY DEF BatchInv, Written
<1>9. QED
  BY <1>2, <1>5, <1>6, <1>7, <1>8 DEF BatchInv

\* A transaction that ends, its batch settled if it commits.
LEMMA CloseKeepsInv ==
  ASSUME BatchInv, NEW w \in Orchestrators, Close(w), rollbacks' \in Nat,
         rows' \in [Interactions -> Row], \A i \in Interactions : Settled(i, rows'[i])
  PROVE  BatchInv'
<1>1. \A v \in Orchestrators :
        /\ v = w => Batch(v)' = {} /\ draft'[v] = NoDraft /\ todo'[v] = {}
        /\ v # w => Batch(v)' = Batch(v) /\ draft'[v] = draft[v] /\ todo'[v] = todo[v]
  BY DEF BatchInv, TypeOK, Close, NoDraft, Batch
<1>2. TypeOK'
  <2>1. \A v \in Orchestrators : draft'[v] \in [Batch(v)' -> Row] /\ todo'[v] \subseteq Batch(v)'
                                 /\ Batch(v)' \subseteq Interactions
    <3>1. NoDraft \in [{} -> Row]
      BY DEF NoDraft
    <3>2. \A v \in Orchestrators :
            draft[v] \in [Batch(v) -> Row] /\ todo[v] \subseteq Batch(v)
            /\ Batch(v) \subseteq Interactions
      BY DEF BatchInv, TypeOK
    <3>3. QED
      BY <1>1, <3>1, <3>2
  <2>2. DOMAIN draft' = Orchestrators /\ todo' \in [Orchestrators -> SUBSET Interactions]
    BY DEF BatchInv, TypeOK, Close
  <2>3. \A i \in Interactions : rows'[i].status # "running"
    BY DEF Settled
  <2>4. QED
    BY <2>1, <2>2, <2>3 DEF TypeOK
<1>3. BatchesDisjoint'
  BY <1>1 DEF BatchInv, BatchesDisjoint
<1>4. \A v \in Orchestrators : \A j \in Batch(v)' :
        IF j \in todo'[v] THEN Open(j, draft'[v][j]) ELSE Settled(j, draft'[v][j])
  BY <1>1 DEF BatchInv
<1>5. QED
  BY <1>2, <1>3, <1>4 DEF BatchInv

\* A row made ready, by a webhook or by the clock, stays settled.
LEMMA MadeReady ==
  ASSUME BatchInv, NEW i \in Interactions, rows[i].status \in {"absent", "backoff"},
         rows' = [rows EXCEPT ![i].status = "ready"], UNCHANGED <<draft, todo, rollbacks>>
  PROVE  BatchInv'
<1> DEFINE r == [rows[i] EXCEPT !.status = "ready"]
<1>1. rows[i] \in Row /\ Settled(i, rows[i])
  BY DEF BatchInv, TypeOK
<1>2. r.status = "ready" /\ r.attempts = rows[i].attempts /\ r.errors = rows[i].errors
      /\ r.children = rows[i].children /\ r \in Row
  BY <1>1 DEF Row, Statuses
<1>3. Settled(i, r)
  BY <1>1, <1>2 DEF Settled, Worked
<1>4. \A j \in Interactions : rows'[j] = IF j = i THEN r ELSE rows[j]
  BY DEF BatchInv, TypeOK
<1>5. rows' \in [Interactions -> Row]
  BY <1>2 DEF BatchInv, TypeOK
<1>6. \A j \in Interactions : Settled(j, rows'[j]) /\ rows'[j].status # "running"
  BY <1>3, <1>4 DEF BatchInv, Settled
<1>7. \A w \in Orchestrators : Batch(w)' = Batch(w)
  BY DEF Batch
<1>8. TypeOK' /\ BatchesDisjoint'
  BY <1>5, <1>6, <1>7 DEF BatchInv, TypeOK, BatchesDisjoint
<1>9. QED
  BY <1>6, <1>7, <1>8 DEF BatchInv

\* A claim opens a batch of rows that nobody else has.
LEMMA ClaimKeepsInv ==
  ASSUME BatchInv, NEW w \in Orchestrators, Claim(w)
  PROVE  BatchInv'
<1>1. PICK S \in SUBSET Claimable :
        /\ draft' = [draft EXCEPT ![w] = [i \in S |-> Taken(i)]]
        /\ todo' = [todo EXCEPT ![w] = S]
  BY DEF Claim
<1>2. S \subseteq Interactions /\ S \cap Locked = {} /\ \A i \in S : rows[i].status = "ready"
  BY DEF Claimable
<1>3. \A i \in S : Open(i, Taken(i))
  BY <1>2, TakenIsOpen DEF BatchInv
<1>4. \A v \in Orchestrators :
        /\ v = w => Batch(v)' = S /\ draft'[v] = [i \in S |-> Taken(i)] /\ todo'[v] = S
        /\ v # w => Batch(v)' = Batch(v) /\ draft'[v] = draft[v] /\ todo'[v] = todo[v]
  BY <1>1 DEF BatchInv, TypeOK, Batch
<1>5. TypeOK'
  <2>1. \A v \in Orchestrators : draft'[v] \in [Batch(v)' -> Row] /\ todo'[v] \subseteq Batch(v)'
                                 /\ Batch(v)' \subseteq Interactions
    <3>1. [i \in S |-> Taken(i)] \in [S -> Row]
      BY <1>3 DEF Open
    <3>2. \A v \in Orchestrators :
            draft[v] \in [Batch(v) -> Row] /\ todo[v] \subseteq Batch(v)
            /\ Batch(v) \subseteq Interactions
      BY DEF BatchInv, TypeOK
    <3> SUFFICES ASSUME NEW v \in Orchestrators
                 PROVE  draft'[v] \in [Batch(v)' -> Row] /\ todo'[v] \subseteq Batch(v)'
                        /\ Batch(v)' \subseteq Interactions
      OBVIOUS
    <3>3. CASE v = w
      <4>1. Batch(v)' = S /\ draft'[v] = [i \in S |-> Taken(i)] /\ todo'[v] = S
        BY <1>4, <3>3
      <4>2. QED
        BY <1>2, <3>1, <4>1
    <3>4. CASE v # w
      <4>1. Batch(v)' = Batch(v) /\ draft'[v] = draft[v] /\ todo'[v] = todo[v]
        BY <1>4, <3>4
      <4>2. QED
        BY <3>2, <4>1
    <3>5. QED
      BY <3>3, <3>4
  <2>2. DOMAIN draft' = Orchestrators /\ todo' \in [Orchestrators -> SUBSET Interactions]
    BY <1>1, <1>2 DEF BatchInv, TypeOK
  <2>3. QED
    BY <2>1, <2>2 DEF BatchInv, TypeOK, Claim
<1>6. BatchesDisjoint'
  <2>1. \A v \in Orchestrators : Batch(v) \cap S = {}
    BY <1>2 DEF Locked
  <2>2. QED
    BY <1>4, <2>1 DEF BatchInv, BatchesDisjoint
<1>7. \A v \in Orchestrators : \A j \in Batch(v)' :
        IF j \in todo'[v] THEN Open(j, draft'[v][j]) ELSE Settled(j, draft'[v][j])
  <2>1. ASSUME NEW v \in Orchestrators, v # w, NEW j \in Batch(v)'
        PROVE  IF j \in todo'[v] THEN Open(j, draft'[v][j]) ELSE Settled(j, draft'[v][j])
    <3>1. j \in Batch(v) /\ draft'[v] = draft[v] /\ todo'[v] = todo[v]
      BY <1>4, <2>1
    <3>2. QED
      BY <3>1 DEF BatchInv
  <2>2. ASSUME NEW j \in Batch(w)'
        PROVE  j \in todo'[w] /\ Open(j, draft'[w][j])
    <3>1. j \in S /\ todo'[w] = S /\ draft'[w][j] = Taken(j)
      BY <1>4, <2>2
    <3>2. QED
      BY <1>3, <3>1
  <2>3. QED
    BY <2>1, <2>2
<1>8. QED
  BY <1>5, <1>6, <1>7 DEF BatchInv, Claim

\* Every step keeps the invariant.
LEMMA NextBatchInv == BatchInv /\ [Next]_vars => BatchInv'
<1> SUFFICES ASSUME BatchInv, [Next]_vars PROVE BatchInv'
  OBVIOUS
<1>1. ASSUME NEW w \in Orchestrators, Claim(w) PROVE BatchInv'
  BY <1>1, ClaimKeepsInv
<1>2. ASSUME NEW w \in Orchestrators, NEW i \in Interactions, Orchestrate(w, i) PROVE BatchInv'
  <2>1. i \in todo[w] /\ Raises[i] = "never" /\ Open(i, draft[w][i])
    BY <1>2 DEF Orchestrate, BatchInv, TypeOK
  <2>2. QED
    BY <1>2, <2>1, SuccessSettles, WrittenKeepsInv DEF Orchestrate
<1>3. ASSUME NEW w \in Orchestrators, NEW i \in Interactions, Raise(w, i) PROVE BatchInv'
  <2>1. i \in todo[w] /\ Raises[i] # "never" /\ Open(i, draft[w][i])
    BY <1>3 DEF Raise, BatchInv, TypeOK
  <2>2. QED
    BY <1>3, <2>1, FailureSettles, WrittenKeepsInv DEF Raise
<1>4. ASSUME NEW w \in Orchestrators, Commit(w) PROVE BatchInv'
  <2>1. \A i \in Interactions : rows'[i] = IF i \in Batch(w) THEN draft[w][i] ELSE rows[i]
    BY <1>4 DEF Commit
  <2>2. \A i \in Interactions : Settled(i, rows'[i]) /\ rows'[i] \in Row
    BY <1>4, <2>1 DEF Commit, BatchInv, Settled
  <2>3. rows' \in [Interactions -> Row] /\ rollbacks' \in Nat
    BY <1>4, <2>2 DEF Commit, BatchInv, TypeOK
  <2>4. QED
    BY <1>4, <2>2, <2>3, CloseKeepsInv DEF Commit
<1>5. ASSUME NEW w \in Orchestrators, Rollback(w) PROVE BatchInv'
  BY <1>5, CloseKeepsInv DEF Rollback, BatchInv, TypeOK
<1>6. ASSUME NEW i \in Interactions, Queue(i) \/ RetryDue(i) PROVE BatchInv'
  BY <1>6, MadeReady DEF Queue, RetryDue
<1>7. CASE Rest \/ UNCHANGED vars
  <2>1. UNCHANGED vars
    BY <1>7 DEF Rest
  <2>2. \A w \in Orchestrators : Batch(w)' = Batch(w)
    BY <2>1 DEF vars, Batch
  <2>3. QED
    BY <2>1, <2>2 DEF vars, BatchInv, TypeOK, BatchesDisjoint
<1>8. QED
  BY <1>1, <1>2, <1>3, <1>4, <1>5, <1>6, <1>7 DEF Next, ProcessJob

\* The types of the tables and of the open transactions hold in every reachable state.
THEOREM TypeCorrect == Spec => []TypeOK
<1>1. BatchInv => TypeOK
  BY DEF BatchInv
<1>2. QED
  BY <1>1, InitBatchInv, NextBatchInv, PTL DEF Spec

\* SKIP LOCKED: two orchestrators never work on the same job, in any number of ticks.
THEOREM BatchesStayApart == Spec => []BatchesDisjoint
<1>1. BatchInv => BatchesDisjoint
  BY DEF BatchInv
<1>2. QED
  BY <1>1, InitBatchInv, NextBatchInv, PTL DEF Spec

\* Committed attempts are the job's own failures and success, whatever was rolled back
\* with the batches it shared.
THEOREM NobodyPaysForAnother == Spec => []AttemptsAreOwn
<1>1. BatchInv => AttemptsAreOwn
  BY DEF BatchInv, AttemptsAreOwn, Settled
<1>2. QED
  BY <1>1, InitBatchInv, NextBatchInv, PTL DEF Spec

\* A dead-lettered job has itself raised in each of its attempts.
THEOREM NobodyDiesForAnother == Spec => []DeadForOwnErrors
<1>1. BatchInv => DeadForOwnErrors
  BY DEF BatchInv, DeadForOwnErrors, Settled
<1>2. QED
  BY <1>1, InitBatchInv, NextBatchInv, PTL DEF Spec

\* Children appear with the outcome of their job, and never without one.
THEOREM ChildrenComeWithOutcome == Spec => []ChildrenWithOutcome
<1>1. BatchInv => ChildrenWithOutcome
  BY DEF BatchInv, ChildrenWithOutcome, Settled
<1>2. QED
  BY <1>1, InitBatchInv, NextBatchInv, PTL DEF Spec
=============================================================================
