-------------------------- MODULE TokenLedgerProofs --------------------------
(***************************************************************************)
(* Reservations stay within the platform's limits and the customers'       *)
(* budgets and only grow, and the transactions that make them never wait   *)
(* for each other in a circle.                                             *)
(*                                                                         *)
(* The types come first.  The inductive invariant adds what the row locks  *)
(* buy: the drafts of two open transactions share no minute, each draft is *)
(* within the limits, and each extends the committed rows it was read from.*)
(***************************************************************************)
EXTENDS TokenBudget, TLAPS

-----------------------------------------------------------------------------
(* Types *)

\* Replacing two counters of a row, or adding to them, gives a row.
LEMMA CountedRow ==
  ASSUME NEW r \in Row, NEW n \in Nat
  PROVE  /\ [r EXCEPT !.reservedTokens = @ + n, !.requestsReserved = @ + 1] \in Row
         /\ [r EXCEPT !.usedTokens = @ + n, !.requestsUsed = @ + 1] \in Row
<1>1. ASSUME NEW x \in Nat, NEW y \in Nat
      PROVE  /\ [r EXCEPT !.reservedTokens = x, !.requestsReserved = y] \in Row
             /\ [r EXCEPT !.usedTokens = x, !.requestsUsed = y] \in Row
  BY DEF Row
<1>2. /\ r.reservedTokens \in Nat /\ r.requestsReserved \in Nat
      /\ r.usedTokens \in Nat /\ r.requestsUsed \in Nat
  BY DEF Row
<1>3. /\ r.reservedTokens + n \in Nat /\ r.requestsReserved + 1 \in Nat
      /\ r.usedTokens + n \in Nat /\ r.requestsUsed + 1 \in Nat
  BY <1>2
<1>4. [r EXCEPT !.reservedTokens = @ + n, !.requestsReserved = @ + 1] \in Row
  BY <1>1, <1>3, Zenon
<1>5. [r EXCEPT !.usedTokens = @ + n, !.requestsUsed = @ + 1] \in Row
  BY <1>1, <1>3, Zenon
<1>6. QED
  BY <1>4, <1>5

\* What the counters' operators return are rows of the ledger.
LEMMA CountersAreUsage ==
  /\ NewUsage \in Usage
  /\ \A u \in Usage, j \in Jobs : Reserved(u, j) \in Usage
  /\ \A u \in Usage, j \in Jobs, n \in Nat : Recorded(u, j, n) \in Usage
<1>1. NewUsage \in Usage
  BY DEF NewUsage, Usage, Row
<1>2. ASSUME NEW u \in Usage, NEW j \in Jobs PROVE Reserved(u, j) \in Usage
  <2>1. Estimate[j] \in Nat
    BY TokenBudgetAssumption
  <2>2. ASSUME NEW r \in Row
        PROVE  [r EXCEPT !.reservedTokens = @ + Estimate[j], !.requestsReserved = @ + 1] \in Row
    BY <2>1, CountedRow
  <2>3. \A x \in Accounts : u[x] \in Row
    BY DEF Usage
  <2>4. QED
    BY <2>2, <2>3 DEF Reserved, Usage
<1>3. ASSUME NEW u \in Usage, NEW j \in Jobs, NEW n \in Nat PROVE Recorded(u, j, n) \in Usage
  <2>1. ASSUME NEW r \in Row
        PROVE  [r EXCEPT !.usedTokens = @ + n, !.requestsUsed = @ + 1] \in Row
    BY CountedRow
  <2>2. \A x \in Accounts : u[x] \in Row
    BY DEF Usage
  <2>3. QED
    BY <2>1, <2>2 DEF Recorded, Usage
<1>4. QED
  BY <1>1, <1>2, <1>3

\* Sets of rows, by minute.
RowsByMinute(f) == DOMAIN f \subseteq Minutes /\ f \in [DOMAIN f -> Usage]

\* Laying one set of rows over another gives a set of rows, with the minutes of both.
LEMMA OverlayRows ==
  ASSUME NEW new, NEW old, RowsByMinute(new), RowsByMinute(old)
  PROVE  /\ RowsByMinute(Overlay(new, old))
         /\ DOMAIN Overlay(new, old) = DOMAIN new \cup DOMAIN old
         /\ \A m \in DOMAIN new : Overlay(new, old)[m] = new[m]
         /\ \A m \in DOMAIN old \ DOMAIN new : Overlay(new, old)[m] = old[m]
BY DEF Overlay, RowsByMinute

\* A session reads rows, whatever minute it looks at.
LEMMA ViewIsUsage ==
  ASSUME NEW w \in Workers, NEW m \in Minutes, RowsByMinute(ledger), RowsByMinute(draft[w])
  PROVE  View(w, m) \in Usage
BY CountersAreUsage DEF View, RowsByMinute

\* The same for the rows a session lays over its draft.
LEMMA DraftedRows ==
  ASSUME NEW w \in Workers, NEW u \in Usage, window[w] \in Minutes, RowsByMinute(draft[w])
  PROVE  /\ RowsByMinute(Drafted(w, u))
         /\ DOMAIN Drafted(w, u) = DOMAIN draft[w] \cup {window[w]}
         /\ Drafted(w, u)[window[w]] = u
         /\ \A m \in DOMAIN draft[w] \ {window[w]} : Drafted(w, u)[m] = draft[w][m]
<1> DEFINE one == [m \in {window[w]} |-> u]
<1>1. RowsByMinute(one) /\ DOMAIN one = {window[w]} /\ one[window[w]] = u
  BY DEF RowsByMinute
<1>2. Drafted(w, u) = Overlay(one, draft[w])
  BY DEF Drafted
<1> HIDE DEF one
<1>3. /\ RowsByMinute(Overlay(one, draft[w]))
      /\ DOMAIN Overlay(one, draft[w]) = DOMAIN one \cup DOMAIN draft[w]
      /\ \A m \in DOMAIN one : Overlay(one, draft[w])[m] = one[m]
      /\ \A m \in DOMAIN draft[w] \ DOMAIN one : Overlay(one, draft[w])[m] = draft[w][m]
  BY <1>1, OverlayRows
<1>4. QED
  BY <1>1, <1>2, <1>3

-----------------------------------------------------------------------------
(* Types *)

\* The empty functions that stand for no rows and no jobs have every type of theirs.
LEMMA EmptyFunctions ==
  /\ DOMAIN NoRows = {} /\ NoRows \in [{} -> Usage] /\ RowsByMinute(NoRows)
  /\ DOMAIN NoJobs = {} /\ NoJobs \in [{} -> Minutes] /\ NoJobs \in [{} -> Nat]
BY DEF NoRows, NoJobs, RowsByMinute

\* The part of TypeOK that speaks of the memory of one worker.
WorkerTyped(w) ==
  /\ DOMAIN admitted[w] \subseteq Jobs
  /\ admitted[w] \in [DOMAIN admitted[w] -> Minutes]
  /\ DOMAIN deferred[w] \subseteq Jobs
  /\ deferred[w] \in [DOMAIN deferred[w] -> Nat]
  /\ DOMAIN draft[w] \subseteq Minutes
  /\ draft[w] \in [DOMAIN draft[w] -> Usage]
  /\ cur[w] \in Jobs <=> pc[w] \in {"reserving", "calling", "closing", "recording"}

\* TypeOK with that part named.
LEMMA TypeParts ==
  TypeOK <=>
    /\ minute \in Minutes
    /\ RowsByMinute(ledger)
    /\ state \in [Jobs -> {"waiting", "running", "done"}]
    /\ runAfter \in [Jobs -> Nat]
    /\ pc \in [Workers -> {"idle", "claiming", "reserving", "working", "calling", "closing", "recording"}]
    /\ batch \in [Workers -> SUBSET Jobs]
    /\ DOMAIN admitted = Workers /\ DOMAIN deferred = Workers /\ DOMAIN draft = Workers
    /\ \A w \in Workers : WorkerTyped(w)
    /\ cur \in [Workers -> Jobs \cup {NoJob}]
    /\ window \in [Workers -> Minutes]
    /\ exists \in [Workers -> BOOLEAN]
    /\ granted \in [Minutes -> [Jobs -> Nat]]
    /\ load \in [Minutes -> [requests : Nat, tokens : Nat]]
    /\ successes \in [Jobs -> Nat]
    /\ failures \in Nat /\ crashes \in Nat /\ overruns \in Nat
BY DEF TypeOK, RowsByMinute, WorkerTyped

\* The initial state is well typed.
LEMMA TypeInit == Init => TypeOK
<1> SUFFICES ASSUME Init PROVE TypeOK
  OBVIOUS
<1>1. 0 \in Minutes
  BY TokenBudgetAssumption DEF Minutes
<1>2. \A w \in Workers : WorkerTyped(w)
  BY EmptyFunctions, TokenBudgetAssumption DEF Init, WorkerTyped
<1>3. granted \in [Minutes -> [Jobs -> Nat]] /\ load \in [Minutes -> [requests : Nat, tokens : Nat]]
  BY DEF Init
<1>4. RowsByMinute(ledger)
  BY EmptyFunctions DEF Init
<1>5. QED
  BY <1>1, <1>2, <1>3, <1>4, TypeParts DEF Init

\* A transaction that ends leaves the worker without rows, batch or current job.
LEMMA EndTypes ==
  ASSUME TypeOK, NEW w \in Workers, EndTransaction(w), RowsByMinute(ledger)',
         NEW step \in {"idle", "working"}, pc' = [pc EXCEPT ![w] = step],
         DOMAIN admitted' = Workers, \A v \in Workers \ {w} : admitted'[v] = admitted[v],
         DOMAIN admitted'[w] \subseteq Jobs,
         admitted'[w] \in [DOMAIN admitted'[w] -> Minutes]
  PROVE  /\ pc' \in [Workers -> {"idle", "claiming", "reserving", "working", "calling", "closing", "recording"}]
         /\ batch' \in [Workers -> SUBSET Jobs]
         /\ DOMAIN deferred' = Workers /\ DOMAIN draft' = Workers
         /\ \A v \in Workers : WorkerTyped(v)'
         /\ cur' \in [Workers -> Jobs \cup {NoJob}]
         /\ window' \in [Workers -> Minutes]
         /\ exists' \in [Workers -> BOOLEAN]
<1>1. /\ pc \in [Workers -> {"idle", "claiming", "reserving", "working", "calling", "closing", "recording"}]
      /\ batch \in [Workers -> SUBSET Jobs]
      /\ DOMAIN deferred = Workers /\ DOMAIN draft = Workers
      /\ cur \in [Workers -> Jobs \cup {NoJob}]
      /\ window \in [Workers -> Minutes]
      /\ exists \in [Workers -> BOOLEAN]
  BY TypeParts
<1>2. 0 \in Minutes
  BY TokenBudgetAssumption DEF Minutes
<1>3. WorkerTyped(w)'
  <2>1. deferred'[w] = NoJobs /\ draft'[w] = NoRows /\ cur'[w] = NoJob
    BY <1>1 DEF EndTransaction
  <2>2. pc'[w] = step
    BY <1>1
  <2>3. QED
    BY <2>1, <2>2, EmptyFunctions, TokenBudgetAssumption DEF WorkerTyped
<1>4. ASSUME NEW v \in Workers \ {w} PROVE WorkerTyped(v)'
  <2>1. deferred'[v] = deferred[v] /\ draft'[v] = draft[v] /\ cur'[v] = cur[v]
    BY <1>1 DEF EndTransaction
  <2>2. WorkerTyped(v)
    BY TypeParts
  <2>3. QED
    BY <2>1, <2>2 DEF WorkerTyped
<1>5. QED
  BY <1>1, <1>2, <1>3, <1>4 DEF EndTransaction

\* The parts of TypeOK, in the next state.
LEMMA TypePartsNext ==
  TypeOK' <=>
    /\ minute' \in Minutes
    /\ RowsByMinute(ledger)'
    /\ state' \in [Jobs -> {"waiting", "running", "done"}]
    /\ runAfter' \in [Jobs -> Nat]
    /\ pc' \in [Workers -> {"idle", "claiming", "reserving", "working", "calling", "closing", "recording"}]
    /\ batch' \in [Workers -> SUBSET Jobs]
    /\ DOMAIN admitted' = Workers /\ DOMAIN deferred' = Workers /\ DOMAIN draft' = Workers
    /\ \A w \in Workers : WorkerTyped(w)'
    /\ cur' \in [Workers -> Jobs \cup {NoJob}]
    /\ window' \in [Workers -> Minutes]
    /\ exists' \in [Workers -> BOOLEAN]
    /\ granted' \in [Minutes -> [Jobs -> Nat]]
    /\ load' \in [Minutes -> [requests : Nat, tokens : Nat]]
    /\ successes' \in [Jobs -> Nat]
    /\ failures' \in Nat /\ crashes' \in Nat /\ overruns' \in Nat
BY DEF TypeOK, RowsByMinute, WorkerTyped

\* A worker whose memory does not change keeps its types.
LEMMA WorkerStays ==
  ASSUME NEW v \in Workers, WorkerTyped(v), admitted'[v] = admitted[v],
         deferred'[v] = deferred[v], draft'[v] = draft[v], cur'[v] = cur[v], pc'[v] = pc[v]
  PROVE  WorkerTyped(v)'
BY DEF WorkerTyped

\* A claim puts a set of jobs into the batch.
LEMMA TypeClaimBatch ==
  ASSUME TypeOK, NEW w \in Workers, ClaimBatch(w)
  PROVE  TypeOK'
<1>1. WorkerTyped(w)'
  BY TypeParts, TokenBudgetAssumption DEF ClaimBatch, WorkerTyped
<1>2. ASSUME NEW v \in Workers \ {w} PROVE WorkerTyped(v)'
  BY TypeParts, WorkerStays DEF ClaimBatch
<1>3. QED
  BY <1>1, <1>2, TypeParts, TypePartsNext DEF ClaimBatch, jobVars, history, envVars, RowsByMinute

\* Both SELECTs name a job and the minute it is.
LEMMA TypeSelect ==
  ASSUME TypeOK, NEW w \in Workers, SelectForReserve(w) \/ SelectForRecord(w)
  PROVE  TypeOK'
<1>1. PICK j \in Jobs : Select(w, j)
  BY TypeParts DEF SelectForReserve, SelectForRecord, WorkerTyped
<1>2. PICK step \in {"reserving", "recording"} : pc' = [pc EXCEPT ![w] = step]
  BY DEF SelectForReserve, SelectForRecord
<1>3. UNCHANGED <<minute, ledger, state, runAfter, admitted, batch, deferred, draft,
                  granted, load, successes, failures, crashes, overruns>>
  BY DEF SelectForReserve, SelectForRecord, jobVars, history, envVars
<1>4. WorkerTyped(w)'
  BY <1>1, <1>2, <1>3, TypeParts DEF Select, WorkerTyped
<1>5. ASSUME NEW v \in Workers \ {w} PROVE WorkerTyped(v)'
  BY <1>1, <1>2, <1>3, TypeParts, WorkerStays DEF Select
<1>6. QED
  BY <1>1, <1>2, <1>3, <1>4, <1>5, TypeParts, TypePartsNext DEF Select, RowsByMinute

\* What Reserve reads and writes when the worker is about to reserve.
LEMMA ReserveRows ==
  ASSUME TypeOK, NEW w \in Workers, pc[w] = "reserving"
  PROVE  /\ cur[w] \in Jobs /\ window[w] \in Minutes
         /\ RowsByMinute(ledger) /\ RowsByMinute(draft[w])
         /\ View(w, window[w]) \in Usage
         /\ Reserved(View(w, window[w]), cur[w]) \in Usage
<1>1. cur[w] \in Jobs /\ window[w] \in Minutes /\ RowsByMinute(ledger) /\ RowsByMinute(draft[w])
  BY TypeParts DEF WorkerTyped, RowsByMinute
<1>2. QED
  BY <1>1, ViewIsUsage, CountersAreUsage

\* A reservation adds one job to the granted or to the deferred ones.
LEMMA TypeReserve ==
  ASSUME TypeOK, NEW w \in Workers, Reserve(w)
  PROVE  TypeOK'
<1> DEFINE j == cur[w]
           usage == View(w, window[w])
<1>1. /\ j \in Jobs /\ window[w] \in Minutes /\ window[w] + 1 \in Nat
      /\ RowsByMinute(draft[w]) /\ usage \in Usage /\ Reserved(usage, j) \in Usage
  BY ReserveRows DEF Reserve, Minutes
<1>2. RowsByMinute(Drafted(w, usage)) /\ RowsByMinute(Drafted(w, Reserved(usage, j)))
  BY <1>1, DraftedRows
<1>3. /\ DOMAIN admitted[w] \subseteq Jobs /\ admitted[w] \in [DOMAIN admitted[w] -> Minutes]
      /\ DOMAIN deferred[w] \subseteq Jobs /\ deferred[w] \in [DOMAIN deferred[w] -> Nat]
      /\ DOMAIN admitted = Workers /\ DOMAIN deferred = Workers /\ DOMAIN draft = Workers
  BY TypeParts DEF WorkerTyped
<1>4. cur'[w] = NoJob /\ pc'[w] = "claiming"
  BY TypeParts DEF Reserve
<1>5. RowsByMinute(draft'[w])
  BY <1>2, <1>3 DEF Reserve
<1>6. DOMAIN admitted'[w] \subseteq Jobs /\ admitted'[w] \in [DOMAIN admitted'[w] -> Minutes]
  <2>1. CASE Admits(usage, j)
    <3>1. admitted'[w] = [i \in DOMAIN admitted[w] \cup {j} |->
                            IF i = j THEN window[w] ELSE admitted[w][i]]
      BY <1>3, <2>1 DEF Reserve
    <3>2. QED
      BY <1>1, <1>3, <3>1
  <2>2. CASE ~Admits(usage, j)
    BY <1>3, <2>2 DEF Reserve
  <2>3. QED
    BY <2>1, <2>2
<1>7. DOMAIN deferred'[w] \subseteq Jobs /\ deferred'[w] \in [DOMAIN deferred'[w] -> Nat]
  <2>1. CASE ~Admits(usage, j)
    <3>1. deferred'[w] = [i \in DOMAIN deferred[w] \cup {j} |->
                            IF i = j THEN window[w] + 1 ELSE deferred[w][i]]
      BY <1>3, <2>1 DEF Reserve
    <3>2. QED
      BY <1>1, <1>3, <3>1
  <2>2. CASE Admits(usage, j)
    BY <1>3, <2>2 DEF Reserve
  <2>3. QED
    BY <2>1, <2>2
<1>8. WorkerTyped(w)'
  BY <1>4, <1>5, <1>6, <1>7, TokenBudgetAssumption DEF WorkerTyped, RowsByMinute
<1>9. ASSUME NEW v \in Workers \ {w} PROVE WorkerTyped(v)'
  BY <1>3, TypeParts, WorkerStays DEF Reserve
<1>10. /\ DOMAIN admitted' = Workers /\ DOMAIN deferred' = Workers /\ DOMAIN draft' = Workers
  BY <1>3 DEF Reserve
<1>11. 0 \in Minutes
  BY TokenBudgetAssumption DEF Minutes
<1>12. QED
  BY <1>8, <1>9, <1>10, <1>11, TypeParts, TypePartsNext
     DEF Reserve, jobVars, history, envVars, RowsByMinute

\* The commit lays the draft over the ledger and counts what it granted.
LEMMA TypeCommitClaim ==
  ASSUME TypeOK, NEW w \in Workers, CommitClaim(w)
  PROVE  TypeOK'
<1>1. RowsByMinute(ledger)'
  <2>1. RowsByMinute(ledger) /\ RowsByMinute(draft[w])
    BY TypeParts DEF WorkerTyped, RowsByMinute
  <2>2. RowsByMinute(Overlay(draft[w], ledger))
    BY <2>1, OverlayRows
  <2>3. QED
    BY <2>2 DEF CommitClaim, RowsByMinute
<1>2. PICK step \in {"idle", "working"} : pc' = [pc EXCEPT ![w] = step]
  BY DEF CommitClaim
<1>3. /\ pc' \in [Workers -> {"idle", "claiming", "reserving", "working", "calling", "closing", "recording"}]
      /\ batch' \in [Workers -> SUBSET Jobs]
      /\ DOMAIN deferred' = Workers /\ DOMAIN draft' = Workers
      /\ \A v \in Workers : WorkerTyped(v)'
      /\ cur' \in [Workers -> Jobs \cup {NoJob}]
      /\ window' \in [Workers -> Minutes]
      /\ exists' \in [Workers -> BOOLEAN]
  BY <1>1, <1>2, TypeParts, EndTypes DEF CommitClaim, WorkerTyped
<1>4. runAfter' \in [Jobs -> Nat]
  BY TypeParts DEF CommitClaim, WorkerTyped
<1>5. state' \in [Jobs -> {"waiting", "running", "done"}]
  BY TypeParts DEF CommitClaim
<1>6. granted' \in [Minutes -> [Jobs -> Nat]]
  <2>1. \A m \in Minutes, j \in Jobs : granted[m][j] \in Nat
    BY TypeParts
  <2>2. QED
    BY <2>1 DEF CommitClaim
<1>7. QED
  BY <1>1, <1>3, <1>4, <1>5, <1>6, TypeParts, TypePartsNext DEF CommitClaim, envVars

\* A call takes one job out of the granted ones.
LEMMA TypeCallProvider ==
  ASSUME TypeOK, NEW w \in Workers, CallProvider(w)
  PROVE  TypeOK'
<1>1. PICK j \in DOMAIN admitted[w] :
        /\ cur' = [cur EXCEPT ![w] = j] /\ admitted' = Remaining(w, j)
        /\ load' = [load EXCEPT ![minute].requests = @ + 1, ![minute].tokens = @ + Estimate[j]]
  BY DEF CallProvider
<1>2. /\ j \in Jobs /\ Estimate[j] \in Nat /\ minute \in Minutes
      /\ DOMAIN admitted = Workers /\ DOMAIN admitted[w] \subseteq Jobs
      /\ admitted[w] \in [DOMAIN admitted[w] -> Minutes]
  BY TypeParts, TokenBudgetAssumption DEF WorkerTyped
<1>3. admitted'[w] = [i \in DOMAIN admitted[w] \ {j} |-> admitted[w][i]]
  BY <1>1, <1>2 DEF Remaining
<1>4. DOMAIN admitted' = Workers /\ \A v \in Workers \ {w} : admitted'[v] = admitted[v]
  BY <1>1, <1>2 DEF Remaining
<1>5. /\ cur'[w] = j /\ pc'[w] = "calling"
      /\ deferred' = deferred /\ draft' = draft
  BY <1>1, TypeParts DEF CallProvider
<1>6. WorkerTyped(w)'
  <2>1. WorkerTyped(w)
    BY TypeParts
  <2>2. QED
    BY <1>2, <1>3, <1>5, <2>1 DEF WorkerTyped
<1>7. ASSUME NEW v \in Workers \ {w} PROVE WorkerTyped(v)'
  BY <1>1, <1>4, <1>5, TypeParts, WorkerStays DEF CallProvider
<1>8. load' \in [Minutes -> [requests : Nat, tokens : Nat]]
  <2>1. load \in [Minutes -> [requests : Nat, tokens : Nat]]
    BY TypeParts
  <2>2. load[minute].requests + 1 \in Nat /\ load[minute].tokens + Estimate[j] \in Nat
    BY <1>2, <2>1
  <2>3. QED
    BY <1>1, <1>2, <2>1, <2>2
<1>9. QED
  BY <1>1, <1>2, <1>4, <1>6, <1>7, <1>8, TypeParts, TypePartsNext
     DEF CallProvider, jobVars, history, envVars, RowsByMinute

\* The end of a call, failed, dropped or recorded, frees the worker for its next job.
LEMMA TypeAnswer ==
  ASSUME TypeOK, NEW w \in Workers, CallFails(w) \/ FindOver(w) \/ Record(w)
  PROVE  TypeOK'
<1>1. RowsByMinute(ledger) /\ RowsByMinute(draft[w]) /\ cur[w] \in Jobs /\ window[w] \in Minutes
  BY TypeParts DEF CallFails, FindOver, Record, WorkerTyped, RowsByMinute
<1>2. RowsByMinute(ledger)'
  <2>1. CASE CallFails(w) \/ FindOver(w)
    BY <1>1, <2>1 DEF CallFails, FindOver, RowsByMinute
  <2>2. CASE Record(w)
    <3> DEFINE one == [m \in {window[w]} |-> Recorded(View(w, m), cur[w], Estimate[cur[w]])]
    <3>1. Recorded(View(w, window[w]), cur[w], Estimate[cur[w]]) \in Usage
      BY <1>1, ViewIsUsage, CountersAreUsage, TokenBudgetAssumption
    <3>2. RowsByMinute(one)
      BY <1>1, <3>1 DEF RowsByMinute
    <3>3. ledger' = Overlay(one, ledger)
      BY <2>2 DEF Record
    <3> HIDE DEF one
    <3>4. RowsByMinute(Overlay(one, ledger))
      BY <1>1, <3>2, OverlayRows
    <3>5. QED
      BY <3>3, <3>4 DEF RowsByMinute
  <2>3. QED
    BY <2>1, <2>2
<1>3. PICK step \in {"idle", "working"} : pc' = [pc EXCEPT ![w] = step]
  BY DEF CallFails, FindOver, Record, NextJob
<1>4. EndTransaction(w) /\ admitted' = admitted /\ granted' = granted /\ load' = load
      /\ minute' = minute /\ crashes' = crashes /\ overruns' = overruns
  BY DEF CallFails, FindOver, Record, NextJob, history, envVars
<1>5. /\ pc' \in [Workers -> {"idle", "claiming", "reserving", "working", "calling", "closing", "recording"}]
      /\ batch' \in [Workers -> SUBSET Jobs]
      /\ DOMAIN deferred' = Workers /\ DOMAIN draft' = Workers
      /\ \A v \in Workers : WorkerTyped(v)'
      /\ cur' \in [Workers -> Jobs \cup {NoJob}]
      /\ window' \in [Workers -> Minutes]
      /\ exists' \in [Workers -> BOOLEAN]
  BY <1>2, <1>3, <1>4, TypeParts, EndTypes DEF WorkerTyped
<1>6. state' \in [Jobs -> {"waiting", "running", "done"}] /\ runAfter' \in [Jobs -> Nat]
      /\ successes' \in [Jobs -> Nat] /\ failures' \in Nat
  <2>1. /\ state \in [Jobs -> {"waiting", "running", "done"}] /\ runAfter \in [Jobs -> Nat]
        /\ successes \in [Jobs -> Nat] /\ failures \in Nat /\ minute \in Nat
    BY TypeParts DEF Minutes
  <2>2. CASE CallFails(w)
    <3>1. state' = [state EXCEPT ![cur[w]] = "waiting"]
      BY <2>2 DEF CallFails
    <3>2. runAfter' = [runAfter EXCEPT ![cur[w]] = minute] /\ failures' = failures + 1
      BY <2>2 DEF CallFails
    <3>3. state' \in [Jobs -> {"waiting", "running", "done"}]
      BY <2>1, <3>1
    <3>4. runAfter' \in [Jobs -> Nat]
      BY <2>1, <3>2
    <3>5. failures' \in Nat
      BY <2>1, <3>2
    <3>6. successes' = successes
      BY <2>2 DEF CallFails, history
    <3>7. QED
      BY <2>1, <3>3, <3>4, <3>5, <3>6
  <2>3. CASE FindOver(w)
    BY <2>1, <2>3 DEF FindOver, jobVars, history, envVars
  <2>4. CASE Record(w)
    <3>1. /\ state' = [state EXCEPT ![cur[w]] = "done"] /\ runAfter' = runAfter
          /\ successes' = [successes EXCEPT ![cur[w]] = @ + 1] /\ failures' = failures
      BY <2>4 DEF Record, envVars
    <3>2. successes' \in [Jobs -> Nat]
      BY <1>1, <2>1, <3>1
    <3>3. QED
      BY <2>1, <3>1, <3>2
  <2>5. QED
    BY <2>2, <2>3, <2>4
<1>7. QED
  BY <1>2, <1>4, <1>5, <1>6, TypeParts, TypePartsNext

\* A tick that is abandoned leaves nothing in the worker's memory.
LEMMA TypeEndTick ==
  ASSUME TypeOK, NEW w \in Workers, Abort(w) \/ Crash(w)
  PROVE  TypeOK'
<1>1. /\ EndTransaction(w) /\ pc' = [pc EXCEPT ![w] = "idle"]
      /\ admitted' = [admitted EXCEPT ![w] = NoJobs]
      /\ UNCHANGED <<minute, ledger, state, runAfter, granted, load, successes, failures,
                     overruns>>
      /\ crashes' \in Nat
  BY TypeParts DEF Abort, Crash, EndTick, jobVars, history, envVars
<1>2. RowsByMinute(ledger)'
  BY <1>1, TypeParts DEF RowsByMinute
<1>3. /\ DOMAIN admitted' = Workers /\ \A v \in Workers \ {w} : admitted'[v] = admitted[v]
      /\ DOMAIN admitted'[w] \subseteq Jobs /\ admitted'[w] \in [DOMAIN admitted'[w] -> Minutes]
  BY <1>1, TypeParts, EmptyFunctions
<1>4. /\ pc' \in [Workers -> {"idle", "claiming", "reserving", "working", "calling", "closing", "recording"}]
      /\ batch' \in [Workers -> SUBSET Jobs]
      /\ DOMAIN deferred' = Workers /\ DOMAIN draft' = Workers
      /\ \A v \in Workers : WorkerTyped(v)'
      /\ cur' \in [Workers -> Jobs \cup {NoJob}]
      /\ window' \in [Workers -> Minutes]
      /\ exists' \in [Workers -> BOOLEAN]
  BY <1>1, <1>2, <1>3, EndTypes
<1>5. QED
  BY <1>1, <1>2, <1>3, <1>4, TypeParts, TypePartsNext

\* A job that is found RUNNING is closed next.
LEMMA TypeFindRunning ==
  ASSUME TypeOK, NEW w \in Workers, FindRunning(w)
  PROVE  TypeOK'
<1>1. UNCHANGED <<minute, ledger, state, runAfter, admitted, batch, deferred, cur, window, exists,
                  draft, granted, load, successes, failures, crashes, overruns>>
  BY DEF FindRunning, jobVars, txVars, history, envVars
<1>2. pc[w] = "calling" /\ pc' = [pc EXCEPT ![w] = "closing"]
  BY DEF FindRunning
<1>3. WorkerTyped(w)'
  BY <1>1, <1>2, TypeParts DEF WorkerTyped
<1>4. ASSUME NEW v \in Workers \ {w} PROVE WorkerTyped(v)'
  BY <1>1, <1>2, TypeParts, WorkerStays
<1>5. QED
  BY <1>1, <1>2, <1>3, <1>4, TypeParts, TypePartsNext DEF RowsByMinute

\* A transaction that waits for a job keeps the rows of its minute as it read them.
LEMMA TypeWaitForRow ==
  ASSUME TypeOK, NEW w \in Workers, WaitForRow(w)
  PROVE  /\ TypeOK'
         /\ window[w] \in Minutes /\ RowsByMinute(draft[w]) /\ View(w, window[w]) \in Usage
<1>1. UNCHANGED <<minute, ledger, state, runAfter, pc, admitted, batch, deferred, cur, window,
                  exists, granted, load, successes, failures, crashes, overruns>>
  BY DEF WaitForRow, jobVars, history, envVars
<1>2. /\ window[w] \in Minutes /\ RowsByMinute(ledger) /\ RowsByMinute(draft[w])
      /\ DOMAIN draft = Workers
  BY TypeParts DEF WorkerTyped, RowsByMinute
<1>3. View(w, window[w]) \in Usage
  BY <1>2, ViewIsUsage
<1>4. draft' = [draft EXCEPT ![w] = Drafted(w, View(w, window[w]))]
  BY DEF WaitForRow
<1>5. RowsByMinute(draft'[w]) /\ DOMAIN draft' = Workers
  BY <1>2, <1>3, <1>4, DraftedRows
<1>6. WorkerTyped(w)'
  BY <1>1, <1>5, TypeParts DEF WorkerTyped, RowsByMinute
<1>7. ASSUME NEW v \in Workers \ {w} PROVE WorkerTyped(v)'
  BY <1>1, <1>4, TypeParts, WorkerStays
<1>8. QED
  BY <1>1, <1>2, <1>3, <1>5, <1>6, <1>7, TypeParts, TypePartsNext DEF RowsByMinute

\* Every step keeps the types.
LEMMA TypeNext == TypeOK /\ [Next]_vars => TypeOK'
<1> SUFFICES ASSUME TypeOK, [Next]_vars PROVE TypeOK'
  OBVIOUS
<1>1. ASSUME NEW j \in Jobs, RecoverStale(j) \/ Overrun(j) PROVE TypeOK'
  <2>1. /\ state' \in [Jobs -> {"waiting", "running", "done"}] /\ runAfter' \in [Jobs -> Nat]
        /\ overruns' \in Nat
        /\ UNCHANGED <<minute, ledger, pc, batch, admitted, deferred, cur, window, exists, draft,
                       granted, load, successes, failures, crashes>>
    <3>1. /\ state' = [state EXCEPT ![j] = "waiting"] /\ runAfter' = [runAfter EXCEPT ![j] = minute]
          /\ overruns' = overruns \/ overruns' = overruns + 1
          /\ UNCHANGED <<minute, ledger, pc, batch, admitted, deferred, cur, window, exists, draft,
                         granted, load, successes, failures, crashes>>
      BY <1>1 DEF RecoverStale, Overrun, Recovered, txVars, history, envVars
    <3>2. /\ state \in [Jobs -> {"waiting", "running", "done"}] /\ runAfter \in [Jobs -> Nat]
          /\ minute \in Nat /\ overruns \in Nat
      BY TypeParts DEF Minutes
    <3>3. overruns' \in Nat
      BY <3>1, <3>2
    <3>4. QED
      BY <3>1, <3>2, <3>3
  <2>2. QED
    BY <2>1, TypeParts, TypePartsNext DEF WorkerTyped, RowsByMinute
<1>2. CASE NextMinute
  <2>1. /\ minute' \in Minutes
        /\ UNCHANGED <<state, runAfter, ledger, pc, batch, admitted, deferred, cur, window, exists,
                       draft, granted, load, successes, failures, crashes, overruns>>
    BY <1>2, TypeParts, TokenBudgetAssumption DEF NextMinute, jobVars, txVars, history, envVars, Minutes
  <2>2. QED
    BY <2>1, TypeParts, TypePartsNext DEF WorkerTyped, RowsByMinute
<1>3. CASE UNCHANGED vars
  BY <1>3, TypeParts, TypePartsNext DEF vars, jobVars, txVars, history, envVars, WorkerTyped, RowsByMinute
<1>4. QED
  BY <1>1, <1>2, <1>3, TypeClaimBatch, TypeSelect, TypeReserve, TypeCommitClaim,
     TypeCallProvider, TypeAnswer, TypeEndTick, TypeFindRunning, TypeWaitForRow DEF Next, WorkerStep

\* Type correctness of the token ledger and of the workers that share it.
THEOREM TypeCorrect == Spec => []TypeOK
<1>1. QED
  BY TypeInit, TypeNext, PTL DEF Spec

-----------------------------------------------------------------------------
(* What the row locks buy *)

\* In usage u, a customer without HIGH jobs has reserved no more than its budget.
InBudget(u) ==
  \A c \in Customers :
    JobsOf(c) # {} /\ JobsOf(c) \cap HighJobs = {} =>
      \E j \in JobsOf(c) : u[c].reservedTokens <= Budget[j]

\* The rows u of one minute, drafted or committed, stay within the limits.
Within(u) ==
  /\ u[GlobalAccount].reservedTokens <= TokenLimit
  /\ u[GlobalAccount].requestsReserved <= RequestLimit
  /\ InBudget(u)

\* Usage u has reserved at least what usage t has.
Extends(u, t) ==
  \A x \in Accounts : /\ u[x].reservedTokens >= t[x].reservedTokens
                      /\ u[x].requestsReserved >= t[x].requestsReserved

DraftsExclusive ==
  \A v, w \in Workers : v # w => DOMAIN draft[v] \cap DOMAIN draft[w] = {}

DraftsWithin ==
  \A w \in Workers : \A m \in DOMAIN draft[w] : Within(draft[w][m])

DraftsExtend ==
  \A w \in Workers : \A m \in DOMAIN draft[w] \cap DOMAIN ledger : Extends(draft[w][m], ledger[m])

LedgerWithin == \A m \in DOMAIN ledger : Within(ledger[m])

LedgerInv == TypeOK /\ DraftsExclusive /\ DraftsWithin /\ DraftsExtend /\ LedgerWithin

\* The types the invariant gives to the ledger and the drafts.
LEMMA LedgerTypes ==
  ASSUME LedgerInv
  PROVE  /\ RowsByMinute(ledger)
         /\ \A w \in Workers : RowsByMinute(draft[w])
         /\ DOMAIN draft = Workers
         /\ window \in [Workers -> Minutes]
BY TypeParts DEF LedgerInv, WorkerTyped, RowsByMinute

\* Usage only grows by a reservation, and stays within the limits when it is admitted.
LEMMA ReservedGrows ==
  ASSUME NEW u \in Usage, NEW j \in Jobs
  PROVE  /\ Extends(Reserved(u, j), u)
         /\ Within(u) /\ Admits(u, j) => Within(Reserved(u, j))
<1>1. Estimate[j] \in Nat
  BY TokenBudgetAssumption
<1>2. \A x \in Accounts : u[x] \in Row
  BY DEF Usage
<1>3. ASSUME NEW r \in Row
      PROVE  LET s == [r EXCEPT !.reservedTokens = @ + Estimate[j], !.requestsReserved = @ + 1]
             IN  /\ s.reservedTokens = r.reservedTokens + Estimate[j]
                 /\ s.requestsReserved = r.requestsReserved + 1
                 /\ r.reservedTokens \in Nat /\ r.requestsReserved \in Nat
  BY <1>1 DEF Row
<1>4. ASSUME NEW x \in Accounts
      PROVE  /\ Reserved(u, j)[x].reservedTokens
                  = u[x].reservedTokens + (IF x \in {GlobalAccount, CustomerOf[j]} THEN Estimate[j] ELSE 0)
             /\ Reserved(u, j)[x].requestsReserved
                  = u[x].requestsReserved + (IF x \in {GlobalAccount, CustomerOf[j]} THEN 1 ELSE 0)
             /\ u[x].reservedTokens \in Nat /\ u[x].requestsReserved \in Nat
  BY <1>2, <1>3 DEF Reserved
<1>5. Extends(Reserved(u, j), u)
  BY <1>1, <1>4 DEF Extends
<1>6. ASSUME Within(u), Admits(u, j) PROVE Within(Reserved(u, j))
  <2>1. GlobalAccount \in Accounts
    BY DEF Accounts
  <2>2. ASSUME NEW c \in Customers, JobsOf(c) # {}, JobsOf(c) \cap HighJobs = {}
        PROVE  \E i \in JobsOf(c) : Reserved(u, j)[c].reservedTokens <= Budget[i]
    <3>1. c \in Accounts /\ c # GlobalAccount
      BY TokenBudgetAssumption DEF Accounts
    <3>2. CASE CustomerOf[j] = c
      <4>1. j \in JobsOf(c) /\ j \notin HighJobs
        BY <2>2, <3>1, <3>2 DEF JobsOf
      <4>2. Reserved(u, j)[c].reservedTokens <= Budget[j]
        BY <1>4, <1>6, <3>1, <3>2, <4>1 DEF Admits
      <4>3. QED
        BY <4>1, <4>2
    <3>3. CASE CustomerOf[j] # c
      <4>1. Reserved(u, j)[c].reservedTokens = u[c].reservedTokens
        BY <1>4, <3>1, <3>3
      <4>2. QED
        BY <1>6, <2>2, <4>1 DEF Within, InBudget
    <3>4. QED
      BY <3>2, <3>3
  <2>3. InBudget(Reserved(u, j))
    BY <2>2 DEF InBudget
  <2>4. QED
    BY <1>4, <1>6, <2>1, <2>3 DEF Within, Admits
<1>7. QED
  BY <1>5, <1>6

\* record_usage leaves what is reserved as it was.
LEMMA RecordedReserves ==
  ASSUME NEW u \in Usage, NEW j \in Jobs, NEW n \in Nat, NEW x \in Accounts
  PROVE  /\ Recorded(u, j, n)[x].reservedTokens = u[x].reservedTokens
         /\ Recorded(u, j, n)[x].requestsReserved = u[x].requestsReserved
<1>1. u[x] \in Row
  BY DEF Usage
<1>2. ASSUME NEW r \in Row
      PROVE  LET s == [r EXCEPT !.usedTokens = @ + n, !.requestsUsed = @ + 1]
             IN  s.reservedTokens = r.reservedTokens /\ s.requestsReserved = r.requestsReserved
  BY DEF Row
<1>3. QED
  BY <1>1, <1>2 DEF Recorded

\* Extends is reflexive on usages, and transitive.
LEMMA ExtendsOrder ==
  /\ \A u \in Usage : Extends(u, u)
  /\ \A u, t, s \in Usage : Extends(u, t) /\ Extends(t, s) => Extends(u, s)
<1>1. \A u \in Usage, x \in Accounts : u[x].reservedTokens \in Nat /\ u[x].requestsReserved \in Nat
  BY DEF Usage, Row
<1>2. QED
  BY <1>1 DEF Extends

\* What a session reads is within the limits and extends the committed row.
LEMMA ViewWithin ==
  ASSUME LedgerInv, NEW w \in Workers, NEW m \in Minutes
  PROVE  /\ View(w, m) \in Usage /\ Within(View(w, m))
         /\ m \in DOMAIN ledger => ledger[m] \in Usage /\ Extends(View(w, m), ledger[m])
<1>1. View(w, m) \in Usage
  BY LedgerTypes, ViewIsUsage
<1>2. Within(NewUsage)
  <2>1. ASSUME NEW c \in Customers, NEW j \in JobsOf(c)
        PROVE  NewUsage[c].reservedTokens <= Budget[j]
    BY TokenBudgetAssumption DEF NewUsage, Accounts, JobsOf
  <2>2. InBudget(NewUsage)
    BY <2>1 DEF InBudget
  <2>3. QED
    BY <2>2, TokenBudgetAssumption DEF Within, NewUsage, Accounts
<1>3. Within(View(w, m))
  BY <1>2 DEF View, LedgerInv, DraftsWithin, LedgerWithin
<1>4. m \in DOMAIN ledger => ledger[m] \in Usage
  BY LedgerTypes DEF RowsByMinute
<1>5. m \in DOMAIN ledger => Extends(View(w, m), ledger[m])
  BY <1>4, ExtendsOrder DEF View, LedgerInv, DraftsExtend
<1>6. QED
  BY <1>1, <1>3, <1>4, <1>5

\* A step that neither changes the ledger nor, but for emptying some, the drafts keeps
\* the invariant.
LEMMA LedgerIdle ==
  ASSUME LedgerInv, TypeOK', ledger' = ledger,
         \A w \in Workers : draft'[w] = draft[w] \/ DOMAIN draft'[w] = {}
  PROVE  LedgerInv'
<1>1. \A w \in Workers : /\ DOMAIN draft'[w] \subseteq DOMAIN draft[w]
                         /\ \A m \in DOMAIN draft'[w] : draft'[w][m] = draft[w][m]
  OBVIOUS
<1>2. DraftsExclusive'
  BY <1>1 DEF LedgerInv, DraftsExclusive
<1>3. DraftsWithin'
  BY <1>1 DEF LedgerInv, DraftsWithin, Within, InBudget
<1>4. DraftsExtend'
  BY <1>1 DEF LedgerInv, DraftsExtend, Extends
<1>5. LedgerWithin'
  BY DEF LedgerInv, LedgerWithin, Within, InBudget
<1>6. QED
  BY <1>2, <1>3, <1>4, <1>5 DEF LedgerInv

\* A step that locks one more minute, which nobody else has locked, with rows within the
\* limits that extend the ones it reads.
LEMMA LedgerLock ==
  ASSUME LedgerInv, TypeOK', NEW w \in Workers, NEW d \in Usage,
         window[w] \in Minutes, RowsByMinute(draft[w]), View(w, window[w]) \in Usage,
         Locks(w), ledger' = ledger,
         draft' = [draft EXCEPT ![w] = Drafted(w, d)],
         Within(d), Extends(d, View(w, window[w]))
  PROVE  LedgerInv'
<1> DEFINE u == View(w, window[w])
<1>1. /\ DOMAIN draft'[w] = DOMAIN draft[w] \cup {window[w]}
      /\ draft'[w][window[w]] = d
      /\ \A m \in DOMAIN draft[w] \ {window[w]} : draft'[w][m] = draft[w][m]
      /\ \A v \in Workers \ {w} : draft'[v] = draft[v]
  <2>1. draft'[w] = Drafted(w, d)
    BY LedgerTypes
  <2>2. QED
    BY <2>1, DraftedRows, LedgerTypes
<1>2. \A v \in Workers \ {w} : window[w] \notin DOMAIN draft[v]
  BY DEF Locks, Free
<1>3. DraftsExclusive'
  <2>1. ASSUME NEW x \in Workers, NEW v \in Workers, x # v
        PROVE  DOMAIN draft'[x] \cap DOMAIN draft'[v] = {}
    <3>1. DOMAIN draft[x] \cap DOMAIN draft[v] = {}
      BY <2>1 DEF LedgerInv, DraftsExclusive
    <3>2. CASE x = w
      BY <1>1, <1>2, <2>1, <3>1, <3>2
    <3>3. CASE v = w
      BY <1>1, <1>2, <2>1, <3>1, <3>3
    <3>4. CASE x # w /\ v # w
      BY <1>1, <3>1, <3>4
    <3>5. QED
      BY <3>2, <3>3, <3>4
  <2>2. QED
    BY <2>1 DEF DraftsExclusive
<1>4. DraftsWithin'
  <2>1. ASSUME NEW v \in Workers, NEW m \in DOMAIN draft'[v] PROVE Within(draft'[v][m])
    BY <1>1 DEF LedgerInv, DraftsWithin
  <2>2. QED
    BY <2>1 DEF DraftsWithin, Within, InBudget
<1>5. DraftsExtend'
  <2>1. ASSUME NEW v \in Workers, NEW m \in DOMAIN draft'[v] \cap DOMAIN ledger
        PROVE  Extends(draft'[v][m], ledger[m])
    <3>1. CASE v = w /\ m = window[w]
      <4>1. u \in Usage /\ ledger[m] \in Usage /\ Extends(u, ledger[m])
        BY <3>1, ViewWithin
      <4>2. QED
        BY <1>1, <3>1, <4>1, ExtendsOrder
    <3>2. CASE ~(v = w /\ m = window[w])
      BY <1>1, <3>2 DEF LedgerInv, DraftsExtend
    <3>3. QED
      BY <3>1, <3>2
  <2>2. QED
    BY <2>1 DEF DraftsExtend, Extends
<1>6. LedgerWithin'
  BY DEF LedgerInv, LedgerWithin, Within, InBudget
<1>7. QED
  BY <1>3, <1>4, <1>5, <1>6 DEF LedgerInv

\* Reserve adds one locked minute, whose rows it reads as nobody else can write them.
LEMMA LedgerReserve ==
  ASSUME LedgerInv, TypeOK', NEW w \in Workers, Reserve(w)
  PROVE  LedgerInv' /\ ledger' = ledger
<1> DEFINE u == View(w, window[w])
<1>1. /\ cur[w] \in Jobs /\ window[w] \in Minutes /\ RowsByMinute(draft[w])
      /\ u \in Usage /\ Reserved(u, cur[w]) \in Usage
  BY ReserveRows DEF LedgerInv, Reserve
<1>2. PICK d \in Usage :
        /\ draft' = [draft EXCEPT ![w] = Drafted(w, d)]
        /\ Within(d) /\ Extends(d, u)
  <2>1. Within(u)
    BY <1>1, ViewWithin
  <2>2. Extends(u, u) /\ Extends(Reserved(u, cur[w]), u)
    BY <1>1, ExtendsOrder, ReservedGrows
  <2>3. Admits(u, cur[w]) => Within(Reserved(u, cur[w]))
    BY <1>1, <2>1, ReservedGrows
  <2>4. CASE Admits(u, cur[w])
    BY <1>1, <2>2, <2>3, <2>4 DEF Reserve
  <2>5. CASE ~Admits(u, cur[w])
    BY <1>1, <2>1, <2>2, <2>5 DEF Reserve
  <2>6. QED
    BY <2>4, <2>5
<1>3. Locks(w) /\ ledger' = ledger
  BY DEF Reserve
<1>4. QED
  BY <1>1, <1>2, <1>3, LedgerLock

\* So does a record that waits for its job.
LEMMA LedgerWait ==
  ASSUME LedgerInv, TypeOK', NEW w \in Workers, WaitForRow(w)
  PROVE  LedgerInv' /\ ledger' = ledger
<1>1. /\ window[w] \in Minutes /\ RowsByMinute(draft[w]) /\ View(w, window[w]) \in Usage
      /\ Locks(w) /\ ledger' = ledger
      /\ draft' = [draft EXCEPT ![w] = Drafted(w, View(w, window[w]))]
  BY TypeWaitForRow DEF LedgerInv, WaitForRow
<1>2. Within(View(w, window[w])) /\ Extends(View(w, window[w]), View(w, window[w]))
  BY <1>1, ViewWithin, ExtendsOrder
<1>3. QED
  BY <1>1, <1>2, LedgerLock

\* A write to the ledger by w, of rows within the limits that extend the old ones, for
\* minutes that no other transaction has locked, keeps the invariant, and nothing that
\* was reserved is lost by it.
LEMMA LedgerWrite ==
  ASSUME LedgerInv, TypeOK', NEW w \in Workers, NEW new, RowsByMinute(new),
         ledger' = Overlay(new, ledger),
         draft' = [draft EXCEPT ![w] = NoRows],
         \A m \in DOMAIN new : Within(new[m]),
         \A m \in DOMAIN new \cap DOMAIN ledger : Extends(new[m], ledger[m]),
         \A v \in Workers \ {w} : DOMAIN draft[v] \cap DOMAIN new = {}
  PROVE  /\ LedgerInv'
         /\ DOMAIN ledger \subseteq DOMAIN ledger'
         /\ \A m \in DOMAIN ledger : Extends(ledger'[m], ledger[m])
<1>1. /\ DOMAIN ledger' = DOMAIN new \cup DOMAIN ledger
      /\ \A m \in DOMAIN new : ledger'[m] = new[m]
      /\ \A m \in DOMAIN ledger \ DOMAIN new : ledger'[m] = ledger[m]
  <2>1. RowsByMinute(ledger)
    BY LedgerTypes
  <2>2. /\ DOMAIN Overlay(new, ledger) = DOMAIN new \cup DOMAIN ledger
        /\ \A m \in DOMAIN new : Overlay(new, ledger)[m] = new[m]
        /\ \A m \in DOMAIN ledger \ DOMAIN new : Overlay(new, ledger)[m] = ledger[m]
    BY DEF Overlay
  <2>3. QED
    BY <2>2
<1>2. /\ DOMAIN draft'[w] = {}
      /\ \A v \in Workers \ {w} : draft'[v] = draft[v]
  BY LedgerTypes, EmptyFunctions
<1>3. ASSUME NEW m \in DOMAIN ledger PROVE Extends(ledger'[m], ledger[m])
  <2>1. ledger[m] \in Usage
    BY LedgerTypes DEF RowsByMinute
  <2>2. QED
    BY <1>1, <2>1, ExtendsOrder
<1>4. DraftsExclusive'
  BY <1>2 DEF LedgerInv, DraftsExclusive
<1>5. DraftsWithin'
  <2>1. ASSUME NEW v \in Workers, NEW m \in DOMAIN draft'[v] PROVE Within(draft'[v][m])
    BY <1>2 DEF LedgerInv, DraftsWithin
  <2>2. QED
    BY <2>1 DEF DraftsWithin, Within, InBudget
<1>6. DraftsExtend'
  <2>1. ASSUME NEW v \in Workers, NEW m \in DOMAIN draft'[v] \cap DOMAIN ledger'
        PROVE  Extends(draft'[v][m], ledger'[m])
    <3>1. v # w /\ draft'[v] = draft[v] /\ m \notin DOMAIN new
      BY <1>2
    <3>2. QED
      BY <1>1, <3>1 DEF LedgerInv, DraftsExtend
  <2>2. QED
    BY <2>1 DEF DraftsExtend, Extends
<1>7. LedgerWithin'
  <2>1. ASSUME NEW m \in DOMAIN ledger' PROVE Within(ledger'[m])
    BY <1>1 DEF LedgerInv, LedgerWithin
  <2>2. QED
    BY <2>1 DEF LedgerWithin, Within, InBudget
<1>8. QED
  BY <1>1, <1>3, <1>4, <1>5, <1>6, <1>7 DEF LedgerInv

\* The commit of a claim writes its draft.
LEMMA LedgerCommit ==
  ASSUME LedgerInv, TypeOK', NEW w \in Workers, CommitClaim(w)
  PROVE  /\ LedgerInv'
         /\ DOMAIN ledger \subseteq DOMAIN ledger'
         /\ \A m \in DOMAIN ledger : Extends(ledger'[m], ledger[m])
<1>1. ledger' = Overlay(draft[w], ledger) /\ draft' = [draft EXCEPT ![w] = NoRows]
  BY DEF CommitClaim, EndTransaction
<1>2. RowsByMinute(draft[w])
  BY LedgerTypes
<1>3. /\ \A m \in DOMAIN draft[w] : Within(draft[w][m])
      /\ \A m \in DOMAIN draft[w] \cap DOMAIN ledger : Extends(draft[w][m], ledger[m])
      /\ \A v \in Workers \ {w} : DOMAIN draft[v] \cap DOMAIN draft[w] = {}
  BY DEF LedgerInv, DraftsWithin, DraftsExtend, DraftsExclusive
<1>4. QED
  BY <1>1, <1>2, <1>3, LedgerWrite

\* The record of a call writes the rows of one minute, reservations as they were.
LEMMA LedgerRecord ==
  ASSUME LedgerInv, TypeOK', NEW w \in Workers, Record(w)
  PROVE  /\ LedgerInv'
         /\ DOMAIN ledger \subseteq DOMAIN ledger'
         /\ \A m \in DOMAIN ledger : Extends(ledger'[m], ledger[m])
<1> DEFINE u == View(w, window[w])
           r == Recorded(u, cur[w], Estimate[cur[w]])
           one == [m \in {window[w]} |-> Recorded(View(w, m), cur[w], Estimate[cur[w]])]
<1>1. window[w] \in Minutes /\ cur[w] \in Jobs
  BY TypeParts DEF LedgerInv, Record, WorkerTyped
<1>2. /\ u \in Usage /\ Within(u) /\ r \in Usage
      /\ window[w] \in DOMAIN ledger => /\ ledger[window[w]] \in Usage
                                        /\ Extends(u, ledger[window[w]])
  BY <1>1, ViewWithin, CountersAreUsage, TokenBudgetAssumption
<1>3. \A x \in Accounts : /\ r[x].reservedTokens = u[x].reservedTokens
                          /\ r[x].requestsReserved = u[x].requestsReserved
  BY <1>1, <1>2, RecordedReserves, TokenBudgetAssumption
<1>4. Within(r) /\ (window[w] \in DOMAIN ledger => Extends(r, ledger[window[w]]))
  BY <1>2, <1>3 DEF Within, InBudget, Extends, Accounts
<1>5. DOMAIN one = {window[w]} /\ one[window[w]] = r /\ RowsByMinute(one)
  BY <1>1, <1>2 DEF RowsByMinute
<1>6. ledger' = Overlay(one, ledger) /\ draft' = [draft EXCEPT ![w] = NoRows]
  BY DEF Record, NextJob, EndTransaction
<1>7. \A v \in Workers \ {w} : window[w] \notin DOMAIN draft[v]
  BY DEF Record, Locks, Free
<1> HIDE DEF one, r
<1>8. /\ \A m \in DOMAIN one : Within(one[m])
      /\ \A m \in DOMAIN one \cap DOMAIN ledger : Extends(one[m], ledger[m])
      /\ \A v \in Workers \ {w} : DOMAIN draft[v] \cap DOMAIN one = {}
  BY <1>4, <1>5, <1>7
<1>9. QED
  BY <1>5, <1>6, <1>8, LedgerWrite

\* All the other steps leave the ledger alone and at most empty a draft.
LEMMA LedgerUntouched ==
  ASSUME LedgerInv, [Next]_vars,
         ~\E w \in Workers : Reserve(w) \/ CommitClaim(w) \/ Record(w) \/ WaitForRow(w)
  PROVE  /\ ledger' = ledger
         /\ \A w \in Workers : draft'[w] = draft[w] \/ DOMAIN draft'[w] = {}
<1>1. DOMAIN draft = Workers
  BY LedgerTypes
<1>2. ASSUME NEW w \in Workers, CallFails(w) \/ FindOver(w) \/ Abort(w) \/ Crash(w)
      PROVE  ledger' = ledger /\ draft' = [draft EXCEPT ![w] = NoRows]
  BY <1>2 DEF CallFails, FindOver, Abort, Crash, NextJob, EndTick, EndTransaction
<1>3. ASSUME NEW w \in Workers,
             ClaimBatch(w) \/ SelectForReserve(w) \/ CallProvider(w) \/ SelectForRecord(w)
               \/ FindRunning(w)
      PROVE  ledger' = ledger /\ draft' = draft
  BY <1>3 DEF ClaimBatch, SelectForReserve, CallProvider, SelectForRecord, FindRunning, txVars
<1>4. ASSUME (\E j \in Jobs : RecoverStale(j) \/ Overrun(j)) \/ NextMinute \/ UNCHANGED vars
      PROVE  ledger' = ledger /\ draft' = draft
  BY <1>4 DEF RecoverStale, Overrun, NextMinute, vars, txVars
<1>5. QED
  BY <1>1, <1>2, <1>3, <1>4, EmptyFunctions DEF Next, WorkerStep

\* The initial state has neither rows nor drafts.
LEMMA LedgerInit == Init => LedgerInv
<1> SUFFICES ASSUME Init PROVE LedgerInv
  OBVIOUS
<1>1. DOMAIN ledger = {} /\ \A w \in Workers : DOMAIN draft[w] = {}
  BY EmptyFunctions DEF Init
<1>2. QED
  BY <1>1, TypeInit
     DEF LedgerInv, DraftsExclusive, DraftsWithin, DraftsExtend, LedgerWithin

\* Every step keeps the invariant, and the reservations of every minute.
LEMMA LedgerNext ==
  ASSUME LedgerInv, [Next]_vars
  PROVE  /\ LedgerInv'
         /\ DOMAIN ledger \subseteq DOMAIN ledger'
         /\ \A m \in DOMAIN ledger : Extends(ledger'[m], ledger[m])
<1>1. TypeOK'
  BY TypeNext DEF LedgerInv
<1>2. ASSUME ledger' = ledger
      PROVE  /\ DOMAIN ledger \subseteq DOMAIN ledger'
             /\ \A m \in DOMAIN ledger : Extends(ledger'[m], ledger[m])
  <2>1. \A m \in DOMAIN ledger : ledger[m] \in Usage
    BY LedgerTypes DEF RowsByMinute
  <2>2. QED
    BY <1>2, <2>1, ExtendsOrder
<1>3. ASSUME NEW w \in Workers, Reserve(w) \/ WaitForRow(w) PROVE LedgerInv' /\ ledger' = ledger
  BY <1>1, <1>3, LedgerReserve, LedgerWait
<1>4. QED
  BY <1>1, <1>2, <1>3, LedgerCommit, LedgerRecord, LedgerUntouched, LedgerIdle

\* No schedule of claims, calls, rollbacks and crashes sells more of a minute than the
\* platform's limits.
THEOREM ReservationsStayWithinLimits == Spec => []ReservedWithinLimits
<1>1. LedgerInv /\ [Next]_vars => LedgerInv'
  BY LedgerNext
<1>2. LedgerInv => ReservedWithinLimits
  BY DEF LedgerInv, LedgerWithin, Within, ReservedWithinLimits
<1>3. QED
  BY <1>1, <1>2, LedgerInit, PTL DEF Spec

\* Whatever the schedule, a customer without HIGH jobs stays within its budget.
THEOREM BudgetsHoldWithoutHigh == Spec => []OverflowIsForHigh
<1>1. LedgerInv /\ [Next]_vars => LedgerInv'
  BY LedgerNext
<1>2. LedgerInv => OverflowIsForHigh
  BY DEF LedgerInv, LedgerWithin, Within, InBudget, OverflowIsForHigh
<1>3. QED
  BY <1>1, <1>2, LedgerInit, PTL DEF Spec

\* No step lowers a reservation or loses a row: two transactions never overwrite each
\* other's reservations.
THEOREM ReservationsAreNeverLost == Spec => ReservationsOnlyGrow
<1>1. LedgerInv /\ [Next]_vars => LedgerInv'
  BY LedgerNext
<1>2. LedgerInv /\ [Next]_vars
        => [\A m \in DOMAIN ledger, a \in Accounts :
              /\ m \in DOMAIN ledger'
              /\ ledger'[m][a].reservedTokens >= ledger[m][a].reservedTokens
              /\ ledger'[m][a].requestsReserved >= ledger[m][a].requestsReserved]_vars
  BY LedgerNext DEF Extends
<1>3. QED
  BY <1>1, <1>2, LedgerInit, PTL DEF Spec, ReservationsOnlyGrow

-----------------------------------------------------------------------------
(* The order of the locks *)

\* What a transaction has locked or is about to lock is no later than the clock.
LocksPast ==
  \A w \in Workers : window[w] <= minute /\ \A m \in DOMAIN draft[w] : m <= minute

OrderInv == LedgerInv /\ LocksPast /\ LocksInOrder

\* The order of the locks survives a step that neither locks nor selects for a lock.
LEMMA OrderKept ==
  ASSUME OrderInv, LedgerInv', minute <= minute',
         NEW w \in Workers,
         \A v \in Workers \ {w} :
           draft'[v] = draft[v] /\ window'[v] = window[v] /\ pc'[v] = pc[v],
         window'[w] <= minute',
         \A m \in DOMAIN draft'[w] : m <= minute',
         pc'[w] = "reserving" => \A m \in DOMAIN draft'[w] : m <= window'[w]
  PROVE  OrderInv'
<1>1. /\ minute \in Nat /\ minute' \in Nat /\ window \in [Workers -> Minutes]
      /\ \A v \in Workers : DOMAIN draft[v] \subseteq Minutes
  <2>1. LedgerInv /\ TypeOK /\ TypeOK'
    BY DEF OrderInv, LedgerInv
  <2>2. minute \in Minutes /\ minute' \in Minutes
    BY <2>1, TypeParts, TypePartsNext
  <2>3. window \in [Workers -> Minutes] /\ \A v \in Workers : RowsByMinute(draft[v])
    BY <2>1, LedgerTypes
  <2>4. QED
    BY <2>2, <2>3 DEF Minutes, RowsByMinute
<1>2. \A v \in Workers : window[v] \in Nat /\ DOMAIN draft[v] \subseteq Nat
  BY <1>1 DEF Minutes
<1>3. ASSUME NEW v \in Workers \ {w}
      PROVE  window'[v] <= minute' /\ \A m \in DOMAIN draft'[v] : m <= minute'
  BY <1>1, <1>2 DEF OrderInv, LocksPast
<1>4. LocksPast'
  BY <1>3 DEF LocksPast
<1>5. LocksInOrder'
  BY DEF OrderInv, LocksInOrder
<1>6. QED
  BY <1>4, <1>5 DEF OrderInv

\* Every step keeps the order: a minute is selected when it is the clock's, and locked
\* when it was selected.
LEMMA OrderNext ==
  ASSUME OrderInv, [Next]_vars
  PROVE  OrderInv'
<1>1. LedgerInv'
  BY LedgerNext DEF OrderInv
<1>2. /\ minute \in Minutes /\ minute \in Nat /\ window \in [Workers -> Minutes]
      /\ pc \in [Workers -> {"idle", "claiming", "reserving", "working", "calling", "closing", "recording"}]
      /\ DOMAIN draft = Workers
      /\ \A w \in Workers : RowsByMinute(draft[w])
      /\ 0 <= minute
  BY LedgerTypes, TypeParts DEF OrderInv, LedgerInv, Minutes
<1>3. \A w \in Workers : /\ window[w] <= minute /\ window[w] \in Nat
                         /\ \A m \in DOMAIN draft[w] : m <= minute
  BY <1>2 DEF OrderInv, LocksPast, Minutes
<1>4. ASSUME NEW w \in Workers, ClaimBatch(w) \/ CallProvider(w) \/ FindRunning(w)
      PROVE  OrderInv'
  <2>1. /\ UNCHANGED <<minute, window, draft>>
        /\ \E step \in {"claiming", "calling", "closing"} : pc' = [pc EXCEPT ![w] = step]
    BY <1>4 DEF ClaimBatch, CallProvider, FindRunning, txVars
  <2>2. pc'[w] # "reserving" /\ \A v \in Workers \ {w} : pc'[v] = pc[v]
    BY <1>2, <2>1
  <2>3. QED
    BY <1>1, <1>2, <1>3, <2>1, <2>2, OrderKept
<1>5. ASSUME NEW w \in Workers, SelectForReserve(w) \/ SelectForRecord(w) PROVE OrderInv'
  <2>1. /\ window' = [window EXCEPT ![w] = minute]
        /\ UNCHANGED <<minute, draft>>
        /\ pc' = [pc EXCEPT ![w] = "reserving"] \/ pc' = [pc EXCEPT ![w] = "recording"]
    BY <1>5 DEF SelectForReserve, SelectForRecord, Select
  <2>2. window'[w] = minute /\ \A v \in Workers \ {w} : window'[v] = window[v] /\ pc'[v] = pc[v]
    BY <1>2, <2>1
  <2>3. QED
    BY <1>1, <1>2, <1>3, <2>1, <2>2, OrderKept
<1>6. ASSUME NEW w \in Workers, Reserve(w) PROVE OrderInv'
  <2>1. /\ window[w] \in Minutes /\ RowsByMinute(draft[w])
        /\ View(w, window[w]) \in Usage /\ Reserved(View(w, window[w]), cur[w]) \in Usage
    BY <1>6, ReserveRows DEF OrderInv, LedgerInv, Reserve
  <2>2. PICK d \in Usage : draft' = [draft EXCEPT ![w] = Drafted(w, d)]
    BY <1>6, <2>1 DEF Reserve
  <2>3. DOMAIN draft'[w] = DOMAIN draft[w] \cup {window[w]}
    BY <1>2, <2>1, <2>2, DraftedRows
  <2>4. /\ minute' = minute
        /\ window' = [window EXCEPT ![w] = 0] /\ pc' = [pc EXCEPT ![w] = "claiming"]
    BY <1>6 DEF Reserve
  <2>5. /\ window'[w] = 0 /\ pc'[w] = "claiming"
        /\ \A v \in Workers \ {w} :
             draft'[v] = draft[v] /\ window'[v] = window[v] /\ pc'[v] = pc[v]
    BY <1>2, <2>2, <2>4
  <2>6. QED
    BY <1>1, <1>2, <1>3, <2>3, <2>4, <2>5, OrderKept
<1>7. ASSUME NEW w \in Workers,
             CommitClaim(w) \/ CallFails(w) \/ FindOver(w) \/ Record(w) \/ Abort(w) \/ Crash(w)
      PROVE  OrderInv'
  <2>1. /\ minute' = minute
        /\ window' = [window EXCEPT ![w] = 0] /\ draft' = [draft EXCEPT ![w] = NoRows]
    BY <1>7 DEF CommitClaim, CallFails, FindOver, Record, Abort, Crash, NextJob, EndTick, EndTransaction
  <2>2. pc' = [pc EXCEPT ![w] = "idle"] \/ pc' = [pc EXCEPT ![w] = "working"]
    <3>1. CASE CommitClaim(w)
      BY <3>1 DEF CommitClaim
    <3>2. CASE CallFails(w) \/ FindOver(w) \/ Record(w)
      BY <3>2 DEF CallFails, FindOver, Record, NextJob
    <3>3. CASE Abort(w) \/ Crash(w)
      BY <3>3 DEF Abort, Crash, EndTick
    <3>4. QED
      BY <1>7, <3>1, <3>2, <3>3
  <2>3. /\ window'[w] = 0 /\ DOMAIN draft'[w] = {}
        /\ \A v \in Workers \ {w} :
             draft'[v] = draft[v] /\ window'[v] = window[v] /\ pc'[v] = pc[v]
    BY <1>2, <2>1, <2>2, EmptyFunctions
  <2>4. QED
    BY <1>1, <1>2, <2>1, <2>3, OrderKept
<1>8. ASSUME (\E j \in Jobs : RecoverStale(j) \/ Overrun(j)) \/ NextMinute \/ UNCHANGED vars
      PROVE  OrderInv'
  <2>1. UNCHANGED <<window, draft, pc>> /\ (minute' = minute \/ minute' = minute + 1)
    BY <1>8 DEF RecoverStale, Overrun, NextMinute, txVars, vars
  <2>2. \A w \in Workers : /\ window'[w] <= minute'
                           /\ \A m \in DOMAIN draft'[w] : m <= minute'
    <3>1. \A w \in Workers : DOMAIN draft[w] \subseteq Nat
      BY <1>2 DEF RowsByMinute, Minutes
    <3>2. QED
      BY <1>2, <1>3, <2>1, <3>1
  <2>3. LocksPast' /\ LocksInOrder'
    BY <2>1, <2>2 DEF OrderInv, LocksPast, LocksInOrder
  <2>4. QED
    BY <1>1, <2>3 DEF OrderInv
<1>9. ASSUME NEW w \in Workers, WaitForRow(w) PROVE OrderInv'
  <2>1. /\ window[w] \in Minutes /\ RowsByMinute(draft[w]) /\ View(w, window[w]) \in Usage
        /\ draft' = [draft EXCEPT ![w] = Drafted(w, View(w, window[w]))]
        /\ UNCHANGED <<minute, window, pc>> /\ pc[w] = "recording"
    BY <1>9, TypeWaitForRow DEF OrderInv, LedgerInv, WaitForRow
  <2>2. /\ DOMAIN draft'[w] = DOMAIN draft[w] \cup {window[w]}
        /\ \A v \in Workers \ {w} : draft'[v] = draft[v]
    BY <1>2, <2>1, DraftedRows
  <2>3. QED
    BY <1>1, <1>2, <1>3, <2>1, <2>2, OrderKept
<1>10. QED
  BY <1>4, <1>5, <1>6, <1>7, <1>8, <1>9 DEF Next, WorkerStep

\* A claim transaction locks the minutes of its batch in the order of the clock, whenever
\* its worker is delayed and whatever the others do.
THEOREM LocksAreOrdered == Spec => []LocksInOrder
<1>1. Init => OrderInv
  <2>1. Init => LocksPast /\ LocksInOrder
    BY EmptyFunctions, TokenBudgetAssumption DEF Init, LocksPast, LocksInOrder
  <2>2. QED
    BY <2>1, LedgerInit DEF OrderInv
<1>2. OrderInv /\ [Next]_vars => OrderInv'
  BY OrderNext
<1>3. OrderInv => LocksInOrder
  BY DEF OrderInv
<1>4. QED
  BY <1>1, <1>2, <1>3, PTL DEF Spec

\* The reservation of v waits for rows that w has locked.
WaitsForMinute(v, w) ==
  pc[v] = "reserving" /\ v # w /\ window[v] \in DOMAIN draft[w]

\* Along a chain of claim transactions, each waiting for a minute that the next has locked,
\* the minutes grow: the ledger alone, without the rows of the jobs, closes no chain of
\* whatever length into a deadlock.
THEOREM NoCircularWait ==
  Spec => [](\A u, v, w \in Workers : WaitsForMinute(u, v) /\ WaitsForMinute(v, w) => window[u] < window[v])
<1>1. ASSUME OrderInv, NEW u \in Workers, NEW v \in Workers, NEW w \in Workers,
             WaitsForMinute(u, v), WaitsForMinute(v, w)
      PROVE  window[u] < window[v]
  <2>1. window[u] \in Nat /\ window[v] \in Nat
    BY <1>1, LedgerTypes DEF OrderInv, Minutes
  <2>2. window[u] <= window[v]
    BY <1>1 DEF OrderInv, LocksInOrder, WaitsForMinute
  <2>3. window[u] # window[v]
    BY <1>1 DEF OrderInv, LedgerInv, DraftsExclusive, WaitsForMinute
  <2>4. QED
    BY <2>1, <2>2, <2>3
<1>2. Init => OrderInv
  <2>1. Init => LocksPast /\ LocksInOrder
    BY EmptyFunctions, TokenBudgetAssumption DEF Init, LocksPast, LocksInOrder
  <2>2. QED
    BY <2>1, LedgerInit DEF OrderInv
<1>3. OrderInv /\ [Next]_vars => OrderInv'
  BY OrderNext
<1>4. OrderInv =>
        \A u, v, w \in Workers : WaitsForMinute(u, v) /\ WaitsForMinute(v, w) => window[u] < window[v]
  BY <1>1
<1>5. QED
  BY <1>2, <1>3, <1>4, PTL DEF Spec
==============================================================================
