----------------------- MODULE PostCallWorkflowProofs -----------------------
(***************************************************************************)
(* The jobs of one interaction, for any number of deliveries, stages,      *)
(* attempts and events: what a repeated or interrupted webhook may leave   *)
(* behind, and that an interaction has one outcome as long as no worker    *)
(* outlives its lease.  Then each step of the jobs is, through the mapping *)
(* of PostCallOutcome, a step of CallOutcome, or changes nothing it sees.  *)
(***************************************************************************)
EXTENDS PostCallOutcome, FiniteSetTheorems, TLAPS

\* Keys are known by their parts.
LEMMA KeyFacts ==
  /\ Keys = {Orchestrate} \cup WorkerKeys /\ Orchestrate \notin WorkerKeys
  /\ {Recording, Llm} \cup ResultKeys \subseteq WorkerKeys
  /\ Recording # Llm /\ Recording \notin ResultKeys /\ Llm \notin ResultKeys
  /\ "short_call" \in AllStages /\ Stages \subseteq AllStages
  /\ \A s \in AllStages : Signal(s) \in ResultKeys /\ Lead(s) \in ResultKeys
  /\ \A s, t \in AllStages : /\ Signal(s) # Lead(t)
                             /\ Signal(s) = Signal(t) => s = t
                             /\ Lead(s) = Lead(t) => s = t
  /\ \A s \in AllStages : Lead(s)[1] = "lead" /\ Lead(s)[2] = s /\ Signal(s)[1] = "signal"
  /\ \A k \in Keys : k[1] = "lead" => k[2] \in AllStages /\ k = Lead(k[2])
<1> USE DEF Orchestrate, Recording, Llm, Signal, Lead, ResultKeys, Keys, WorkerKeys, AllStages
<1>2. Orchestrate \notin ResultKeys /\ Recording \notin ResultKeys /\ Llm \notin ResultKeys
  OBVIOUS
<1>3. Orchestrate \notin {Recording, Llm} /\ Recording # Llm
  OBVIOUS
<1>4. \A s \in AllStages : Signal(s) \in ResultKeys /\ Lead(s) \in ResultKeys
  OBVIOUS
<1>5. \A s, t \in AllStages : /\ Signal(s) # Lead(t)
                              /\ Signal(s) = Signal(t) => s = t
                              /\ Lead(s) = Lead(t) => s = t
  OBVIOUS
<1>6. \A k \in Keys : k[1] = "lead" => k[2] \in AllStages /\ k = Lead(k[2])
  OBVIOUS
<1>7. QED
  BY <1>2, <1>3, <1>4, <1>5, <1>6

-----------------------------------------------------------------------------
(* Types *)

\* The status of a job, and the places of a delivery.
Status == {"absent", "ready", "leased", "succeeded", "dead"}
Places == {"new", "marked", "inserting", "done", "failed"}

\* Counters.
LEMMA Bumped ==
  ASSUME NEW S, NEW f \in [S -> Nat], NEW x \in S
  PROVE  [f EXCEPT ![x] = @ + 1] \in [S -> Nat]
OBVIOUS

LEMMA SpendType ==
  ASSUME spent \in [Events -> Nat], NEW e \in Events, Spend(e)
  PROVE  spent' \in [Events -> Nat]
BY Bumped DEF Spend

\* Creating jobs keeps a job table a job table.
LEMMA CreatedType ==
  ASSUME NEW ks, jobs \in [Keys -> Status]
  PROVE  Created(jobs, ks) \in [Keys -> Status]
BY DEF Created, Status

\* An interaction before its first delivery.
LEMMA InitType == Init => TypeOK
<1> SUFFICES ASSUME Init PROVE TypeOK
  OBVIOUS
<1>1. payload \in Payloads
  BY PostCallWorkflowAssumption DEF Init
<1>2. at \in [Keys -> [Phases -> Nat]]
  BY DEF Init
<1>3. QED
  BY <1>1, <1>2 DEF Init, TypeOK

\* Workers come and go.
LEMMA PlacesType ==
  ASSUME at \in [Keys -> [Phases -> Nat]], NEW k \in Keys, NEW p \in Phases, NEW q \in Phases
  PROVE  /\ Enter(k, p) => at' \in [Keys -> [Phases -> Nat]]
         /\ Leave(k, p) => at' \in [Keys -> [Phases -> Nat]]
         /\ Move(k, p, q) => at' \in [Keys -> [Phases -> Nat]]
BY DEF Enter, Leave, Move

\* A step of a delivery keeps the types.
LEMMA DeliveryType ==
  ASSUME TypeOK, NEW d \in Deliveries, DeliveryStep(d)
  PROVE  TypeOK'
<1> USE DEF TypeOK, deliveryVars, resultVars
<1>0. {"crash", "redelivery"} \subseteq Events
  BY DEF Events
<1>1. CASE MarkEnded(d)
  BY <1>1 DEF MarkEnded
<1>2. CASE FindQueued(d)
  BY <1>2 DEF FindQueued, Deliver, LeaveAs
<1>3. CASE FindAbsent(d)
  BY <1>3 DEF FindAbsent
<1>4. CASE Insert(d)
  <2>1. jobs' \in [Keys -> Status]
    BY <1>4, CreatedType DEF Insert, Status
  <2>2. payload' \in Payloads
    BY <1>4 DEF Insert
  <2>3. QED
    BY <1>4, <2>1, <2>2 DEF Insert, Deliver, LeaveAs, Status
<1>5. CASE Collide(d)
  BY <1>5 DEF Collide, LeaveAs
<1>6. CASE DeliveryCrashes(d)
  BY <1>0, <1>6, SpendType DEF DeliveryCrashes, LeaveAs
<1>7. CASE Redeliver(d)
  BY <1>0, <1>7, SpendType DEF Redeliver
<1>8. QED
  BY <1>1, <1>2, <1>3, <1>4, <1>5, <1>6, <1>7 DEF DeliveryStep

\* A step of the orchestrator keeps the types.
LEMMA OrchestratorType ==
  ASSUME TypeOK, OrchestrateSucceeds \/ OrchestrateRaises
  PROVE  TypeOK'
<1> USE DEF TypeOK, deliveryVars, resultVars
<1>0. Orchestrate \in Keys
  BY KeyFacts
<1>1. CASE OrchestrateSucceeds
  <2>1. jobs' \in [Keys -> Status]
    BY <1>1, CreatedType DEF OrchestrateSucceeds, Status
  <2>2. attempts' \in [Keys -> Nat] /\ analysis' \in {"queued", "skipped"}
    BY <1>0, <1>1, Bumped DEF OrchestrateSucceeds
  <2>3. QED
    BY <1>1, <2>1, <2>2 DEF OrchestrateSucceeds, Status
<1>2. CASE OrchestrateRaises
  <2>1. jobs' \in [Keys -> Status]
    BY <1>2, CreatedType DEF OrchestrateRaises, Status, RetryOrBury
  <2>2. attempts' \in [Keys -> Nat] /\ analysis' \in {"queued", analysis}
    BY <1>0, <1>2, Bumped DEF OrchestrateRaises
  <2>3. QED
    BY <1>2, <2>1, <2>2 DEF OrchestrateRaises, Status
<1>3. QED
  BY <1>1, <1>2

\* A step of a worker keeps the types.
LEMMA WorkerType ==
  ASSUME TypeOK, NEW k \in WorkerKeys, JobStep(k)
  PROVE  TypeOK'
<1> USE DEF TypeOK, deliveryVars, resultVars
<1>0. k \in Keys /\ {"claimed", "called", "checked"} = Phases /\ {"crash", "overrun"} \subseteq Events
  BY DEF WorkerKeys, Phases, Events
<1>1. CASE Lease(k)
  BY <1>0, <1>1, PlacesType DEF Lease
<1>2. CASE Call(k)
  <2>1. at' \in [Keys -> [Phases -> Nat]]
    BY <1>0, <1>2, PlacesType DEF Call
  <2>2. effects' \in [ResultKeys -> Nat]
    BY <1>2, Bumped DEF Call, Effective
  <2>3. QED
    BY <1>2, <2>1, <2>2 DEF Call
<1>3. CASE StillRunning(k)
  BY <1>0, <1>3, PlacesType DEF StillRunning
<1>4. CASE NoLongerRunning(k)
  BY <1>0, <1>4, PlacesType DEF NoLongerRunning
<1>5. CASE Succeed(k)
  BY <1>0, <1>5, PlacesType DEF Succeed
<1>6. CASE Fail(k)
  BY <1>0, <1>6, PlacesType DEF Fail, RetryOrBury
<1>7. CASE WorkerDies(k)
  BY <1>0, <1>7, PlacesType, SpendType DEF WorkerDies
<1>8. CASE Recover(k)
  BY <1>0, <1>8 DEF Recover
<1>9. CASE Overrun(k)
  BY <1>0, <1>9, SpendType DEF Overrun
<1>10. QED
  BY <1>1, <1>2, <1>3, <1>4, <1>5, <1>6, <1>7, <1>8, <1>9 DEF JobStep

\* Every step keeps the types.
LEMMA TypeNext == TypeOK /\ [Next]_vars => TypeOK'
<1> SUFFICES ASSUME TypeOK, [Next]_vars PROVE TypeOK'
  OBVIOUS
<1> USE DEF TypeOK, deliveryVars, resultVars
<1>0. Llm \in Keys /\ Recording \in Keys /\ {"claimed", "called", "checked"} = Phases
      /\ "denial" \in Events
  BY KeyFacts DEF Phases, Events
<1>1. ASSUME NEW d \in Deliveries, DeliveryStep(d) PROVE TypeOK'
  BY <1>1, DeliveryType
<1>2. CASE OrchestrateSucceeds \/ OrchestrateRaises
  BY <1>2, OrchestratorType
<1>3. ASSUME NEW k \in WorkerKeys, JobStep(k) PROVE TypeOK'
  BY <1>3, WorkerType
<1>4. CASE Deny
  BY <1>0, <1>4, Bumped, SpendType DEF Deny
<1>5. CASE GiveUpRecording
  BY <1>0, <1>5, PlacesType DEF GiveUpRecording
<1>6. ASSUME NEW s \in Stages, Analyse(s) PROVE TypeOK'
  <2>1. jobs' \in [Keys -> Status]
    BY <1>6, CreatedType DEF Analyse, Status
  <2>2. at' \in [Keys -> [Phases -> Nat]]
    BY <1>0, <1>6, PlacesType DEF Analyse
  <2>3. QED
    BY <1>6, <2>1, <2>2 DEF Analyse, Status
<1>7. CASE UNCHANGED vars
  BY <1>7 DEF vars
<1>8. QED
  BY <1>1, <1>2, <1>3, <1>4, <1>5, <1>6, <1>7 DEF Next, Rest

-----------------------------------------------------------------------------
(* Deliveries *)

\* What a delivery has seen and holds: its place tells whether it has the interaction's
\* row, and what was queued after a webhook looked, a legacy task queued.
DeliveryInv ==
  /\ jobs[Orchestrate] = "absent" => author = Nobody
  /\ \A d \in Webhooks :
       /\ dpc[d] \in {"marked", "inserting"} => rowLock = d
       /\ dpc[d] = "inserting" /\ jobs[Orchestrate] # "absent" => author \in LegacyTasks
  /\ EndedIsQueued /\ WebhooksTakeTurns

\* Jobs are not deleted.
LEMMA JobsStay ==
  ASSUME TypeOK, [Next]_vars, NEW k \in Keys, jobs[k] # "absent"
  PROVE  jobs'[k] # "absent"
<1> USE DEF TypeOK, deliveryVars, resultVars
<1>1. ASSUME NEW d \in Deliveries, DeliveryStep(d) PROVE jobs'[k] # "absent"
  BY <1>1 DEF DeliveryStep, MarkEnded, FindQueued, FindAbsent, Insert, Collide, DeliveryCrashes,
              Redeliver, Created
<1>2. CASE OrchestrateSucceeds \/ OrchestrateRaises
  BY <1>2 DEF OrchestrateSucceeds, OrchestrateRaises, Created, RetryOrBury
<1>3. ASSUME NEW l \in WorkerKeys, JobStep(l) PROVE jobs'[k] # "absent"
  BY <1>3 DEF JobStep, Lease, Call, StillRunning, NoLongerRunning, Succeed, Fail, WorkerDies,
              Recover, Overrun, RetryOrBury
<1>4. CASE Deny \/ GiveUpRecording
  BY <1>4 DEF Deny, GiveUpRecording
<1>5. ASSUME NEW s \in Stages, Analyse(s) PROVE jobs'[k] # "absent"
  BY <1>5 DEF Analyse, Created
<1>6. CASE UNCHANGED vars
  BY <1>6 DEF vars
<1>7. QED
  BY <1>1, <1>2, <1>3, <1>4, <1>5, <1>6 DEF Next, Rest

\* Only deliveries change what is theirs, and only they queue the first job.
LEMMA DeliveriesAlone ==
  ASSUME TypeOK, [Next]_vars, \A d \in Deliveries : ~ DeliveryStep(d)
  PROVE  UNCHANGED deliveryVars /\ (jobs[Orchestrate] = "absent" => jobs'[Orchestrate] = "absent")
<1> USE DEF TypeOK, deliveryVars, resultVars
<1>0. Orchestrate \in Keys /\ Orchestrate \notin WorkerKeys /\ {Recording, Llm} \subseteq WorkerKeys
  BY KeyFacts
<1>1. CASE OrchestrateSucceeds \/ OrchestrateRaises
  BY <1>1 DEF OrchestrateSucceeds, OrchestrateRaises
<1>2. ASSUME NEW k \in WorkerKeys, JobStep(k)
      PROVE  UNCHANGED deliveryVars /\ jobs'[Orchestrate] = jobs[Orchestrate]
  BY <1>0, <1>2 DEF JobStep, Lease, Call, StillRunning, NoLongerRunning, Succeed, Fail, WorkerDies,
                    Recover, Overrun
<1>3. CASE Deny \/ GiveUpRecording
  BY <1>0, <1>3 DEF Deny, GiveUpRecording
<1>4. ASSUME NEW s \in Stages, Analyse(s)
      PROVE  UNCHANGED deliveryVars /\ jobs'[Orchestrate] = jobs[Orchestrate]
  <2>1. Orchestrate \notin {Signal(s), Lead(s), Llm}
    BY <1>0, KeyFacts
  <2>2. QED
    BY <1>0, <1>4, <2>1 DEF Analyse, Created
<1>5. CASE UNCHANGED vars
  BY <1>5 DEF vars
<1>6. QED
  BY <1>1, <1>2, <1>3, <1>4, <1>5 DEF Next, Rest

\* No delivery yet.
LEMMA InitDelivery == Init => DeliveryInv
BY KeyFacts DEF Init, DeliveryInv, EndedIsQueued, WebhooksTakeTurns, Deliveries

\* Every step keeps what deliveries rely on.
LEMMA DeliveryNext == TypeOK /\ DeliveryInv /\ [Next]_vars => DeliveryInv'
<1> SUFFICES ASSUME TypeOK, DeliveryInv, [Next]_vars PROVE DeliveryInv'
  OBVIOUS
<1>0. /\ Orchestrate \in Keys
      /\ jobs[Orchestrate] # "absent" => jobs'[Orchestrate] # "absent"
      /\ Webhooks \subseteq Deliveries /\ LegacyTasks \subseteq Deliveries
      /\ Webhooks \cap LegacyTasks = {} /\ Nobody \notin Deliveries
  BY KeyFacts, JobsStay, PostCallWorkflowAssumption DEF Deliveries
<1>1. CASE \A d \in Deliveries : ~ DeliveryStep(d)
  BY <1>0, <1>1, DeliveriesAlone
     DEF DeliveryInv, EndedIsQueued, WebhooksTakeTurns, deliveryVars
<1>2. ASSUME NEW e \in Deliveries, DeliveryStep(e) PROVE DeliveryInv'
  <2> USE <1>0 DEF TypeOK, DeliveryInv, EndedIsQueued, WebhooksTakeTurns, deliveryVars, resultVars
  <2>1. CASE MarkEnded(e)
    BY <2>1 DEF MarkEnded
  <2>2. CASE FindQueued(e)
    BY <2>2 DEF FindQueued, Deliver, LeaveAs, ReadyToLook
  <2>3. CASE FindAbsent(e)
    BY <2>3 DEF FindAbsent, ReadyToLook
  <2>4. CASE Insert(e)
    BY <2>4 DEF Insert, Deliver, LeaveAs, Created, Deliveries
  <2>5. CASE Collide(e)
    BY <2>5 DEF Collide, LeaveAs
  <2>6. CASE DeliveryCrashes(e)
    BY <2>6 DEF DeliveryCrashes, LeaveAs
  <2>7. CASE Redeliver(e)
    BY <2>7 DEF Redeliver
  <2>8. QED
    BY <1>2, <2>1, <2>2, <2>3, <2>4, <2>5, <2>6, <2>7 DEF DeliveryStep
<1>3. QED
  BY <1>1, <1>2

-----------------------------------------------------------------------------
(* The analysis *)

Idle(k) == \A p \in Phases : at[k][p] = 0

\* There is nobody at a job that is not there, no other job before that of the orchestrator,
\* and no analysis before the orchestration or of a short call.
AnalysisInv ==
  /\ \A k \in WorkerKeys : jobs[k] = "absent" => Idle(k)
  /\ jobs[Orchestrate] = "absent" => \A k \in WorkerKeys : jobs[k] = "absent"
  /\ jobs[Orchestrate] \in {"absent", "ready"} =>
       jobs[Llm] = "absent" /\ analysis \in {"none", "queued"}
  /\ analysis = "skipped" => jobs[Llm] = "absent"

LEMMA InitAnalysis == Init => AnalysisInv
<1> SUFFICES ASSUME Init PROVE AnalysisInv
  OBVIOUS
<1>1. \A k \in WorkerKeys : k \in Keys
  BY DEF WorkerKeys
<1>2. QED
  BY <1>1, KeyFacts DEF Init, AnalysisInv, Idle

\* A worker that is at a job found it there.
LEMMA WorkedIsThere ==
  ASSUME TypeOK, AnalysisInv, NEW k \in WorkerKeys, NEW p \in Phases, at[k][p] > 0
  PROVE  jobs[k] # "absent"
BY DEF AnalysisInv, Idle

\* What the steps of workers other than Analyse do to jobs: none appears, none succeeds
\* that carries the analysis, and nobody comes to a job that is not there.
LEMMA JobStepKeeps ==
  ASSUME TypeOK, AnalysisInv, NEW k \in WorkerKeys, JobStep(k)
  PROVE  /\ \A i \in Keys : jobs'[i] = "absent" <=> jobs[i] = "absent"
         /\ \A i \in Keys : i # k => jobs'[i] = jobs[i] /\ at'[i] = at[i]
         /\ jobs[k] = "absent" => UNCHANGED jobs /\ UNCHANGED at
         /\ jobs'[Llm] = "succeeded" => jobs[Llm] = "succeeded"
         /\ analysis' = analysis
<1> USE DEF TypeOK, resultVars
<1>0. /\ k \in Keys /\ {"claimed", "called", "checked"} = Phases
      /\ Llm \in Keys
  BY KeyFacts DEF WorkerKeys, Phases
<1>1. \A p \in Phases : at[k][p] > 0 => jobs[k] # "absent"
  BY WorkedIsThere
<1> USE <1>0, <1>1
<1>2. CASE Lease(k)
  BY <1>2 DEF Lease, Enter
<1>3. CASE Call(k)
  BY <1>3 DEF Call, Move
<1>4. CASE StillRunning(k)
  BY <1>4 DEF StillRunning, Move
<1>5. CASE NoLongerRunning(k)
  BY <1>5 DEF NoLongerRunning, Leave
<1>6. CASE Succeed(k)
  BY <1>6 DEF Succeed, Leave
<1>7. CASE Fail(k)
  BY <1>7 DEF Fail, Leave, RetryOrBury
<1>8. CASE WorkerDies(k)
  BY <1>8 DEF WorkerDies, Leave
<1>9. CASE Recover(k) \/ Overrun(k)
  BY <1>9 DEF Recover, Overrun
<1>10. QED
  BY <1>2, <1>3, <1>4, <1>5, <1>6, <1>7, <1>8, <1>9 DEF JobStep

\* Every step keeps what is known of the analysis, and moves it on only.
LEMMA AnalysisNext ==
  ASSUME TypeOK, AnalysisInv, [Next]_vars
  PROVE  AnalysisInv' /\ (analysis \in {"skipped", "completed"} => analysis' = analysis)
<1> USE DEF TypeOK, deliveryVars, resultVars
<1> DEFINE Goal == AnalysisInv' /\ (analysis \in {"skipped", "completed"} => analysis' = analysis)
<1>0. /\ Orchestrate \in Keys /\ Orchestrate \notin WorkerKeys
      /\ {Recording, Llm} \subseteq WorkerKeys /\ WorkerKeys \subseteq Keys
      /\ Recording # Llm /\ "checked" \in Phases /\ "claimed" \in Phases
      /\ \A s \in AllStages : Llm \notin {Signal(s), Lead(s)}
      /\ \A s \in AllStages : Orchestrate \notin {Signal(s), Lead(s)}
      /\ Stages \subseteq AllStages /\ "short_call" \in AllStages
  BY KeyFacts DEF WorkerKeys, Phases
<1> USE <1>0
<1>1. ASSUME NEW d \in Deliveries, DeliveryStep(d) PROVE Goal
  BY <1>1 DEF DeliveryStep, MarkEnded, FindQueued, FindAbsent, Insert, Collide, Deliver,
              LeaveAs, DeliveryCrashes, Redeliver, Created, AnalysisInv, Idle
<1>2. CASE OrchestrateSucceeds
  <2>1. /\ at' = at /\ jobs'[Orchestrate] = "succeeded"
        /\ \A k \in Keys : jobs'[k] = "absent" => jobs[k] = "absent"
    BY <1>2 DEF OrchestrateSucceeds, Created
  <2>2. analysis' = "skipped" => jobs'[Llm] = jobs[Llm]
    BY <1>2, <1>0 DEF OrchestrateSucceeds, Created, Children, RecordingKeys
  <2>3. jobs[Llm] = "absent" /\ analysis \in {"none", "queued"}
    BY <1>2 DEF OrchestrateSucceeds, AnalysisInv
  <2>4. QED
    BY <2>1, <2>2, <2>3 DEF AnalysisInv, Idle
<1>3. CASE OrchestrateRaises
  <2>1. /\ at' = at
        /\ \A k \in Keys : jobs'[k] = "absent" => jobs[k] = "absent"
    BY <1>3 DEF OrchestrateRaises, Created, RetryOrBury
  <2>2. jobs'[Llm] = jobs[Llm]
    BY <1>3 DEF OrchestrateRaises, Created, RecordingKeys
  <2>3. jobs[Llm] = "absent" /\ analysis \in {"none", "queued"}
    BY <1>3 DEF OrchestrateRaises, AnalysisInv
  <2>4. analysis' \in {"none", "queued"}
    BY <1>3, <2>3 DEF OrchestrateRaises
  <2>5. jobs'[Orchestrate] \in {"ready", "dead"}
    BY <1>3 DEF OrchestrateRaises, RetryOrBury, Created
  <2>6. QED
    BY <2>1, <2>2, <2>3, <2>4, <2>5 DEF AnalysisInv, Idle
<1>4. ASSUME NEW k \in WorkerKeys, JobStep(k) PROVE Goal
  <2>1. \A i \in WorkerKeys : jobs'[i] = "absent" => Idle(i)'
    BY <1>4, JobStepKeeps DEF AnalysisInv, Idle
  <2>2. jobs'[Orchestrate] = jobs[Orchestrate]
    BY <1>4, JobStepKeeps
  <2>3. QED
    BY <1>4, <2>1, <2>2, JobStepKeeps DEF AnalysisInv
<1>5. CASE Deny
  BY <1>5 DEF Deny, AnalysisInv, Idle
<1>6. CASE GiveUpRecording
  <2>1. jobs[Recording] # "absent"
    BY <1>6, WorkedIsThere DEF GiveUpRecording, Leave
  <2>2. QED
    BY <1>6, <2>1 DEF GiveUpRecording, Leave, AnalysisInv, Idle
<1>7. ASSUME NEW s \in Stages, Analyse(s) PROVE Goal
  <2>1. jobs[Llm] # "absent" /\ at' = [at EXCEPT ![Llm]["checked"] = @ - 1]
    BY <1>7, WorkedIsThere DEF Analyse, Leave
  <2>2. jobs[Orchestrate] \notin {"absent", "ready"} /\ analysis # "skipped"
    BY <2>1 DEF AnalysisInv
  <2>3. /\ jobs'[Llm] = "succeeded" /\ jobs'[Orchestrate] = jobs[Orchestrate]
        /\ \A k \in Keys : jobs'[k] = "absent" => jobs[k] = "absent" /\ k # Llm
    BY <1>7 DEF Analyse, Created
  <2>4. analysis' = "completed"
    BY <1>7 DEF Analyse
  <2>5. QED
    BY <2>1, <2>2, <2>3, <2>4 DEF AnalysisInv, Idle
<1>8. CASE UNCHANGED vars
  BY <1>8 DEF vars, AnalysisInv, Idle
<1>9. QED
  BY <1>1, <1>2, <1>3, <1>4, <1>5, <1>6, <1>7, <1>8 DEF Next, Rest

-----------------------------------------------------------------------------
(* Effects *)

\* What a worker's place tells of the job's effect: behind the call it has happened, and
\* each effect, happened or still to come, was paid for by a claim.
EffectInv ==
  \A k \in ResultKeys :
    /\ at[k]["called"] > 0 \/ at[k]["checked"] > 0 => (Effective(k) => effects[k] > 0)
    /\ jobs[k] = "succeeded" => (Effective(k) => effects[k] > 0)
    /\ effects[k] + at[k]["claimed"] <= attempts[k]

\* The property, key by key.
LEMMA EffectsOfKeys == TypeOK /\ EffectInv => EffectsPrecedeSuccess
<1> SUFFICES ASSUME TypeOK, EffectInv, NEW s \in AllStages
             PROVE  /\ jobs[Signal(s)] = "succeeded" => effects[Signal(s)] > 0
                    /\ jobs[Lead(s)] = "succeeded" /\ payload.lead => effects[Lead(s)] > 0
                    /\ \A k \in {Signal(s), Lead(s)} : effects[k] <= attempts[k]
  BY DEF EffectsPrecedeSuccess
<1>1. /\ Signal(s) \in ResultKeys /\ Lead(s) \in ResultKeys /\ ResultKeys \subseteq Keys
      /\ Signal(s)[1] # "lead"
  BY KeyFacts
<1>2. Effective(Signal(s)) /\ (payload.lead => Effective(Lead(s)))
  BY <1>1 DEF Effective
<1>3. \A k \in ResultKeys : effects[k] \in Nat /\ attempts[k] \in Nat /\ at[k]["claimed"] \in Nat
  BY <1>1 DEF TypeOK, Phases
<1>4. QED
  BY <1>1, <1>2, <1>3 DEF EffectInv

\* Nothing has happened.
LEMMA InitEffect == Init => EffectInv
<1> SUFFICES ASSUME Init PROVE EffectInv
  OBVIOUS
<1>1. ResultKeys \subseteq Keys
  BY KeyFacts
<1>2. QED
  BY <1>1 DEF Init, EffectInv, Phases

\* Steps of others leave a result job's effects, claims and workers alone, and do not
\* make it succeed.
LEMMA ResultsAlone ==
  ASSUME TypeOK, [Next]_vars, \A k \in ResultKeys : ~ JobStep(k)
  PROVE  /\ UNCHANGED effects
         /\ \A k \in ResultKeys : /\ at'[k] = at[k] /\ attempts'[k] = attempts[k]
                                  /\ jobs'[k] = "succeeded" => jobs[k] = "succeeded"
<1> USE DEF TypeOK, deliveryVars, resultVars
<1> DEFINE Alone == /\ UNCHANGED effects
                    /\ \A k \in ResultKeys : /\ at'[k] = at[k] /\ attempts'[k] = attempts[k]
                                             /\ jobs'[k] = "succeeded" => jobs[k] = "succeeded"
<1>0. /\ ResultKeys \subseteq Keys /\ {Orchestrate, Recording, Llm} \subseteq Keys
      /\ Orchestrate \notin ResultKeys /\ Recording \notin ResultKeys /\ Llm \notin ResultKeys
  BY KeyFacts
<1>1. ASSUME NEW d \in Deliveries, DeliveryStep(d) PROVE Alone
  BY <1>0, <1>1 DEF DeliveryStep, MarkEnded, FindQueued, FindAbsent, Insert, Collide, Deliver,
                    LeaveAs, DeliveryCrashes, Redeliver, Created
<1>2. CASE OrchestrateSucceeds \/ OrchestrateRaises
  BY <1>0, <1>2 DEF OrchestrateSucceeds, OrchestrateRaises, Created
<1>3. ASSUME NEW k \in WorkerKeys, JobStep(k) PROVE Alone
  <2>1. k \in {Recording, Llm} /\ k \notin ResultKeys /\ k \in Keys
    BY <1>0, <1>3, KeyFacts DEF WorkerKeys, Keys, Recording, Llm
  <2>3. CASE Call(k)
    BY <1>0, <2>1, <2>3 DEF Call, Move, Effective
  <2>4. CASE ~ Call(k)
    BY <1>0, <1>3, <2>1, <2>4
       DEF JobStep, Lease, StillRunning, NoLongerRunning, Succeed, Fail, WorkerDies, Recover,
           Overrun, Enter, Leave, Move
  <2>5. QED
    BY <2>3, <2>4
<1>4. CASE Deny \/ GiveUpRecording
  BY <1>0, <1>4 DEF Deny, GiveUpRecording, Leave
<1>5. ASSUME NEW s \in Stages, Analyse(s) PROVE Alone
  BY <1>0, <1>5 DEF Analyse, Created, Leave
<1>6. CASE UNCHANGED vars
  BY <1>6 DEF vars
<1>7. QED
  BY <1>1, <1>2, <1>3, <1>4, <1>5, <1>6, KeyFacts DEF Next, Rest

\* A worker's move, seen from the places.
LEMMA PlacesFacts ==
  ASSUME at \in [Keys -> [Phases -> Nat]], NEW k \in Keys, NEW i \in Keys,
         NEW p \in Phases, NEW q \in Phases
  PROVE  /\ Enter(k, p) => at'[i][q] = IF k = i /\ p = q THEN at[i][q] + 1 ELSE at[i][q]
         /\ Leave(k, p) => /\ at'[i][q] = IF k = i /\ p = q THEN at[i][q] - 1 ELSE at[i][q]
                           /\ at[k][p] > 0
BY DEF Enter, Leave

\* What a worker's step does to the places, claims and status of a job.
LEMMA JobStepFacts ==
  ASSUME TypeOK, NEW k \in WorkerKeys, JobStep(k), NEW i \in Keys
  PROVE  /\ Call(k) \/ UNCHANGED effects
         /\ at'[i]["called"] > 0 \/ at'[i]["checked"] > 0 =>
              at[i]["called"] > 0 \/ at[i]["checked"] > 0 \/ (k = i /\ Call(k))
         /\ jobs'[i] = "succeeded" => jobs[i] = "succeeded" \/ at[i]["checked"] > 0
         /\ at'[i]["claimed"] + attempts[i] + (IF k = i /\ Call(k) THEN 1 ELSE 0)
              <= at[i]["claimed"] + attempts'[i]
<1> USE DEF TypeOK, resultVars
<1>0. /\ k \in Keys /\ {"claimed", "called", "checked"} = Phases
      /\ at[i] \in [Phases -> Nat] /\ attempts[i] \in Nat
  BY DEF WorkerKeys, Phases
<1> USE <1>0
<1>u. ~ Call(k) => UNCHANGED effects
  BY DEF JobStep, Lease, StillRunning, NoLongerRunning, Succeed, Fail, WorkerDies, Recover, Overrun
<1>c. Call(k) => jobs' = jobs /\ at[k]["claimed"] > 0
  BY DEF Call, Move
<1>n. /\ at[i]["claimed"] \in Nat /\ attempts[i] \in Nat
      /\ ~ Call(k) => (IF k = i /\ Call(k) THEN 1 ELSE 0) = 0
  BY <1>0
<1>1. CASE Lease(k) /\ ~ Call(k)
  <2>1. /\ at'[i]["called"] = at[i]["called"] /\ at'[i]["checked"] = at[i]["checked"]
        /\ at'[i]["claimed"] = IF k = i THEN at[i]["claimed"] + 1 ELSE at[i]["claimed"]
    <3>1. Enter(k, "claimed") /\ "claimed" \in Phases
      BY <1>1 DEF Lease
    <3>2. \A q \in Phases : at'[i][q] = IF k = i /\ "claimed" = q THEN at[i][q] + 1 ELSE at[i][q]
      BY <3>1, PlacesFacts
    <3>3. QED
      BY <3>2
  <2>2. /\ attempts'[i] = IF k = i THEN attempts[i] + 1 ELSE attempts[i]
        /\ jobs'[i] # "succeeded" \/ jobs'[i] = jobs[i]
    BY <1>1 DEF Lease
  <2>3. QED
    BY <1>1, <1>u, <1>n, <2>1, <2>2
<1>2. CASE Call(k)
  <2>1. k = i => at'[i]["claimed"] = at[i]["claimed"] - 1 /\ at[i]["claimed"] > 0
    BY <1>2 DEF Call, Move
  <2>2. k # i => at'[i] = at[i]
    BY <1>2 DEF Call, Move
  <2>3. jobs' = jobs /\ attempts' = attempts
    BY <1>2 DEF Call
  <2>4. k = i => /\ at'[i]["claimed"] + attempts[i] + 1 <= at[i]["claimed"] + attempts'[i]
    BY <2>1, <2>3
  <2>5. k # i => at'[i]["claimed"] + attempts[i] + 0 <= at[i]["claimed"] + attempts'[i]
    BY <2>2, <2>3
  <2>6. QED
    BY <1>2, <2>2, <2>3, <2>4, <2>5
<1>3. CASE StillRunning(k)
  BY <1>3 DEF StillRunning, Move
<1>4. CASE ~ Call(k) /\ \E p \in Phases : Leave(k, p) /\ attempts' = attempts
             /\ (jobs'[i] = "succeeded" => jobs[i] = "succeeded" \/ (k = i /\ p = "checked"))
  <2>1. PICK p \in Phases : /\ Leave(k, p) /\ attempts' = attempts
               /\ (jobs'[i] = "succeeded" => jobs[i] = "succeeded" \/ (k = i /\ p = "checked"))
    BY <1>4
  <2>2. \A q \in Phases : at'[i][q] <= at[i][q] /\ at[k][p] > 0
    BY <2>1, PlacesFacts
  <2>3. \A q \in Phases : at'[i][q] \in Nat
    BY <2>1, PlacesType
  <2>4. QED
    BY <1>4, <1>u, <1>n, <2>1, <2>2, <2>3
<1>5. CASE NoLongerRunning(k) /\ ~ Call(k)
  BY <1>4, <1>5 DEF NoLongerRunning
<1>6. CASE Succeed(k) /\ ~ Call(k)
  BY <1>4, <1>6 DEF Succeed
<1>7. CASE Fail(k) /\ ~ Call(k)
  <2>1. jobs'[i] = "succeeded" => jobs[i] = "succeeded"
    BY <1>7 DEF Fail, RetryOrBury
  <2>2. QED
    BY <1>4, <1>7, <2>1 DEF Fail
<1>8. CASE WorkerDies(k) /\ ~ Call(k)
  BY <1>4, <1>8 DEF WorkerDies
<1>9. CASE (Recover(k) \/ Overrun(k)) /\ ~ Call(k)
  <2>1. at' = at /\ attempts' = attempts /\ (jobs'[i] = "succeeded" => jobs[i] = "succeeded")
    BY <1>9 DEF Recover, Overrun
  <2>2. QED
    BY <1>9, <1>u, <1>n, <2>1
<1>10. QED
  BY <1>1, <1>2, <1>3, <1>5, <1>6, <1>7, <1>8, <1>9 DEF JobStep

\* A worker's step on a result job keeps what is known of effects.
LEMMA EffectStep ==
  ASSUME TypeOK, EffectInv, NEW k \in ResultKeys, JobStep(k)
  PROVE  EffectInv'
<1> USE DEF TypeOK
<1>0. k \in WorkerKeys /\ ResultKeys \subseteq Keys
  BY KeyFacts DEF WorkerKeys
<1>1. TypeOK' /\ payload' = payload
  <2>1. payload' = payload
    BY DEF JobStep, Lease, Call, StillRunning, NoLongerRunning, Succeed, Fail, WorkerDies,
           Recover, Overrun, deliveryVars
  <2>2. QED
    BY <1>0, <2>1, WorkerType
<1> SUFFICES ASSUME NEW i \in ResultKeys
             PROVE  /\ at'[i]["called"] > 0 \/ at'[i]["checked"] > 0 => (Effective(i)' => effects'[i] > 0)
                    /\ jobs'[i] = "succeeded" => (Effective(i)' => effects'[i] > 0)
                    /\ effects'[i] + at'[i]["claimed"] <= attempts'[i]
  BY DEF EffectInv
<1>2. Effective(i)' <=> Effective(i)
  BY <1>1 DEF Effective
<1>3. effects'[i] = effects[i] + (IF k = i /\ Call(k) /\ Effective(i) THEN 1 ELSE 0)
  <2>1. CASE Call(k)
    BY <2>1 DEF Call
  <2>2. CASE ~ Call(k)
    BY <1>0, <2>2, JobStepFacts
  <2>3. QED
    BY <2>1, <2>2
<1>4. /\ effects[i] \in Nat /\ effects'[i] \in Nat
      /\ at[i]["claimed"] \in Nat /\ at'[i]["claimed"] \in Nat
      /\ attempts[i] \in Nat /\ attempts'[i] \in Nat
  BY <1>0, <1>1 DEF Phases
<1>5. /\ at[i]["called"] > 0 \/ at[i]["checked"] > 0 => (Effective(i) => effects[i] > 0)
      /\ jobs[i] = "succeeded" => (Effective(i) => effects[i] > 0)
      /\ effects[i] + at[i]["claimed"] <= attempts[i]
  BY DEF EffectInv
<1>6. /\ at'[i]["called"] > 0 \/ at'[i]["checked"] > 0 =>
            at[i]["called"] > 0 \/ at[i]["checked"] > 0 \/ (k = i /\ Call(k))
      /\ jobs'[i] = "succeeded" => jobs[i] = "succeeded" \/ at[i]["checked"] > 0
      /\ at'[i]["claimed"] + attempts[i] + (IF k = i /\ Call(k) THEN 1 ELSE 0)
              <= at[i]["claimed"] + attempts'[i]
  BY <1>0, JobStepFacts
<1>7. effects'[i] >= effects[i] /\ (k = i /\ Call(k) /\ Effective(i) => effects'[i] > 0)
  BY <1>3, <1>4
<1>8. effects'[i] + at'[i]["claimed"] <= attempts'[i]
  <2>1. CASE k = i /\ Call(k)
    <3>1. at'[i]["claimed"] + attempts[i] + 1 <= at[i]["claimed"] + attempts'[i]
      BY <1>6, <2>1
    <3>2. effects'[i] <= effects[i] + 1
      BY <1>3, <1>4
    <3>3. QED
      BY <1>4, <1>5, <3>1, <3>2
  <2>2. CASE ~ (k = i /\ Call(k))
    <3>1. at'[i]["claimed"] + attempts[i] <= at[i]["claimed"] + attempts'[i]
      BY <1>4, <1>6, <2>2
    <3>2. effects'[i] = effects[i]
      BY <1>3, <1>4, <2>2
    <3>3. QED
      BY <1>4, <1>5, <3>1, <3>2
  <2>3. QED
    BY <2>1, <2>2
<1>9. QED
  BY <1>2, <1>4, <1>5, <1>6, <1>7, <1>8

\* What the orchestrate job carries is settled once, before there is any other job.
LEMMA PayloadSettled ==
  ASSUME TypeOK, [Next]_vars
  PROVE  payload' = payload \/ jobs[Orchestrate] = "absent"
<1> USE DEF deliveryVars
<1>1. ASSUME NEW d \in Deliveries, DeliveryStep(d)
      PROVE  payload' = payload \/ jobs[Orchestrate] = "absent"
  BY <1>1 DEF DeliveryStep, MarkEnded, FindQueued, FindAbsent, Insert, Collide, DeliveryCrashes,
              Redeliver
<1>2. ASSUME NEW k \in WorkerKeys, JobStep(k) PROVE payload' = payload
  BY <1>2 DEF JobStep, Lease, Call, StillRunning, NoLongerRunning, Succeed, Fail, WorkerDies,
              Recover, Overrun
<1>3. ASSUME NEW s \in Stages, Analyse(s) PROVE payload' = payload
  BY <1>3 DEF Analyse
<1>4. QED
  BY <1>1, <1>2, <1>3
     DEF Next, Rest, vars, OrchestrateSucceeds, OrchestrateRaises, Deny, GiveUpRecording

\* Every step keeps what is known of effects.
LEMMA EffectNext == TypeOK /\ AnalysisInv /\ EffectInv /\ [Next]_vars => EffectInv'
<1> SUFFICES ASSUME TypeOK, AnalysisInv, EffectInv, [Next]_vars PROVE EffectInv'
  OBVIOUS
<1>1. CASE \A k \in ResultKeys : ~ JobStep(k)
  <2>1. /\ UNCHANGED effects
        /\ \A k \in ResultKeys : /\ at'[k] = at[k] /\ attempts'[k] = attempts[k]
                                 /\ jobs'[k] = "succeeded" => jobs[k] = "succeeded"
    BY <1>1, ResultsAlone
  <2>2. CASE payload' = payload
    BY <2>1, <2>2 DEF EffectInv, Effective
  <2>3. CASE jobs[Orchestrate] = "absent"
    <3>1. \A k \in ResultKeys : k \in WorkerKeys /\ "called" \in Phases /\ "checked" \in Phases
      BY KeyFacts DEF Phases
    <3>2. \A k \in ResultKeys : jobs[k] = "absent" /\ at[k]["called"] = 0 /\ at[k]["checked"] = 0
      BY <2>3, <3>1 DEF AnalysisInv, Idle
    <3>3. QED
      BY <2>1, <3>2 DEF EffectInv
  <2>4. QED
    BY <2>2, <2>3, PayloadSettled
<1>2. ASSUME NEW k \in ResultKeys, JobStep(k) PROVE EffectInv'
  BY <1>2, EffectStep
<1>3. QED
  BY <1>1, <1>2

-----------------------------------------------------------------------------
(* One outcome, as long as no worker outlives its lease *)

\* A leased job has one worker at most, any other job none.
OneWorker(k) ==
  /\ jobs[k] # "leased" => Idle(k)
  /\ \A p, q \in Phases : at[k][p] > 0 /\ at[k][q] > 0 => p = q /\ at[k][p] = 1

\* OneOutcome with its cardinality spelt out.
SameStage ==
  /\ Outcomes("signal") = Outcomes("lead")
  /\ \A s, t \in Outcomes("signal") : s = t
  /\ Outcomes("signal") # {} <=> (analysis \in {"completed", "skipped"})
  /\ analysis = "completed" <=> jobs[Llm] = "succeeded"
  /\ analysis = "skipped" => Outcomes("signal") = {"short_call"} /\ jobs[Llm] = "absent"

OutcomeInv == SameStage /\ \A k \in WorkerKeys : OneWorker(k)

\* The two say the same of the outcomes.
LEMMA SameStageIsOneOutcome == SameStage => OneOutcome
<1> SUFFICES ASSUME SameStage PROVE Cardinality(Outcomes("signal")) <= 1
  BY DEF SameStage, OneOutcome
<1>1. CASE Outcomes("signal") = {}
  BY <1>1, FS_EmptySet
<1>2. ASSUME NEW s \in Outcomes("signal") PROVE Cardinality(Outcomes("signal")) <= 1
  <2>1. Outcomes("signal") = {s}
    BY <1>2 DEF SameStage
  <2>2. QED
    BY <2>1, FS_Singleton
<1>3. QED
  BY <1>1, <1>2

LEMMA InitOutcome == Init => OutcomeInv
<1> SUFFICES ASSUME Init PROVE OutcomeInv
  OBVIOUS
<1>1. \A k \in WorkerKeys : k \in Keys
  BY DEF WorkerKeys
<1>2. \A k \in WorkerKeys : OneWorker(k)
  BY <1>1 DEF Init, OneWorker, Idle
<1>3. \A s \in AllStages : <<"signal", s>> \in Keys /\ <<"lead", s>> \in Keys
  BY KeyFacts DEF Signal, Lead
<1>4. Outcomes("signal") = {} /\ Outcomes("lead") = {}
  BY <1>3 DEF Init, Outcomes
<1>5. QED
  BY <1>2, <1>4, KeyFacts DEF Init, OutcomeInv, SameStage

\* A worker's step on its own job leaves it with one worker at most.
LEMMA OneWorkerStep ==
  ASSUME TypeOK, NEW k \in WorkerKeys, OneWorker(k), JobStep(k), ~ Overrun(k)
  PROVE  OneWorker(k)'
<1> USE DEF TypeOK
<1>0. /\ k \in Keys /\ Phases = {"claimed", "called", "checked"}
      /\ at[k] \in [Phases -> Nat]
  BY DEF WorkerKeys, Phases
<1> USE <1>0 DEF OneWorker, Idle
<1>1. CASE Lease(k)
  BY <1>1 DEF Lease, Enter
<1>2. CASE Call(k)
  BY <1>2 DEF Call, Move
<1>3. CASE StillRunning(k)
  BY <1>3 DEF StillRunning, Move
<1>4. CASE NoLongerRunning(k)
  BY <1>4 DEF NoLongerRunning, Leave
<1>5. CASE Succeed(k)
  BY <1>5 DEF Succeed, Leave
<1>6. CASE Fail(k)
  BY <1>6 DEF Fail, Leave
<1>7. CASE WorkerDies(k)
  BY <1>7 DEF WorkerDies, Leave
<1>8. CASE Recover(k)
  <2>1. \A p \in Phases : at[k][p] = 0
    BY <1>8 DEF Recover, AtWork
  <2>2. QED
    BY <1>8, <2>1 DEF Recover
<1>9. QED
  BY <1>1, <1>2, <1>3, <1>4, <1>5, <1>6, <1>7, <1>8 DEF JobStep

\* Without overruns a job never has two workers.
LEMMA OneWorkerNext ==
  ASSUME Limits["overrun"] = 0, TypeOK, OutcomeInv, [Next]_vars, NEW k \in WorkerKeys
  PROVE  OneWorker(k)'
<1> USE DEF TypeOK, deliveryVars, resultVars
<1>0. /\ k \in Keys /\ {Recording, Llm} \subseteq WorkerKeys /\ WorkerKeys \subseteq Keys
      /\ Orchestrate \notin WorkerKeys /\ Phases = {"claimed", "called", "checked"}
      /\ at[k] \in [Phases -> Nat] /\ "overrun" \in Events
      /\ OneWorker(k)
  BY KeyFacts DEF WorkerKeys, Phases, Events, OutcomeInv
<1> USE <1>0
<1>1. ASSUME NEW d \in Deliveries, DeliveryStep(d) PROVE OneWorker(k)'
  <2>1. at' = at /\ jobs'[k] = jobs[k]
    BY <1>1 DEF DeliveryStep, MarkEnded, FindQueued, FindAbsent, Insert, Collide, Deliver,
                LeaveAs, DeliveryCrashes, Redeliver, Created
  <2>2. QED
    BY <2>1 DEF OneWorker, Idle
<1>2. CASE OrchestrateSucceeds \/ OrchestrateRaises
  <2>1. at' = at /\ (jobs'[k] = jobs[k] \/ jobs[k] = "absent")
    BY <1>2 DEF OrchestrateSucceeds, OrchestrateRaises, Created
  <2>2. QED
    BY <2>1 DEF OneWorker, Idle
<1>3. ASSUME NEW i \in WorkerKeys, JobStep(i) PROVE OneWorker(k)'
  <2>1. ~ Overrun(i)
    BY DEF Overrun, Spend
  <2>2. i # k => jobs'[k] = jobs[k] /\ at'[k] = at[k]
    BY <1>3 DEF JobStep, Lease, Call, StillRunning, NoLongerRunning, Succeed, Fail, WorkerDies,
                Recover, Overrun, Enter, Leave, Move
  <2>3. CASE i = k
    BY <1>3, <2>1, <2>3, OneWorkerStep
  <2>4. CASE i # k
    BY <2>2, <2>4 DEF OneWorker, Idle
  <2>5. QED
    BY <2>3, <2>4
<1>4. CASE Deny
  BY <1>4 DEF Deny, OneWorker, Idle
<1>5. CASE GiveUpRecording
  <2>1. OneWorker(Recording)
    BY DEF OutcomeInv
  <2>2. CASE k = Recording
    BY <1>5, <2>2 DEF GiveUpRecording, Leave, OneWorker, Idle
  <2>3. CASE k # Recording
    BY <1>5, <2>3 DEF GiveUpRecording, Leave, OneWorker, Idle
  <2>4. QED
    BY <2>2, <2>3
<1>6. ASSUME NEW s \in Stages, Analyse(s) PROVE OneWorker(k)'
  <2>1. k # Llm => at'[k] = at[k] /\ (jobs'[k] = jobs[k] \/ jobs[k] = "absent")
    BY <1>6 DEF Analyse, Leave, Created
  <2>2. CASE k = Llm
    BY <1>6, <2>2 DEF Analyse, Leave, OneWorker, Idle
  <2>3. CASE k # Llm
    BY <2>1, <2>3 DEF OneWorker, Idle
  <2>4. QED
    BY <2>2, <2>3
<1>7. CASE UNCHANGED vars
  BY <1>7 DEF vars, OneWorker, Idle
<1>8. QED
  BY <1>1, <1>2, <1>3, <1>4, <1>5, <1>6, <1>7 DEF Next, Rest

\* The outcomes, by the keys of the result jobs, now and after a step.
LEMMA OutcomesByKey ==
  /\ Outcomes("signal") = {s \in AllStages : jobs[Signal(s)] # "absent"}
  /\ Outcomes("lead") = {s \in AllStages : jobs[Lead(s)] # "absent"}
  /\ Outcomes("signal")' = {s \in AllStages : jobs'[Signal(s)] # "absent"}
  /\ Outcomes("lead")' = {s \in AllStages : jobs'[Lead(s)] # "absent"}
BY DEF Outcomes, Signal, Lead

\* The outcome is read off the result jobs there are, the analysis and its job.
LEMMA OutcomeUnread ==
  ASSUME SameStage, UNCHANGED analysis,
         \A k \in ResultKeys : jobs'[k] = "absent" <=> jobs[k] = "absent",
         jobs'[Llm] = "succeeded" <=> jobs[Llm] = "succeeded",
         jobs[Llm] = "absent" => jobs'[Llm] = "absent" \/ analysis # "skipped"
  PROVE  SameStage'
<1>1. Outcomes("signal")' = Outcomes("signal") /\ Outcomes("lead")' = Outcomes("lead")
  <2>1. \A s \in AllStages : Signal(s) \in ResultKeys /\ Lead(s) \in ResultKeys
    BY KeyFacts
  <2>2. QED
    BY <2>1, OutcomesByKey
<1>2. QED
  BY <1>1 DEF SameStage

\* Every step keeps the one outcome.
LEMMA SameStageNext ==
  ASSUME Limits["overrun"] = 0, TypeOK, AnalysisInv, OutcomeInv, [Next]_vars
  PROVE  SameStage'
<1> USE DEF TypeOK, deliveryVars, resultVars
<1>0. /\ Orchestrate \in Keys /\ {Recording, Llm} \subseteq WorkerKeys /\ WorkerKeys \subseteq Keys
      /\ ResultKeys \subseteq WorkerKeys /\ Orchestrate \notin WorkerKeys
      /\ Recording # Llm /\ Recording \notin ResultKeys /\ Llm \notin ResultKeys
      /\ Phases = {"claimed", "called", "checked"}
      /\ SameStage /\ OneWorker(Llm) /\ OneWorker(Recording)
  BY KeyFacts DEF WorkerKeys, Phases, OutcomeInv
<1> USE <1>0
<1>1. ASSUME NEW d \in Deliveries, DeliveryStep(d) PROVE SameStage'
  <2>1. UNCHANGED analysis /\ \A k \in WorkerKeys : jobs'[k] = jobs[k]
    BY <1>1 DEF DeliveryStep, MarkEnded, FindQueued, FindAbsent, Insert, Collide, Deliver,
                LeaveAs, DeliveryCrashes, Redeliver, Created
  <2>2. QED
    BY <2>1, OutcomeUnread
<1>2. ASSUME OrchestrateSucceeds \/ OrchestrateRaises
      PROVE  /\ Outcomes("signal") = {} /\ Outcomes("lead") = {}
             /\ jobs[Llm] = "absent" /\ analysis \in {"none", "queued"}
  <2>1. jobs[Orchestrate] = "ready"
    BY <1>2 DEF OrchestrateSucceeds, OrchestrateRaises
  <2>2. QED
    BY <2>1 DEF AnalysisInv, SameStage
<1>3. CASE OrchestrateSucceeds
  <2>1. CASE payload.short
    <3>1. \A s \in AllStages : /\ Signal(s) \in ResultKeys /\ Lead(s) \in ResultKeys
                               /\ jobs[Signal(s)] = "absent" /\ jobs[Lead(s)] = "absent"
      BY <1>2, <1>3, KeyFacts DEF Outcomes, Signal, Lead
    <3>2. \A s \in AllStages : /\ jobs'[Signal(s)] = "absent" <=> s # "short_call"
                               /\ jobs'[Lead(s)] = "absent" <=> s # "short_call"
      <4> SUFFICES ASSUME NEW s \in AllStages
                   PROVE  /\ jobs'[Signal(s)] = "absent" <=> s # "short_call"
                          /\ jobs'[Lead(s)] = "absent" <=> s # "short_call"
        OBVIOUS
      <4>1. Signal(s) \in Keys /\ Lead(s) \in Keys
            /\ Signal(s) # Orchestrate /\ Lead(s) # Orchestrate
            /\ Signal(s) # Recording /\ Lead(s) # Recording
        BY KeyFacts
      <4>2. /\ Signal(s) \in Children <=> s = "short_call"
            /\ Lead(s) \in Children <=> s = "short_call"
        BY <2>1, <4>1, KeyFacts DEF Children, RecordingKeys
      <4>3. QED
        BY <1>3, <3>1, <4>1, <4>2 DEF OrchestrateSucceeds, Created
    <3>3. Outcomes("signal")' = {"short_call"} /\ Outcomes("lead")' = {"short_call"}
      BY <3>2, KeyFacts, OutcomesByKey
    <3>4. jobs'[Llm] = "absent" /\ analysis' = "skipped"
      BY <1>2, <1>3, <2>1, KeyFacts DEF OrchestrateSucceeds, Created, Children, RecordingKeys
    <3>5. QED
      BY <3>3, <3>4 DEF SameStage
  <2>2. CASE ~ payload.short
    <3>1. \A k \in ResultKeys : jobs'[k] = "absent" <=> jobs[k] = "absent"
      BY <1>3, <2>2 DEF OrchestrateSucceeds, Created, Children, RecordingKeys
    <3>2. Outcomes("signal")' = {} /\ Outcomes("lead")' = {}
      BY <1>2, <1>3, <3>1, KeyFacts, OutcomesByKey
    <3>3. jobs'[Llm] = "ready" /\ analysis' = "queued"
      BY <1>2, <1>3, <2>2 DEF OrchestrateSucceeds, Created, Children
    <3>4. QED
      BY <3>2, <3>3 DEF SameStage
  <2>3. QED
    BY <2>1, <2>2
<1>4. CASE OrchestrateRaises
  <2>1. \A k \in ResultKeys : jobs'[k] = "absent" <=> jobs[k] = "absent"
    BY <1>4 DEF OrchestrateRaises, Created, RecordingKeys
  <2>2. Outcomes("signal")' = {} /\ Outcomes("lead")' = {}
    BY <1>2, <1>4, <2>1, KeyFacts, OutcomesByKey
  <2>3. jobs'[Llm] = "absent" /\ analysis' \in {"none", "queued"}
    BY <1>2, <1>4 DEF OrchestrateRaises, Created, RecordingKeys
  <2>4. QED
    BY <2>2, <2>3 DEF SameStage
<1>5. ASSUME NEW k \in WorkerKeys, JobStep(k) PROVE SameStage'
  <2>1. ~ Overrun(k)
    BY DEF Overrun, Spend, Events
  <2>2. jobs[Llm] = "succeeded" => jobs'[Llm] = "succeeded"
    <3>1. k # Llm => jobs'[Llm] = jobs[Llm]
      BY <1>5, JobStepKeeps
    <3>2. k = Llm /\ jobs[Llm] = "succeeded" => jobs' = jobs
      BY <1>5, <2>1
         DEF JobStep, Lease, Call, StillRunning, NoLongerRunning, Succeed, Fail, WorkerDies,
             Recover, OneWorker, Idle, Leave
    <3>3. QED
      BY <3>1, <3>2
  <2>3. QED
    BY <1>5, <2>2, JobStepKeeps, OutcomeUnread
<1>6. CASE Deny
  <2>1. UNCHANGED <<jobs, analysis>>
    BY <1>6 DEF Deny
  <2>2. QED
    BY <2>1, OutcomeUnread
<1>7. CASE GiveUpRecording
  <2>1. UNCHANGED analysis /\ \A k \in Keys : k # Recording => jobs'[k] = jobs[k]
    BY <1>7 DEF GiveUpRecording
  <2>2. QED
    BY <2>1, OutcomeUnread
<1>8. ASSUME NEW s \in Stages, Analyse(s) PROVE SameStage'
  <2>1. jobs[Llm] = "leased"
    BY <1>8 DEF Analyse, Leave, OneWorker, Idle
  <2>2. Outcomes("signal") = {} /\ Outcomes("lead") = {}
    BY <2>1 DEF SameStage
  <2>3. \A t \in AllStages : jobs[Signal(t)] = "absent" /\ jobs[Lead(t)] = "absent"
    BY <2>2 DEF Outcomes, Signal, Lead
  <2>4. \A t \in AllStages : /\ jobs'[Signal(t)] = "absent" <=> t # s
                             /\ jobs'[Lead(t)] = "absent" <=> t # s
    <3> SUFFICES ASSUME NEW t \in AllStages
                 PROVE  /\ jobs'[Signal(t)] = "absent" <=> t # s
                        /\ jobs'[Lead(t)] = "absent" <=> t # s
      OBVIOUS
    <3>1. /\ Signal(t) \in Keys /\ Lead(t) \in Keys /\ Signal(t) # Llm /\ Lead(t) # Llm
          /\ Signal(t) \in {Signal(s), Lead(s)} <=> t = s
          /\ Lead(t) \in {Signal(s), Lead(s)} <=> t = s
      BY KeyFacts
    <3>2. QED
      BY <1>8, <2>3, <3>1 DEF Analyse, Created
  <2>5. Outcomes("signal")' = {s} /\ Outcomes("lead")' = {s}
    <3>1. s \in AllStages
      BY <1>8, KeyFacts
    <3>2. {t \in AllStages : jobs'[Signal(t)] # "absent"} = {s}
      BY <2>4, <3>1
    <3>3. {t \in AllStages : jobs'[Lead(t)] # "absent"} = {s}
      BY <2>4, <3>1
    <3>4. QED
      BY <3>2, <3>3, OutcomesByKey
  <2>6. jobs'[Llm] = "succeeded" /\ analysis' = "completed"
    BY <1>8 DEF Analyse, Created
  <2>7. QED
    BY <2>5, <2>6 DEF SameStage
<1>9. CASE UNCHANGED vars
  <2>1. UNCHANGED <<jobs, analysis>>
    BY <1>9 DEF vars
  <2>2. QED
    BY <2>1, OutcomeUnread
<1>10. QED
  BY <1>1, <1>3, <1>4, <1>5, <1>6, <1>7, <1>8, <1>9 DEF Next, Rest

-----------------------------------------------------------------------------
(* Theorems *)

\* The workflow's tables keep their types, whatever fails and overruns.
THEOREM TypeCorrect == Spec => []TypeOK
<1>1. QED
  BY InitType, TypeNext, PTL DEF Spec

\* In every deployment, an interaction marked ended has its durable job.
THEOREM EndedInteractionsAreQueued == Spec => []EndedIsQueued
<1>1. DeliveryInv => EndedIsQueued
  BY DEF DeliveryInv
<1>2. QED
  BY <1>1, InitDelivery, DeliveryNext, TypeCorrect, PTL DEF Spec

\* In every deployment, a webhook loses the race for the job only to a legacy task: webhooks
\* take turns on the interaction's row.
THEOREM WebhooksSerialise == Spec => []WebhooksTakeTurns
<1>1. DeliveryInv => WebhooksTakeTurns
  BY DEF DeliveryInv
<1>2. QED
  BY <1>1, InitDelivery, DeliveryNext, TypeCorrect, PTL DEF Spec

\* What is known of the analysis, in every deployment.
LEMMA AnalysisAlways == Spec => []AnalysisInv
<1>1. QED
  BY InitAnalysis, AnalysisNext, TypeCorrect, PTL DEF Spec

\* In every deployment, overruns included: a signal job succeeds only when its signals have
\* gone out, a lead job only when its stage is on the lead, if there is a lead; and neither
\* happens without a claim of that job that paid for it.
THEOREM EffectsComeFirst == Spec => []EffectsPrecedeSuccess
<1>1. TypeOK /\ EffectInv => EffectsPrecedeSuccess
  BY EffectsOfKeys
<1>2. QED
  BY <1>1, InitEffect, EffectNext, AnalysisAlways, TypeCorrect, PTL DEF Spec

\* In every deployment, an outcome is not taken back.
THEOREM AnalysisOnlyMovesOn == Spec => AnalysisMovesOn
<1>1. TypeOK /\ AnalysisInv /\ [Next]_vars
        => [(analysis \in {"skipped", "completed"}) => analysis' = analysis]_vars
  BY AnalysisNext
<1>2. QED
  BY <1>1, AnalysisAlways, TypeCorrect, PTL DEF Spec, AnalysisMovesOn

\* As long as no worker outlives its lease, an interaction has one outcome, however many
\* deliveries, crashes, retries and deferrals there are.
THEOREM OutcomeIsOne ==
  ASSUME Limits["overrun"] = 0
  PROVE  Spec => []OneOutcome
<1>1. TypeOK /\ AnalysisInv /\ OutcomeInv /\ [Next]_vars => OutcomeInv'
  BY OneWorkerNext, SameStageNext DEF OutcomeInv
<1>2. OutcomeInv => OneOutcome
  BY SameStageIsOneOutcome DEF OutcomeInv
<1>3. QED
  BY <1>1, <1>2, InitOutcome, AnalysisAlways, TypeCorrect, PTL DEF Spec

-----------------------------------------------------------------------------
(* The refinement of CallOutcome *)

\* What the mapping relies on; an analysis job means that the orchestration succeeded.
MapInv ==
  /\ TypeOK /\ AnalysisInv /\ OutcomeInv /\ EffectInv
  /\ jobs[Llm] # "absent" => jobs[Orchestrate] = "succeeded"

LEMMA MapInvInit == Init => MapInv
<1>1. Init => (jobs[Llm] = "absent")
  BY KeyFacts DEF Init, WorkerKeys
<1>2. QED
  BY <1>1, InitType, InitAnalysis, InitOutcome, InitEffect DEF MapInv

LEMMA MapInvNext ==
  ASSUME Limits["overrun"] = 0, MapInv, [Next]_vars
  PROVE  MapInv'
<1> USE DEF TypeOK, deliveryVars, resultVars
<1>0. /\ Orchestrate \in Keys /\ Orchestrate \notin WorkerKeys
      /\ {Recording, Llm} \subseteq WorkerKeys /\ WorkerKeys \subseteq Keys /\ Recording # Llm
      /\ \A s \in AllStages : Orchestrate \notin {Signal(s), Lead(s)}
      /\ Stages \subseteq AllStages
      /\ TypeOK /\ AnalysisInv
      /\ (jobs[Llm] # "absent" => jobs[Orchestrate] = "succeeded")
  BY KeyFacts DEF WorkerKeys, MapInv
<1> USE <1>0
<1> DEFINE Goal == jobs'[Llm] # "absent" => jobs'[Orchestrate] = "succeeded"
<1>1. ASSUME NEW d \in Deliveries, DeliveryStep(d) PROVE Goal
  BY <1>1 DEF DeliveryStep, MarkEnded, FindQueued, FindAbsent, Insert, Collide, Deliver,
              LeaveAs, DeliveryCrashes, Redeliver, Created
<1>2. ASSUME OrchestrateSucceeds PROVE Goal
  BY <1>2 DEF OrchestrateSucceeds, Created
<1>3. ASSUME OrchestrateRaises PROVE Goal
  BY <1>3 DEF OrchestrateRaises, Created, RecordingKeys
<1>4. ASSUME NEW k \in WorkerKeys, JobStep(k) PROVE Goal
  BY <1>4, JobStepKeeps
<1>5. ASSUME Deny \/ GiveUpRecording PROVE Goal
  BY <1>5 DEF Deny, GiveUpRecording
<1>6. ASSUME NEW s \in Stages, Analyse(s) PROVE Goal
  <2>1. jobs[Llm] # "absent"
    BY <1>6, WorkedIsThere DEF Analyse, Leave, Phases
  <2>2. QED
    BY <1>6, <2>1 DEF Analyse, Created
<1>7. ASSUME UNCHANGED vars PROVE Goal
  BY <1>7 DEF vars
<1>8. Goal
  BY <1>1, <1>2, <1>3, <1>4, <1>5, <1>6, <1>7, MapInv DEF Next, Rest, MapInv
<1>9. TypeOK' /\ AnalysisInv' /\ OutcomeInv' /\ EffectInv'
  BY TypeNext, AnalysisNext, OneWorkerNext, SameStageNext, EffectNext DEF MapInv, OutcomeInv
<1>10. QED
  BY <1>8, <1>9 DEF MapInv

-----------------------------------------------------------------------------
(* The mapping *)

Names == {"signal", "lead"}

\* Before a stage is decided.
LEMMA Undecided ==
  MapInv /\ Outcomes("signal") = {} =>
    /\ Decided = {}
    /\ \A name \in Names : ResultOf(name) = "none"
    /\ StageOfCall = IF jobs[Orchestrate] = "absent" THEN "new"
                     ELSE IF "dead" \in {jobs[Orchestrate], jobs[Llm]} THEN "lost" ELSE "open"
<1> SUFFICES ASSUME MapInv, Outcomes("signal") = {}
             PROVE  Decided = {}
  BY DEF ResultOf, StageOfCall, Names
<1>1. Outcomes("lead") = {}
  BY DEF MapInv, OutcomeInv, SameStage
<1>2. QED
  BY <1>1, OutcomesByKey DEF Decided

\* The result jobs of a stage, as the abstract specification sees them.
Seen(status) ==
  CASE status = "absent"    -> "none"
    [] status = "succeeded" -> "done"
    [] status = "dead"      -> "lost"
    [] OTHER                -> "due"

\* Once it is.
LEMMA DecidedOnce ==
  ASSUME NEW s \in AllStages
  PROVE  MapInv /\ s \in Outcomes("signal") =>
           /\ Decided = {s} /\ StageOfCall = s
           /\ jobs[Signal(s)] # "absent" /\ jobs[Lead(s)] # "absent"
           /\ ResultOf("signal") = Seen(jobs[Signal(s)])
           /\ ResultOf("lead") = Seen(jobs[Lead(s)])
<1> SUFFICES ASSUME MapInv, s \in Outcomes("signal")
             PROVE  /\ Decided = {s} /\ StageOfCall = s
                    /\ jobs[Signal(s)] # "absent" /\ jobs[Lead(s)] # "absent"
                    /\ ResultOf("signal") = Seen(jobs[Signal(s)])
                    /\ ResultOf("lead") = Seen(jobs[Lead(s)])
  OBVIOUS
<1>1. Outcomes("lead") = {s} /\ Outcomes("signal") = {s}
  BY DEF MapInv, OutcomeInv, SameStage
<1>2. Decided = {s} /\ jobs[Signal(s)] # "absent" /\ jobs[Lead(s)] # "absent"
  BY <1>1, OutcomesByKey DEF Decided
<1>3. jobs[Orchestrate] # "absent"
  BY <1>1 DEF MapInv, AnalysisInv, OutcomeInv, SameStage
<1>4. StageOfCall = s
  BY <1>2, <1>3 DEF StageOfCall
<1>5. ResultOf("signal") = Seen(jobs[Signal(s)]) /\ ResultOf("lead") = Seen(jobs[Lead(s)])
  BY <1>2, <1>4 DEF ResultOf, Seen, Signal, Lead
<1>6. QED
  BY <1>2, <1>4, <1>5

\* The same after a step.
LEMMA UndecidedNext ==
  ASSUME MapInv', Outcomes("signal")' = {}
  PROVE  /\ \A name \in Names : ResultOf(name)' = "none"
         /\ StageOfCall' = IF jobs'[Orchestrate] = "absent" THEN "new"
                           ELSE IF "dead" \in {jobs'[Orchestrate], jobs'[Llm]} THEN "lost" ELSE "open"
<1>1. Outcomes("lead")' = {}
  BY DEF MapInv, OutcomeInv, SameStage
<1>2. Decided' = {}
  BY <1>1, OutcomesByKey DEF Decided
<1>3. QED
  BY <1>2 DEF ResultOf, StageOfCall, Names

LEMMA DecidedOnceNext ==
  ASSUME MapInv', NEW s \in AllStages, s \in Outcomes("signal")'
  PROVE  /\ StageOfCall' = s
         /\ ResultOf("signal")' = Seen(jobs'[Signal(s)])
         /\ ResultOf("lead")' = Seen(jobs'[Lead(s)])
<1>1. Outcomes("lead")' = {s} /\ Outcomes("signal")' = {s}
  BY DEF MapInv, OutcomeInv, SameStage
<1>2. Decided' = {s}
  BY <1>1, OutcomesByKey DEF Decided
<1>3. jobs'[Orchestrate] # "absent"
  BY <1>1 DEF MapInv, AnalysisInv, OutcomeInv, SameStage
<1>4. StageOfCall' = s
  BY <1>2, <1>3 DEF StageOfCall
<1>5. QED
  BY <1>2, <1>4 DEF ResultOf, Seen, Signal, Lead

-----------------------------------------------------------------------------
(* Steps *)

\* What CallOutcome sees of a state.
Visible == <<StageOfCall, [name \in {"signal", "lead"} |-> ResultOf(name)], Applied, Void>>

\* The mapping reads the payload, three jobs and the results.
LEMMA NothingSeen ==
  ASSUME MapInv, MapInv', payload' = payload \/ jobs'[Orchestrate] = "absent",
         jobs'[Orchestrate] = jobs[Orchestrate] \/ (jobs[Orchestrate] # "absent" /\ jobs'[Orchestrate] \notin {"absent", "dead"} /\ jobs[Orchestrate] # "dead"),
         jobs'[Llm] = "dead" <=> jobs[Llm] = "dead",
         \A k \in ResultKeys : Seen(jobs'[k]) = Seen(jobs[k]),
         Applied' = Applied
  PROVE  UNCHANGED Visible
<1>0. Void' = Void
  BY DEF Void
<1> SUFFICES StageOfCall' = StageOfCall /\ \A name \in Names : ResultOf(name)' = ResultOf(name)
  BY <1>0 DEF Visible, Names
<1>1. \A k \in ResultKeys : jobs'[k] = "absent" <=> jobs[k] = "absent"
  BY DEF Seen
<1>2. Outcomes("signal")' = Outcomes("signal")
  <2>1. \A s \in AllStages : Signal(s) \in ResultKeys
    BY KeyFacts
  <2>2. QED
    BY <1>1, <2>1, OutcomesByKey
<1>3. CASE Outcomes("signal") = {}
  BY <1>2, <1>3, Undecided, UndecidedNext
<1>4. ASSUME NEW s \in Outcomes("signal")
      PROVE  StageOfCall' = StageOfCall /\ \A name \in Names : ResultOf(name)' = ResultOf(name)
  <2>1. s \in AllStages /\ Signal(s) \in ResultKeys /\ Lead(s) \in ResultKeys
    BY <1>4, KeyFacts, OutcomesByKey
  <2>2. /\ StageOfCall = s /\ StageOfCall' = s
        /\ ResultOf("signal")' = Seen(jobs'[Signal(s)]) /\ ResultOf("signal") = Seen(jobs[Signal(s)])
        /\ ResultOf("lead")' = Seen(jobs'[Lead(s)]) /\ ResultOf("lead") = Seen(jobs[Lead(s)])
    BY <1>2, <1>4, <2>1, DecidedOnce, DecidedOnceNext
  <2>3. QED
    BY <2>1, <2>2 DEF Names
<1>5. QED
  BY <1>3, <1>4

\* Before the orchestration has succeeded there is no stage.
LEMMA NoStageYet ==
  ASSUME MapInv, jobs[Orchestrate] \in {"absent", "ready"}
  PROVE  /\ Outcomes("signal") = {} /\ jobs[Llm] = "absent"
         /\ StageOfCall = IF jobs[Orchestrate] = "absent" THEN "new" ELSE "open"
         /\ \A name \in Names : ResultOf(name) = "none"
<1>1. Outcomes("signal") = {} /\ jobs[Llm] = "absent"
  BY DEF MapInv, AnalysisInv, OutcomeInv, SameStage
<1>2. QED
  BY <1>1, Undecided

\* Whether a result is void is settled with the payload.
LEMMA VoidSettled ==
  ASSUME payload' = payload, jobs'[Orchestrate] = "absent" <=> jobs[Orchestrate] = "absent"
  PROVE  Void' = Void
BY DEF Void

\* The orchestration of a short call decides its stage.
LEMMA ShortDecides ==
  ASSUME MapInv, MapInv', OrchestrateSucceeds, payload.short
  PROVE  Outcome!Decide("short_call")
<1> USE DEF OrchestrateSucceeds, MapInv, TypeOK
<1>0. "short_call" \in AllStages /\ Signal("short_call") \in Keys /\ Lead("short_call") \in Keys
      /\ Signal("short_call") # Orchestrate /\ Lead("short_call") # Orchestrate
      /\ jobs[Signal("short_call")] = "absent" /\ jobs[Lead("short_call")] = "absent"
  BY NoStageYet, OutcomesByKey, KeyFacts DEF OutcomeInv, SameStage
<1>1. jobs'[Signal("short_call")] = "ready" /\ jobs'[Lead("short_call")] = "ready"
  BY <1>0 DEF Created, Children
<1>2. "short_call" \in Outcomes("signal")'
  BY <1>0, <1>1, OutcomesByKey
<1>3. /\ StageOfCall' = "short_call"
      /\ ResultOf("signal")' = "due" /\ ResultOf("lead")' = "due"
  BY <1>0, <1>1, <1>2, DecidedOnceNext DEF Seen
<1>4. StageOfCall = "open"
  BY NoStageYet
<1>5. Applied' = Applied /\ Void' = Void
  <2>1. Orchestrate \in Keys
    BY KeyFacts
  <2>2. payload' = payload /\ jobs[Orchestrate] = "ready" /\ jobs'[Orchestrate] = "succeeded"
    BY <2>1 DEF deliveryVars, Created
  <2>3. QED
    BY <2>2, VoidSettled DEF Applied
<1>6. QED
  BY <1>3, <1>4, <1>5 DEF Outcome!Decide, Outcome!Results

\* An analysis decides the stage.
LEMMA AnalysisDecides ==
  ASSUME MapInv, MapInv', NEW s \in Stages, Analyse(s)
  PROVE  Outcome!Decide(s)
<1> USE DEF MapInv, TypeOK, resultVars
<1>1. jobs[Llm] = "leased" /\ Llm \in Keys
  <2>1. OneWorker(Llm) /\ Llm \in Keys
    BY KeyFacts DEF OutcomeInv, WorkerKeys
  <2>2. QED
    BY <2>1 DEF Analyse, Leave, OneWorker, Idle, Phases
<1>2. jobs[Orchestrate] = "succeeded"
  BY <1>1
<1>3. Outcomes("signal") = {} /\ Outcomes("lead") = {}
  BY <1>1 DEF OutcomeInv, SameStage
<1>4. StageOfCall = "open"
  BY <1>1, <1>2, <1>3, Undecided
<1>5. /\ s \in AllStages /\ Signal(s) \in Keys /\ Lead(s) \in Keys
      /\ Signal(s) # Llm /\ Lead(s) # Llm
      /\ jobs[Signal(s)] = "absent" /\ jobs[Lead(s)] = "absent"
  BY <1>3, KeyFacts, OutcomesByKey
<1>6. jobs'[Signal(s)] = "ready" /\ jobs'[Lead(s)] = "ready"
  BY <1>5 DEF Analyse, Created
<1>7. s \in Outcomes("signal")'
  BY <1>5, <1>6, OutcomesByKey
<1>8. StageOfCall' = s /\ ResultOf("signal")' = "due" /\ ResultOf("lead")' = "due"
  BY <1>5, <1>6, <1>7, DecidedOnceNext DEF Seen
<1>9. Applied' = Applied /\ Void' = Void
  <2>1. Orchestrate \in Keys /\ Orchestrate # Llm
    BY KeyFacts
  <2>2. payload' = payload /\ jobs'[Orchestrate] # "absent"
    BY <1>2, <2>1 DEF Analyse, Created, deliveryVars
  <2>3. QED
    BY <1>2, <2>2, VoidSettled DEF Analyse, Applied
<1>10. QED
  BY <1>4, <1>8, <1>9 DEF Outcome!Decide, Outcome!Results

\* A delivery queues the call, or nothing is seen of it.
LEMMA DeliveryMaps ==
  ASSUME MapInv, MapInv', NEW d \in Deliveries, DeliveryStep(d)
  PROVE  Outcome!Queue \/ UNCHANGED Visible
<1> USE DEF MapInv, TypeOK, resultVars, deliveryVars
<1>0. Orchestrate \in Keys /\ ResultKeys \subseteq Keys /\ Llm \in Keys
      /\ Orchestrate \notin ResultKeys /\ Orchestrate # Llm
  BY KeyFacts DEF WorkerKeys
<1>1. Applied' = Applied
  BY DEF DeliveryStep, MarkEnded, FindQueued, FindAbsent, Insert, Collide, Deliver, LeaveAs,
         DeliveryCrashes, Redeliver, Applied
<1>2. CASE Insert(d)
  <2>1. /\ jobs[Orchestrate] = "absent" /\ jobs'[Orchestrate] = "ready"
        /\ jobs'[Llm] = jobs[Llm]
        /\ \A k \in ResultKeys : jobs'[k] = jobs[k]
    BY <1>0, <1>2 DEF Insert, Created
  <2>2. /\ StageOfCall = "new" /\ Outcomes("signal") = {} /\ jobs[Llm] = "absent"
        /\ ResultOf("signal") = "none" /\ ResultOf("lead") = "none"
    BY <2>1, NoStageYet DEF Names
  <2>3. Outcomes("signal")' = {}
    <3>1. \A s \in AllStages : Signal(s) \in ResultKeys
      BY KeyFacts
    <3>2. QED
      BY <2>1, <2>2, <3>1, OutcomesByKey
  <2>4. /\ StageOfCall' = "open"
        /\ ResultOf("signal")' = "none" /\ ResultOf("lead")' = "none"
    BY <2>1, <2>2, <2>3, UndecidedNext DEF Names
  <2>5. Void' \in SUBSET Outcome!Results
    BY DEF Void, Outcome!Results
  <2>6. QED
    BY <1>1, <2>2, <2>4, <2>5 DEF Outcome!Queue, Outcome!Results
<1>3. CASE ~ Insert(d)
  <2>1. jobs' = jobs /\ payload' = payload
    BY <1>3 DEF DeliveryStep, MarkEnded, FindQueued, FindAbsent, Collide, Deliver, LeaveAs,
                DeliveryCrashes, Redeliver
  <2>2. QED
    BY <1>1, <2>1, NothingSeen
<1>4. QED
  BY <1>2, <1>3

\* The orchestrator decides, gives up, or nothing is seen of it.
LEMMA OrchestratorMaps ==
  ASSUME MapInv, MapInv', OrchestrateSucceeds \/ OrchestrateRaises
  PROVE  Outcome!Decide("short_call") \/ Outcome!GiveUp \/ UNCHANGED Visible
<1> USE DEF MapInv, TypeOK, resultVars, deliveryVars
<1>0. /\ Orchestrate \in Keys /\ ResultKeys \subseteq Keys /\ Llm \in Keys
      /\ Orchestrate \notin ResultKeys /\ Orchestrate # Llm /\ Orchestrate # Recording
      /\ Llm \notin ResultKeys /\ Recording \notin ResultKeys /\ Recording # Llm
  BY KeyFacts DEF WorkerKeys
<1>1. Applied' = Applied /\ jobs[Orchestrate] = "ready" /\ payload' = payload
  BY DEF OrchestrateSucceeds, OrchestrateRaises, Applied
<1>2. CASE OrchestrateSucceeds /\ payload.short
  BY <1>2, ShortDecides
<1>3. CASE OrchestrateSucceeds /\ ~ payload.short
  <2>1. /\ jobs'[Orchestrate] = "succeeded" /\ jobs[Llm] = "absent" /\ jobs'[Llm] = "ready"
        /\ \A k \in ResultKeys : jobs'[k] = jobs[k]
    BY <1>0, <1>1, <1>3, NoStageYet
       DEF OrchestrateSucceeds, Created, Children, RecordingKeys
  <2>2. QED
    BY <1>1, <2>1, NothingSeen
<1>4. CASE OrchestrateRaises
  <2>1. /\ jobs[Llm] = "absent" /\ jobs'[Llm] = "absent"
        /\ \A k \in ResultKeys : jobs'[k] = jobs[k]
        /\ jobs'[Orchestrate] \in {"ready", "dead"}
    BY <1>0, <1>1, <1>4, NoStageYet DEF OrchestrateRaises, Created, RecordingKeys, RetryOrBury
  <2>2. CASE jobs'[Orchestrate] = "ready"
    BY <1>1, <2>1, <2>2, NothingSeen
  <2>3. CASE jobs'[Orchestrate] = "dead"
    <3>1. /\ StageOfCall = "open" /\ Outcomes("signal") = {}
          /\ ResultOf("signal") = "none" /\ ResultOf("lead") = "none"
      BY <1>1, NoStageYet DEF Names
    <3>2. Outcomes("signal")' = {}
      <4>1. \A s \in AllStages : Signal(s) \in ResultKeys
        BY KeyFacts
      <4>2. QED
        BY <2>1, <3>1, <4>1, OutcomesByKey
    <3>3. /\ StageOfCall' = "lost"
          /\ ResultOf("signal")' = "none" /\ ResultOf("lead")' = "none"
      BY <2>3, <3>2, UndecidedNext DEF Names
    <3>4. Void' = Void
      BY <1>1, <2>3, VoidSettled
    <3>5. QED
      BY <1>1, <3>1, <3>3, <3>4 DEF Outcome!GiveUp, Outcome!Results
  <2>4. QED
    BY <2>1, <2>2, <2>3
<1>5. QED
  BY <1>2, <1>3, <1>4

\* A worker's step on a result job applies the result, settles it, or is not seen.
LEMMA ResultStepMaps ==
  ASSUME MapInv, MapInv', NEW k \in ResultKeys, JobStep(k), ~ Overrun(k)
  PROVE  (\E x \in Names : Outcome!Apply(x) \/ Outcome!Settle(x)) \/ UNCHANGED Visible
<1> USE DEF MapInv, TypeOK, resultVars
<1>0. /\ k \in WorkerKeys /\ k \in Keys /\ k # Llm /\ k # Orchestrate
      /\ Llm \in Keys /\ Orchestrate \in Keys /\ ResultKeys \subseteq Keys
      /\ OneWorker(k) /\ Phases = {"claimed", "called", "checked"}
  BY KeyFacts DEF OutcomeInv, WorkerKeys, Phases
<1>1. PICK name \in Names, s \in AllStages : k = <<name, s>>
  BY DEF ResultKeys, Names
<1>2. /\ \A i \in Keys : i # k => jobs'[i] = jobs[i]
      /\ jobs[k] = "absent" => UNCHANGED jobs
  BY <1>0, JobStepKeeps
<1>3. /\ ~ Call(k) => Applied' = Applied
      /\ payload' = payload /\ Void' = Void
  <2>1. ~ Call(k) => Applied' = Applied
    BY <1>0, JobStepFacts DEF Applied
  <2>2. payload' = payload
    BY DEF JobStep, Lease, Call, StillRunning, NoLongerRunning, Succeed, Fail, WorkerDies,
           Recover, Overrun, deliveryVars
  <2>3. QED
    BY <1>0, <1>2, <2>1, <2>2, VoidSettled
<1>4. Seen(jobs'[k]) = Seen(jobs[k]) /\ ~ Call(k) => UNCHANGED Visible
  <2>1. SUFFICES ASSUME Seen(jobs'[k]) = Seen(jobs[k]), ~ Call(k) PROVE UNCHANGED Visible
    OBVIOUS
  <2>2. \A i \in ResultKeys : Seen(jobs'[i]) = Seen(jobs[i])
    BY <1>0, <1>2, <2>1
  <2>3. jobs'[Llm] = jobs[Llm] /\ jobs'[Orchestrate] = jobs[Orchestrate]
    BY <1>0, <1>2
  <2>4. QED
    BY <1>3, <2>1, <2>2, <2>3, NothingSeen
<1>5. ASSUME jobs[k] # "absent", jobs'[k] # "absent"
      PROVE  /\ StageOfCall' = StageOfCall
             /\ \A m \in Names : /\ ResultOf(m) = Seen(jobs[<<m, s>>])
                                 /\ ResultOf(m)' = Seen(jobs'[<<m, s>>])
                                 /\ m # name => ResultOf(m)' = ResultOf(m)
  <2>1. s \in Outcomes("signal") /\ s \in Outcomes("signal")'
    <3>1. s \in Outcomes(name) /\ s \in Outcomes(name)'
      BY <1>1, <1>5 DEF Outcomes
    <3>2. Outcomes("signal") = Outcomes("lead") /\ Outcomes("signal")' = Outcomes("lead")'
      BY DEF OutcomeInv, SameStage
    <3>3. QED
      BY <3>1, <3>2 DEF Names
  <2>2. StageOfCall = s /\ StageOfCall' = s
    BY <2>1, DecidedOnce, DecidedOnceNext
  <2>3. /\ ResultOf("signal") = Seen(jobs[<<"signal", s>>]) /\ ResultOf("lead") = Seen(jobs[<<"lead", s>>])
        /\ ResultOf("signal")' = Seen(jobs'[<<"signal", s>>]) /\ ResultOf("lead")' = Seen(jobs'[<<"lead", s>>])
    BY <2>1, DecidedOnce, DecidedOnceNext DEF Signal, Lead
  <2>4. \A m \in Names : m # name => jobs'[<<m, s>>] = jobs[<<m, s>>]
    <3>1. \A m \in Names : <<m, s>> \in Keys /\ (m # name => <<m, s>> # k)
      BY <1>1 DEF Names, Keys, ResultKeys
    <3>2. QED
      BY <1>2, <3>1
  <2>5. QED
    BY <2>2, <2>3, <2>4 DEF Names
<1>6. \A p \in Phases : at[k][p] > 0 => jobs[k] = "leased"
  BY <1>0 DEF OneWorker, Idle
<1>7. CASE Call(k)
  <2>1. jobs[k] = "leased" /\ jobs' = jobs
    BY <1>0, <1>6, <1>7 DEF Call, Move
  <2>2. StageOfCall' = StageOfCall /\ \A m \in Names : ResultOf(m)' = ResultOf(m)
    BY <1>1, <1>5, <2>1
  <2>3. ResultOf(name) = "due"
    BY <1>1, <1>5, <2>1 DEF Seen
  <2>4. name \notin Void <=> Effective(k)
    <3>1. jobs[Orchestrate] # "absent"
      BY <1>0, <2>1 DEF AnalysisInv
    <3>2. QED
      BY <1>1, <3>1 DEF Effective, Void, Names
  <2>5. CASE Effective(k)
    <3>1. effects' = [effects EXCEPT ![k] = @ + 1]
      BY <1>7, <2>5 DEF Call
    <3>2. \A i \in ResultKeys : effects[i] \in Nat
      OBVIOUS
    <3>3. effects'[k] > 0 /\ \A i \in ResultKeys : i # k => effects'[i] = effects[i]
      BY <3>1, <3>2
    <3>4. \A m \in Names, t \in AllStages : <<m, t>> \in ResultKeys
      BY DEF Names, ResultKeys
    <3>5. Applied' = Applied \cup {name}
      BY <1>1, <3>3, <3>4 DEF Applied, Names
    <3>6. Outcome!Apply(name)
      BY <1>1, <1>3, <2>2, <2>3, <2>4, <2>5, <3>5 DEF Outcome!Apply, Names
    <3>7. QED
      BY <3>6
  <2>6. CASE ~ Effective(k)
    <3>1. Applied' = Applied
      BY <1>7, <2>6 DEF Call, Applied
    <3>2. QED
      BY <1>3, <2>2, <3>1 DEF Visible, Names
  <2>7. QED
    BY <2>5, <2>6
<1>8. CASE Succeed(k)
  <2>1. at[k]["checked"] > 0 /\ jobs[k] = "leased" /\ jobs'[k] = "succeeded" /\ UNCHANGED resultVars
    BY <1>0, <1>6, <1>8 DEF Succeed, Leave
  <2>2. ResultOf(name) = "due" /\ ResultOf(name)' = "done"
    BY <1>1, <1>5, <2>1 DEF Seen
  <2>3. name \in Applied \cup Void
    <3>1. CASE Effective(k)
      <4>1. effects[k] > 0
        BY <2>1, <3>1 DEF EffectInv
      <4>2. QED
        BY <1>1, <4>1 DEF Applied, Names
    <3>2. CASE ~ Effective(k)
      <4>1. jobs[Orchestrate] # "absent"
        BY <1>0, <2>1 DEF AnalysisInv
      <4>2. QED
        BY <1>1, <3>2, <4>1 DEF Effective, Void, Names
    <3>3. QED
      BY <3>1, <3>2
  <2>4. Applied' = Applied
    BY <2>1 DEF Applied
  <2>5. Outcome!Settle(name)
    <3>1. StageOfCall' = StageOfCall /\ \A m \in Names : m # name => ResultOf(m)' = ResultOf(m)
      BY <1>5, <2>1
    <3>2. QED
      BY <1>1, <1>3, <2>2, <2>3, <2>4, <3>1 DEF Outcome!Settle, Names
  <2>6. QED
    BY <2>5
<1>9. CASE Fail(k)
  <2>1. /\ jobs[k] = "leased" /\ jobs'[k] \in {"ready", "dead"} /\ UNCHANGED resultVars
        /\ at[k]["claimed"] > 0 /\ at'[k]["claimed"] = at[k]["claimed"] - 1
    BY <1>0, <1>6, <1>9 DEF Fail, Leave, RetryOrBury
  <2>2. ~ Call(k)
    BY <1>0, <1>9, <2>1 DEF Call, Move, Fail
  <2>3. CASE jobs'[k] = "ready"
    BY <1>4, <2>1, <2>2, <2>3 DEF Seen
  <2>4. CASE jobs'[k] = "dead"
    <3>1. ResultOf(name) = "due" /\ ResultOf(name)' = "lost"
      BY <1>1, <1>5, <2>1, <2>4 DEF Seen
    <3>2. StageOfCall' = StageOfCall /\ \A m \in Names : m # name => ResultOf(m)' = ResultOf(m)
      BY <1>5, <2>1
    <3>3. Applied' = Applied
      BY <2>1 DEF Applied
    <3>4. Outcome!Settle(name)
      BY <1>1, <1>3, <3>1, <3>2, <3>3 DEF Outcome!Settle, Names
    <3>5. QED
      BY <3>4
  <2>5. QED
    BY <2>1, <2>3, <2>4
<1>10. CASE ~ Call(k) /\ ~ Succeed(k) /\ ~ Fail(k)
  <2>1. jobs' = jobs \/ (jobs[k] \in {"ready", "leased"} /\ jobs'[k] \in {"ready", "leased"})
    BY <1>0, <1>10
       DEF JobStep, Lease, StillRunning, NoLongerRunning, WorkerDies, Recover
  <2>2. QED
    BY <1>4, <1>10, <2>1 DEF Seen
<1>11. QED
  BY <1>7, <1>8, <1>9, <1>10

\* A step on the recording or the analysis job gives the call up, or is not seen.
LEMMA AnalysisStepMaps ==
  ASSUME MapInv, MapInv', NEW k \in {Recording, Llm}, JobStep(k), ~ Overrun(k)
  PROVE  Outcome!GiveUp \/ UNCHANGED Visible
<1> USE DEF MapInv, TypeOK, resultVars
<1>0. /\ k \in WorkerKeys /\ k \in Keys /\ k # Orchestrate /\ k \notin ResultKeys
      /\ Recording # Llm /\ Llm \in Keys /\ Orchestrate \in Keys /\ ResultKeys \subseteq Keys
      /\ OneWorker(k) /\ Phases = {"claimed", "called", "checked"}
  BY KeyFacts DEF OutcomeInv, WorkerKeys, Phases
<1>1. \A i \in Keys : i # k => jobs'[i] = jobs[i]
  BY <1>0, JobStepKeeps
<1>2. Applied' = Applied /\ payload' = payload /\ Void' = Void
  <2>1. effects' = effects
    <3>1. CASE Call(k)
      BY <1>0, <3>1 DEF Call, Effective
    <3>2. CASE ~ Call(k)
      BY <1>0, <3>2, JobStepFacts
    <3>3. QED
      BY <3>1, <3>2
  <2>2. payload' = payload
    BY DEF JobStep, Lease, Call, StillRunning, NoLongerRunning, Succeed, Fail, WorkerDies,
           Recover, Overrun, deliveryVars
  <2>3. QED
    BY <1>0, <1>1, <2>1, <2>2, VoidSettled DEF Applied
<1>3. (jobs'[Llm] = "dead" <=> jobs[Llm] = "dead") => UNCHANGED Visible
  <2>1. /\ jobs'[Orchestrate] = jobs[Orchestrate]
        /\ \A i \in ResultKeys : Seen(jobs'[i]) = Seen(jobs[i])
    BY <1>0, <1>1
  <2>2. QED
    BY <1>2, <2>1, NothingSeen
<1>4. ASSUME ~ (jobs'[Llm] = "dead" <=> jobs[Llm] = "dead") PROVE Outcome!GiveUp
  <2>1. k = Llm
    BY <1>0, <1>1, <1>4
  <2>2. jobs[Llm] = "leased" /\ jobs'[Llm] = "dead"
    BY <1>0, <1>4, <2>1
       DEF JobStep, Lease, Call, StillRunning, NoLongerRunning, Succeed, Fail, WorkerDies,
           Recover, Leave, Move, OneWorker, Idle
  <2>3. jobs[Orchestrate] = "succeeded" /\ jobs'[Orchestrate] = "succeeded"
    BY <1>0, <1>1, <2>1, <2>2
  <2>4. Outcomes("signal") = {} /\ Outcomes("signal")' = {}
    <3>1. analysis \notin {"completed", "skipped"} /\ analysis' = analysis
      BY <1>0, <2>2, JobStepKeeps DEF OutcomeInv, SameStage
    <3>2. QED
      BY <3>1 DEF OutcomeInv, SameStage
  <2>5. /\ StageOfCall = "open" /\ StageOfCall' = "lost"
        /\ \A m \in Names : ResultOf(m) = "none" /\ ResultOf(m)' = "none"
    BY <2>2, <2>3, <2>4, Undecided, UndecidedNext
  <2>6. QED
    BY <1>2, <2>5 DEF Outcome!GiveUp, Names
<1>5. QED
  BY <1>3, <1>4

\* Every step maps to a step or a stutter.
LEMMA StepMaps ==
  ASSUME Limits["overrun"] = 0, MapInv, MapInv', [Next]_vars
  PROVE  [Outcome!Next]_Visible
<1> USE DEF MapInv, TypeOK, resultVars
<1>0. /\ Orchestrate \in Keys /\ Llm \in Keys /\ Recording \in Keys /\ ResultKeys \subseteq Keys
      /\ Orchestrate # Recording /\ Llm # Recording /\ Recording \notin ResultKeys
      /\ Names = Outcome!Results /\ Stages \subseteq AllStages /\ "short_call" \in AllStages
  BY KeyFacts DEF WorkerKeys, Names, Outcome!Results
<1>1. ASSUME NEW d \in Deliveries, DeliveryStep(d) PROVE [Outcome!Next]_Visible
  BY <1>1, DeliveryMaps DEF Outcome!Next
<1>2. CASE OrchestrateSucceeds \/ OrchestrateRaises
  BY <1>0, <1>2, OrchestratorMaps DEF Outcome!Next, Outcome!Conclude
<1>3. ASSUME NEW k \in WorkerKeys, JobStep(k) PROVE [Outcome!Next]_Visible
  <2>1. ~ Overrun(k)
    BY DEF Overrun, Spend, Events
  <2>2. CASE k \in ResultKeys
    BY <1>0, <1>3, <2>1, <2>2, ResultStepMaps DEF Outcome!Next
  <2>3. CASE k \in {Recording, Llm}
    BY <1>3, <2>1, <2>3, AnalysisStepMaps DEF Outcome!Next, Outcome!Conclude
  <2>4. QED
    BY <2>2, <2>3 DEF WorkerKeys, Keys
<1>4. CASE Deny
  <2>1. jobs' = jobs /\ Applied' = Applied /\ payload' = payload
    BY <1>4 DEF Deny, Applied, deliveryVars
  <2>2. QED
    BY <2>1, NothingSeen
<1>5. CASE GiveUpRecording
  <2>1. /\ \A k \in Keys : k # Recording => jobs'[k] = jobs[k]
        /\ Applied' = Applied /\ payload' = payload
    BY <1>0, <1>5 DEF GiveUpRecording, Applied, deliveryVars
  <2>2. QED
    BY <1>0, <2>1, NothingSeen
<1>6. ASSUME NEW s \in Stages, Analyse(s) PROVE [Outcome!Next]_Visible
  BY <1>0, <1>6, AnalysisDecides DEF Outcome!Next, Outcome!Conclude
<1>7. CASE UNCHANGED vars
  <2>1. jobs' = jobs /\ Applied' = Applied /\ payload' = payload
    BY <1>7 DEF vars, Applied, deliveryVars
  <2>2. QED
    BY <2>1, NothingSeen
<1>8. QED
  BY <1>1, <1>2, <1>3, <1>4, <1>5, <1>6, <1>7 DEF Next, Rest

\* A call that is not queued has no outcome.
LEMMA InitMaps == Init => Outcome!Init
<1> SUFFICES ASSUME Init PROVE Outcome!Init
  OBVIOUS
<1>1. MapInv /\ jobs[Orchestrate] = "absent"
  BY MapInvInit, KeyFacts DEF Init
<1>2. StageOfCall = "new" /\ \A m \in Names : ResultOf(m) = "none"
  BY <1>1, NoStageYet
<1>3. Applied = {} /\ Void = {}
  <2>1. \A m \in Names, t \in AllStages : <<m, t>> \in ResultKeys
    BY DEF Names, ResultKeys
  <2>2. \A k \in ResultKeys : effects[k] = 0
    BY DEF Init
  <2>3. ASSUME NEW m \in Names, NEW t \in AllStages PROVE ~(effects[<<m, t>>] > 0)
    <3>1. <<m, t>> \in ResultKeys
      BY <2>1
    <3>2. effects[<<m, t>>] = 0
      BY <2>2, <3>1
    <3>3. QED
      BY <3>2
  <2>4. Applied = {}
    BY <2>3 DEF Applied, Names
  <2>5. QED
    BY <1>1, <2>4 DEF Void
<1>4. QED
  BY <1>2, <1>3 DEF Outcome!Init, Outcome!Results, Names

\* As long as no worker outlives its lease, what happens to a call is what CallOutcome
\* promises, for any number of deliveries, stages, attempts, crashes and deferrals: once
\* queued it gets one stage or is given up, and its two results are applied before they
\* count as done, but for the stage of a lead that does not exist.
THEOREM WorkflowImplementsOutcome ==
  ASSUME Limits["overrun"] = 0
  PROVE  Spec => Outcome!Safety
<1>1. Spec => []MapInv
  <2>1. MapInv /\ [Next]_vars => MapInv'
    BY MapInvNext
  <2>2. QED
    BY <2>1, MapInvInit, PTL DEF Spec
<1>2. MapInv /\ MapInv' /\ [Next]_vars => [Outcome!Next]_(Outcome!vars)
  BY StepMaps DEF Visible, Outcome!vars
<1>3. QED
  BY <1>1, <1>2, InitMaps, PTL DEF Spec, Outcome!Safety
=============================================================================
