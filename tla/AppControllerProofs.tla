------------------------- MODULE AppControllerProofs -------------------------
(***************************************************************************)
(* Proofs about AppController for every set of apps, images, hosts and     *)
(* specs and every bound on edits and faults: type correctness, the        *)
(* invariants of the runs, that the controller implements                  *)
(* FinalizerProtocol and keeps the contract of CustomResource, what Ready  *)
(* says of the Service and the hosts, the safety half of Convergence (a    *)
(* settled app stays settled), and that every reconcile ends.              *)
(***************************************************************************)
EXTENDS AppController, TLAPS

-----------------------------------------------------------------------------
(* Type correctness *)

\* The first call for a version of the object, and what is known when it is
\* about to be made.
LEMMA StageFacts ==
  ASSUME NEW m \in AppObject
  PROVE  /\ Stage(m) \in {"finalizer", "pending", "pause", "deploying", "tenant",
                          "deletionList"}
         /\ m.deleting <=> Stage(m) = "deletionList"
         /\ ~m.deleting /\ ~m.finalizer <=> Stage(m) = "finalizer"
BY DEF Stage, AppObject

\* What each of the worker's step names belongs to: none of them is "idle".
LEMMA StepTypes ==
  /\ DeploySteps \subseteq Steps \ {"idle"}
  /\ DeletionSteps \subseteq Steps \ {"idle"}
  /\ {"finalizer", "pending", "pause", "pauseDelete", "deploying"}
       \subseteq Steps \ {"idle"}
  /\ \A m \in AppObject : Stage(m) \in Steps \ {"idle"}
BY StageFacts DEF Steps, DeploySteps, DeletionSteps

\* The worker is idle, or it works on an object that it read.
WorkerOK ==
  /\ w \in Worker
  /\ \/ w = Idle
     \/ w.step # "idle" /\ w.key \in Apps /\ w.mem \in AppObject

\* Ending a reconcile leaves a well-typed worker.
LEMMA IdleOK == w' = Idle => WorkerOK'
<1>1. Idle \in Worker
  <2>1. "idle" \in Steps
    BY DEF Steps
  <2> QED BY <2>1 DEF Worker, Idle
<1> QED BY <1>1 DEF WorkerOK, Worker, Idle

\* In the middle of a reconcile the worker has an app and a copy of its object.
LEMMA AtWork ==
  ASSUME WorkerOK, w.step # "idle"
  PROVE  w \in Worker /\ w.key \in Apps /\ w.mem \in AppObject
BY DEF WorkerOK, Idle

\* The ways in which a step of Reconcile moves the worker on.
LEMMA MoveOK ==
  ASSUME WorkerOK, w.step # "idle", NEW s \in Steps \ {"idle"}
  PROVE  /\ w' = [w EXCEPT !.step = s] => WorkerOK'
         /\ \A m \in AppObject :
              w' = [w EXCEPT !.mem = m, !.step = s] => WorkerOK'
         /\ \A d \in SUBSET Hosts :
              w' = [w EXCEPT !.drop = d, !.step = s] => WorkerOK'
         /\ \A d, a \in SUBSET Hosts :
              w' = [w EXCEPT !.drop = d, !.add = a, !.step = s] => WorkerOK'
         /\ \A r \in BOOLEAN :
              w' = [w EXCEPT !.step = s, !.ready = r] => WorkerOK'
<1>1. w \in Worker /\ w.key \in Apps /\ w.mem \in AppObject
  BY AtWork
<1> USE <1>1 DEF WorkerOK, Worker
<1>2. w' = [w EXCEPT !.step = s] => WorkerOK'
  OBVIOUS
<1>3. ASSUME NEW m \in AppObject
      PROVE  w' = [w EXCEPT !.mem = m, !.step = s] => WorkerOK'
  OBVIOUS
<1>4. ASSUME NEW d \in SUBSET Hosts
      PROVE  w' = [w EXCEPT !.drop = d, !.step = s] => WorkerOK'
  OBVIOUS
<1>5. ASSUME NEW d \in SUBSET Hosts, NEW a \in SUBSET Hosts
      PROVE  w' = [w EXCEPT !.drop = d, !.add = a, !.step = s] => WorkerOK'
  OBVIOUS
<1>6. ASSUME NEW r \in BOOLEAN
      PROVE  w' = [w EXCEPT !.step = s, !.ready = r] => WorkerOK'
  OBVIOUS
<1> QED BY <1>2, <1>3, <1>4, <1>5, <1>6

\* Setting Status.Phase on the copy in hand gives an App object.
LEMMA InPhaseType ==
  ASSUME w.mem \in AppObject, NEW p \in Phases
  PROVE  InPhase(p) \in AppObject
BY DEF InPhase, AppObject

\* A write of the object that lets Reconcile go on, or not, keeps the worker's
\* type.
LEMMA WriteType ==
  ASSUME WorkerOK, NEW step \in Steps \ {"idle"}, NEW new \in AppObject,
         WriteThenContinue(step, new)
  PROVE  WorkerOK'
<1>1. w.step = step
  BY DEF WriteThenContinue
<1>2. w' = Idle \/ w' = [w EXCEPT !.mem = new, !.step = Stage(new)]
  BY DEF WriteThenContinue, Update, Continue, Requeue
<1> QED BY <1>1, <1>2, MoveOK, IdleOK, StepTypes

\* Every step keeps the worker's type.
LEMMA WorkerType == TypeOK /\ WorkerOK /\ [Next]_vars => WorkerOK'
<1> SUFFICES ASSUME TypeOK, WorkerOK, [Next]_vars PROVE WorkerOK'
  OBVIOUS
<1>0. /\ w.step \in Steps /\ w.drop \in SUBSET Hosts /\ w.add \in SUBSET Hosts
  BY DEF WorkerOK, Worker
<1>1. CASE AddFinalizer
  <2>1. [w.mem EXCEPT !.finalizer = TRUE] \in AppObject
    BY <1>1, AtWork DEF AddFinalizer, WriteThenContinue, AppObject
  <2> QED BY <1>1, <2>1, WriteType, StepTypes DEF AddFinalizer
<1>2. CASE SetPending
  <2>1. InPhase("Pending") \in AppObject
    BY <1>2, AtWork, InPhaseType DEF SetPending, WriteThenContinue, Phases
  <2> QED BY <1>2, <2>1, WriteType, StepTypes DEF SetPending
<1>3. CASE SetDeploying
  <2>1. InPhase("Deploying") \in AppObject
    BY <1>3, AtWork, InPhaseType DEF SetDeploying, WriteThenContinue, Phases
  <2> QED BY <1>3, <2>1, WriteType, StepTypes DEF SetDeploying
<1>4. CASE SetPaused
  <2>1. InPhase("Paused") \in AppObject /\ w.step # "idle"
    BY <1>4, AtWork, InPhaseType DEF SetPaused, Phases
  <2>2. \/ w' = Idle
        \/ w' = [w EXCEPT !.mem = InPhase("Paused"), !.step = "pauseDelete"]
    BY <1>4 DEF SetPaused, Update, Requeue
  <2> QED BY <2>1, <2>2, MoveOK, IdleOK, StepTypes
<1>5. CASE PauseDelete \/ PutStatus \/ SetFailed \/ RemoveFinalizer \/ Restart
  BY <1>5, IdleOK
  DEF PauseDelete, PutStatus, SetFailed, RemoveFinalizer, Restart, Done, Requeue,
      Update
<1>6. CASE CheckTenant \/ DeployService \/ DeletionService
  <2>1. \/ w' = Idle
        \/ \E s \in DeploySteps \cup DeletionSteps : w' = [w EXCEPT !.step = s]
    BY <1>6 DEF CheckTenant, DeployService, DeletionService, GoTo, Requeue,
                DeploySteps, DeletionSteps
  <2>2. w.step # "idle"
    BY <1>6 DEF CheckTenant, DeployService, DeletionService
  <2> QED BY <2>1, <2>2, MoveOK, IdleOK, StepTypes
<1>7. CASE ListDomains \/ DeleteDomain \/ CreateDomain
  <2>1. \E s \in DeploySteps, d \in SUBSET Hosts, a \in SUBSET Hosts :
          \/ w' = [w EXCEPT !.step = s]
          \/ w' = [w EXCEPT !.drop = d, !.add = a, !.step = s]
    <3>1. CASE ListDomains
      <4>1. w.mem.spec.hosts \in SUBSET Hosts
        BY <3>1, AtWork DEF ListDomains, AppObject, AppSpec
      <4> QED BY <3>1, <4>1 DEF ListDomains, DomainsLeft, DomainStep, GoTo,
                                Owned, DeploySteps
    <3>2. CASE DeleteDomain
      BY <3>2, <1>0 DEF DeleteDomain, DomainsLeft, DomainStep, GoTo, DeploySteps
    <3>3. CASE CreateDomain
      <4>1. PICK x \in w.add : \/ DomainsLeft({}, w.add \ {x})
                                \/ GoTo("setFailed")
        BY <3>3 DEF CreateDomain
      <4> QED BY <4>1, <1>0 DEF DomainsLeft, DomainStep, GoTo, DeploySteps
    <3> QED BY <1>7, <3>1, <3>2, <3>3
  <2>2. w.step # "idle"
    BY <1>7 DEF ListDomains, DeleteDomain, CreateDomain
  <2> QED BY <2>1, <2>2, MoveOK, StepTypes
<1>8. CASE GetStatus
  <2>1. \E r \in BOOLEAN : w' = [w EXCEPT !.step = "putStatus", !.ready = r]
    <3>1. (service[w.key] # NoService /\ service[w.key].ready) \in BOOLEAN
      BY <1>8, AtWork DEF GetStatus, TypeOK, Service
    <3> QED BY <1>8, <3>1 DEF GetStatus
  <2>2. w.step # "idle" /\ "putStatus" \in DeploySteps
    BY <1>8 DEF GetStatus, DeploySteps
  <2> QED BY <2>1, <2>2, MoveOK, StepTypes
<1>9. CASE ListForDeletion \/ DeletionDomain
  <2>1. \E s \in DeletionSteps, d \in SUBSET Hosts :
          w' = [w EXCEPT !.step = s] \/ w' = [w EXCEPT !.drop = d, !.step = s]
    BY <1>9, <1>0 DEF ListForDeletion, DeletionDomain, GoTo, Owned, DeletionSteps
  <2>2. w.step # "idle"
    BY <1>9 DEF ListForDeletion, DeletionDomain
  <2> QED BY <2>1, <2>2, MoveOK, StepTypes
<1>10. ASSUME NEW k \in Apps, Pick(k) PROVE WorkerOK'
  <2>1. CASE cache[k] = NoApp
    BY <1>10, <2>1, IdleOK DEF Pick
  <2>2. CASE cache[k] # NoApp
    <3>1. cache[k] \in AppObject
      BY <2>2 DEF TypeOK
    <3>2. Stage(cache[k]) \in Steps \ {"idle"}
      BY <3>1, StepTypes
    <3> QED BY <1>10, <2>2, <3>1, <3>2 DEF Pick, WorkerOK, Worker, Idle
  <2> QED BY <2>1, <2>2
<1>11. ASSUME NEW k \in Apps, CreateApp(k) \/ EditSpec(k) \/ DeleteApp(k)
       PROVE  WorkerOK'
  <2>1. w' = IF w.key = k THEN [w EXCEPT !.fresh = FALSE] ELSE w
    <3>1. CASE CreateApp(k)
      BY <3>1 DEF CreateApp, WriteByUser
    <3>2. CASE EditSpec(k)
      BY <3>2 DEF EditSpec, WriteByUser
    <3>3. CASE DeleteApp(k)
      BY <3>3 DEF DeleteApp, WriteByUser
    <3> QED BY <1>11, <3>1, <3>2, <3>3
  <2>2. w # Idle => w.step # "idle" /\ w.key \in Apps /\ w.mem \in AppObject
    BY DEF WorkerOK
  <2>3. w = Idle => w' = w
    BY <2>1, NoneAssumption DEF Idle
  <2> QED BY <2>1, <2>2, <2>3 DEF WorkerOK, Worker
<1>12. CASE \/ UNCHANGED vars \/ TenantChange
            \/ \E k \in Apps : \/ CacheSync(k) \/ TimerFire(k) \/ Resync(k)
                               \/ KnativeReports(k)
  <2>1. w' = w
    BY <1>12 DEF vars, TenantChange, CacheSync, TimerFire, Resync, KnativeReports
  <2> QED BY <2>1 DEF WorkerOK
<1> QED
  BY <1>1, <1>2, <1>3, <1>4, <1>5, <1>6, <1>7, <1>8, <1>9, <1>10, <1>11, <1>12
  DEF Next, Work

\* The part of TypeOK that is not about the worker.
LEMMA DataType == TypeOK /\ WorkerOK /\ [Next]_vars /\ WorkerOK' => TypeOK'
<1> SUFFICES ASSUME TypeOK, WorkerOK, [Next]_vars, w' \in Worker PROVE TypeOK'
  BY DEF WorkerOK
<1> USE BoundsAssumption
<1>0. w.step # "idle" => w.key \in Apps /\ w.mem \in AppObject
  BY AtWork
<1>1. ASSUME NEW new \in AppObject \cup {NoApp}, w.step # "idle",
             Written(new) \/ Errored(new),
             delayed' \in {delayed, delayed \cup {w.key}},
             UNCHANGED <<cache, service, mapping, tenantKnown, queue, lost, edits>>
      PROVE  TypeOK'
  BY <1>0, <1>1 DEF TypeOK, Written, Errored, Store, Fault, NoFault
<1>2. CASE \/ AddFinalizer \/ SetPending \/ SetDeploying \/ SetPaused
           \/ PutStatus \/ SetFailed \/ RemoveFinalizer
  <2>1. w.step # "idle"
    BY <1>2 DEF AddFinalizer, SetPending, SetDeploying, WriteThenContinue,
                SetPaused, PutStatus, SetFailed, RemoveFinalizer
  <2>2. \A p \in Phases : InPhase(p) \in AppObject
    BY <1>0, <2>1, InPhaseType
  <2>3. [w.mem EXCEPT !.finalizer = TRUE] \in AppObject
    BY <1>0, <2>1 DEF AppObject
  <2>4. {"Pending", "Deploying", "Ready", "Failed", "Paused"} \subseteq Phases
    BY DEF Phases
  <2>5. \E new \in AppObject \cup {NoApp} :
          /\ Written(new) \/ Errored(new)
          /\ delayed' \in {delayed, delayed \cup {w.key}}
    <3>1. CASE AddFinalizer
      BY <2>3, <3>1 DEF AddFinalizer, WriteThenContinue, Update, Continue, Requeue
    <3>2. CASE SetPending
      BY <2>2, <2>4, <3>2
      DEF SetPending, WriteThenContinue, Update, Continue, Requeue
    <3>3. CASE SetDeploying
      BY <2>2, <2>4, <3>3
      DEF SetDeploying, WriteThenContinue, Update, Continue, Requeue
    <3>4. CASE SetPaused
      BY <2>2, <2>4, <3>4 DEF SetPaused, Update, Requeue
    <3>5. CASE PutStatus
      BY <2>2, <2>4, <3>5 DEF PutStatus, Requeue
    <3>6. CASE SetFailed
      BY <2>2, <2>4, <3>6 DEF SetFailed, Requeue
    <3>7. CASE RemoveFinalizer
      BY <3>7 DEF RemoveFinalizer, Update, Done, Requeue
    <3> QED BY <1>2, <3>1, <3>2, <3>3, <3>4, <3>5, <3>6, <3>7
  <2>6. UNCHANGED <<cache, service, mapping, tenantKnown, queue, lost, edits>>
    BY <1>2 DEF AddFinalizer, SetPending, SetDeploying, WriteThenContinue,
                SetPaused, PutStatus, SetFailed, RemoveFinalizer
  <2> QED BY <1>1, <2>1, <2>5, <2>6
<1>3. CASE PauseDelete \/ CheckTenant \/ DeletionService
  BY <1>0, <1>3 DEF PauseDelete, CheckTenant, DeletionService, DeleteService, Done,
                    GoTo, Requeue, Fault, NoFault, TypeOK
<1>4. CASE DeployService
  <2>1. w.mem.spec.image \in Images
    BY <1>0, <1>4 DEF DeployService, AppObject, AppSpec
  <2>2. Deployed(service[w.key], w.mem.spec.image) \in Service
    BY <1>0, <1>4, <2>1 DEF DeployService, Deployed, TypeOK, Service
  <2> QED BY <1>0, <1>4, <2>2 DEF DeployService, GoTo, Fault, NoFault, TypeOK
<1>5. CASE ListDomains \/ GetStatus \/ ListForDeletion
  BY <1>0, <1>5 DEF ListDomains, GetStatus, ListForDeletion, DomainsLeft, GoTo,
                    Fault, NoFault, TypeOK
<1>6. CASE DeleteDomain \/ CreateDomain \/ DeletionDomain
  <2>1. w.key \in Apps /\ w.drop \subseteq Hosts /\ w.add \subseteq Hosts
    BY <1>0, <1>6 DEF DeleteDomain, CreateDomain, DeletionDomain, TypeOK, Worker
  <2>2. \E h \in Hosts :
          mapping' \in {mapping, [mapping EXCEPT ![h] = Nobody],
                        [mapping EXCEPT ![h] = w.key]}
    BY <1>6, <2>1 DEF DeleteDomain, CreateDomain, DeletionDomain
  <2>3. mapping' \in [Hosts -> Apps \cup {Nobody}]
    BY <2>1, <2>2 DEF TypeOK
  <2>4. /\ lost' \in {lost, lost \cup {w.key}} /\ faults' \in 0 .. MaxFaults
        /\ UNCHANGED <<app, cache, stale, service, tenantKnown, queue, delayed,
                       edits>>
    <3>1. CASE DeleteDomain
      BY <3>1 DEF DeleteDomain, DomainsLeft, GoTo, Fault, NoFault, TypeOK
    <3>2. CASE CreateDomain
      <4>1. PICK h \in w.add :
              /\ (\E s : GoTo(s)) \/ DomainsLeft({}, w.add \ {h})
              /\ Fault \/ NoFault
        BY <3>2 DEF CreateDomain
      <4> QED BY <3>2, <4>1 DEF CreateDomain, DomainsLeft, GoTo, Fault, NoFault,
                                TypeOK
    <3>3. CASE DeletionDomain
      BY <3>3 DEF DeletionDomain, GoTo, Fault, NoFault, TypeOK
    <3> QED BY <1>6, <3>1, <3>2, <3>3
  <2> QED BY <2>1, <2>3, <2>4 DEF TypeOK
<1>7. ASSUME NEW k \in Apps, Pick(k) \/ CacheSync(k) \/ TimerFire(k) \/ Resync(k)
      PROVE  TypeOK'
  BY <1>7 DEF Pick, CacheSync, TimerFire, Resync, Enqueue, TypeOK
<1>8. CASE Restart
  BY <1>8 DEF Restart, Fault, TypeOK
<1>9. CASE TenantChange
  BY <1>9 DEF TenantChange, Fault, TypeOK
<1>10. ASSUME NEW k \in Apps, NEW new \in AppObject \cup {NoApp},
              WriteByUser(k, new)
       PROVE  TypeOK'
  BY <1>10 DEF WriteByUser, TypeOK
<1>11. ASSUME NEW k \in Apps, CreateApp(k) \/ EditSpec(k) \/ DeleteApp(k)
       PROVE  TypeOK'
  <2>1. app[k] \in AppObject \cup {NoApp}
    BY DEF TypeOK
  <2>2. CASE CreateApp(k)
    <3>1. PICK s \in Specs :
            WriteByUser(k, [spec |-> s, finalizer |-> FALSE, deleting |-> FALSE,
                            phase |-> ""])
      BY <2>2 DEF CreateApp
    <3> QED BY <1>10, <3>1, SpecsAssumption DEF AppObject, Phases
  <2>3. CASE EditSpec(k)
    <3>1. PICK s \in Specs : WriteByUser(k, [app[k] EXCEPT !.spec = s])
      BY <2>3 DEF EditSpec
    <3>2. [app[k] EXCEPT !.spec = s] \in AppObject
      BY <2>1, <2>3, SpecsAssumption DEF EditSpec, AppObject
    <3> QED BY <1>10, <3>1, <3>2
  <2>4. CASE DeleteApp(k)
    <3>1. [app[k] EXCEPT !.deleting = TRUE] \in AppObject
      BY <2>1, <2>4 DEF DeleteApp, AppObject
    <3> QED BY <1>10, <2>4, <3>1 DEF DeleteApp
  <2> QED BY <1>11, <2>2, <2>3, <2>4
<1>12. ASSUME NEW k \in Apps, KnativeReports(k) PROVE TypeOK'
  <2>1. service' \in [Apps -> Service \cup {NoService}]
    <3>1. service[k] \in Service
      BY <1>12 DEF KnativeReports, TypeOK
    <3>2. Reported(service[k]) \in Service
      BY <3>1 DEF Reported, Service
    <3> QED BY <1>12, <3>2 DEF KnativeReports, TypeOK
  <2> QED BY <1>12, <2>1 DEF KnativeReports, TypeOK
<1>13. CASE UNCHANGED vars
  BY <1>13 DEF vars, TypeOK
<1> QED
  BY <1>2, <1>3, <1>4, <1>5, <1>6, <1>7, <1>8, <1>9, <1>11, <1>12, <1>13
  DEF Next, Work

\* The types hold before the operator has seen anything.
LEMMA TypeInit == Init => TypeOK /\ WorkerOK
<1> SUFFICES ASSUME Init PROVE TypeOK /\ WorkerOK
  OBVIOUS
<1>1. w \in Worker
  <2>1. "idle" \in Steps
    BY DEF Steps
  <2> QED BY <2>1 DEF Init, Worker, Idle
<1> QED BY <1>1, BoundsAssumption DEF Init, TypeOK, WorkerOK

\* Every variable keeps its type: whatever the order of events, the worker
\* holds an object whenever it is in the middle of a reconcile.
THEOREM TypeCorrect == Spec => []TypeOK
<1>1. Init => TypeOK /\ WorkerOK
  BY TypeInit
<1>2. TypeOK /\ WorkerOK /\ [Next]_vars => (TypeOK /\ WorkerOK)'
  BY WorkerType, DataType
<1> QED BY <1>1, <1>2, PTL DEF Spec

-----------------------------------------------------------------------------
(* The inductive invariant *)

\* Kept by its finalizer; and a version that says nothing of that, because it
\* is absent, terminating or not yet protected.
GuardedBy(o) == o # NoApp /\ o.finalizer
Leaving(o) == o = NoApp \/ o.deleting \/ ~o.finalizer

\* What an old copy still says about the object: a copy that is protected and
\* not terminating is of an object that is still protected; a terminating copy
\* is of an object that no later reconcile has protected again.
CacheInv ==
  \A k \in Apps :
    /\ k \notin stale => cache[k] = app[k]
    /\ ~Leaving(cache[k]) => GuardedBy(app[k])
    /\ cache[k] # NoApp /\ cache[k].deleting => Leaving(app[k])
    /\ app[k] # NoApp /\ app[k].deleting => app[k].finalizer

\* The steps that only a reconcile of a protected object reaches.
GuardedSteps == {"pending", "pause", "pauseDelete", "deploying"} \cup DeploySteps

\* What the worker may rely on at each step of its reconcile.
WorkInv ==
  /\ w.fresh => w.step # "idle" /\ w.mem = app[w.key]
  /\ w.step = "finalizer" =>
       /\ ~w.mem.deleting /\ ~w.mem.finalizer
       /\ w.fresh => cache[w.key] = w.mem
  /\ w.step \in GuardedSteps =>
       ~w.mem.deleting /\ w.mem.finalizer /\ GuardedBy(app[w.key])
  /\ w.step \in DeletionSteps =>
       w.mem.deleting /\ Leaving(cache[w.key]) /\ Leaving(app[w.key])

\* reconcileDelete has released, or given up, what it has gone past.
ReleaseInv ==
  w.key \notin lost =>
    /\ w.step = "deletionDomain" => Owned(w.key) \subseteq w.drop
    /\ w.step \in {"deletionKnative", "removeFinalizer"} => Owned(w.key) = {}
    /\ w.step = "removeFinalizer" => service[w.key] = NoService

\* The mappings about to be deleted are the app's own: since the list was
\* taken nobody else has changed a mapping.
DropInv ==
  w.step \in {"domainDelete", "deletionDomain"} => w.drop \subseteq Owned(w.key)

IInv ==
  /\ TypeOK /\ WorkerOK
  /\ CacheInv /\ WorkInv /\ ReleaseInv /\ DropInv
  /\ NoOrphans

\* The calls of Reconcile that write the App object.
ObjectWrites ==
  \/ AddFinalizer \/ SetPending \/ SetDeploying \/ SetPaused
  \/ PutStatus \/ SetFailed \/ RemoveFinalizer

\* The calls that do not.
OtherWork ==
  \/ PauseDelete \/ CheckTenant \/ DeployService
  \/ ListDomains \/ DeleteDomain \/ CreateDomain \/ GetStatus
  \/ ListForDeletion \/ DeletionDomain \/ DeletionService

\* What a write of the worker can store, by the step that makes it.
NewObject(new) ==
  \/ w.step = "finalizer" /\ new = [w.mem EXCEPT !.finalizer = TRUE]
  \/ w.step \in GuardedSteps /\ \E p \in Phases : new = InPhase(p)
  \/ w.step = "removeFinalizer" /\ new = NoApp

\* What a reconcile's write does to the object: the API server takes it only
\* from the latest copy, and then stores that copy with one field changed.
LEMMA ObjectWrite ==
  ASSUME ObjectWrites
  PROVE  /\ w.step # "idle"
         /\ UNCHANGED <<cache, service, mapping, lost, edits>>
         /\ \/ UNCHANGED <<app, stale>>
            \/ w.fresh /\ \E new : NewObject(new) /\ Store(new)
<1> USE DEF Update, Written, Errored, NewObject, GuardedSteps
<1>1. {"Pending", "Deploying", "Ready", "Failed", "Paused"} \subseteq Phases
  BY DEF Phases
<1>2. CASE AddFinalizer
  BY <1>2 DEF AddFinalizer, WriteThenContinue
<1>3. CASE SetPending
  BY <1>1, <1>3 DEF SetPending, WriteThenContinue
<1>4. CASE SetDeploying
  BY <1>1, <1>4 DEF SetDeploying, WriteThenContinue
<1>5. CASE SetPaused
  BY <1>1, <1>5 DEF SetPaused
<1>6. CASE PutStatus
  BY <1>1, <1>6 DEF PutStatus, DeploySteps
<1>7. CASE SetFailed
  BY <1>1, <1>7 DEF SetFailed, DeploySteps
<1>8. CASE RemoveFinalizer
  BY <1>8 DEF RemoveFinalizer
<1> QED BY <1>2, <1>3, <1>4, <1>5, <1>6, <1>7, <1>8 DEF ObjectWrites

\* Where a reconcile goes on after such a write, if it does.
LEMMA WriteMove ==
  ASSUME WorkerOK, ObjectWrites
  PROVE  \/ w' = Idle
         \/ \E new \in AppObject : w' = [w EXCEPT !.mem = new, !.step = Stage(new)]
         \/ \E new \in AppObject : w' = [w EXCEPT !.mem = new, !.step = "pauseDelete"]
<1>1. w.mem \in AppObject
  BY ObjectWrite, AtWork
<1>2. [w.mem EXCEPT !.finalizer = TRUE] \in AppObject
  BY <1>1 DEF AppObject
<1>3. /\ InPhase("Pending") \in AppObject /\ InPhase("Deploying") \in AppObject
      /\ InPhase("Paused") \in AppObject
  BY <1>1, InPhaseType DEF Phases
<1> QED
  BY <1>2, <1>3
  DEF ObjectWrites, AddFinalizer, SetPending, SetDeploying, SetPaused, PutStatus,
      SetFailed, RemoveFinalizer, WriteThenContinue, Update, Continue, Requeue, Done

UserWrites(k) == CreateApp(k) \/ EditSpec(k) \/ DeleteApp(k)

\* A user can neither take the finalizer off an object nor undo its deletion.
KeepsProtection(old, new) ==
  /\ GuardedBy(old) => GuardedBy(new)
  /\ Leaving(old) => Leaving(new)
  /\ new # NoApp /\ new.deleting => new.finalizer

\* What a user's write does to the object: it never removes the finalizer of an
\* object that stays.
LEMMA UserWrite ==
  ASSUME TypeOK, CacheInv, NEW k \in Apps, UserWrites(k)
  PROVE  \E new \in AppObject \cup {NoApp} :
           WriteByUser(k, new) /\ KeepsProtection(app[k], new)
<1>1. app[k] \in AppObject \cup {NoApp}
  BY DEF TypeOK
<1>2. CASE CreateApp(k)
  <2>1. PICK s \in Specs :
          WriteByUser(k, [spec |-> s, finalizer |-> FALSE, deleting |-> FALSE,
                          phase |-> ""])
    BY <1>2 DEF CreateApp
  <2>2. [spec |-> s, finalizer |-> FALSE, deleting |-> FALSE, phase |-> ""]
          \in AppObject
    BY SpecsAssumption DEF AppObject, Phases
  <2>3. app[k] = NoApp
    BY <1>2 DEF CreateApp
  <2>4. KeepsProtection(app[k], [spec |-> s, finalizer |-> FALSE,
                                 deleting |-> FALSE, phase |-> ""])
    BY <2>3 DEF KeepsProtection, GuardedBy, Leaving
  <2> QED BY <2>1, <2>2, <2>4
<1>3. CASE EditSpec(k)
  <2>1. PICK s \in Specs : WriteByUser(k, [app[k] EXCEPT !.spec = s])
    BY <1>3 DEF EditSpec
  <2>2. app[k] \in AppObject /\ app[k] # NoApp /\ s \in AppSpec
    BY <1>1, <1>3, SpecsAssumption DEF EditSpec
  <2>3. app[k].deleting => app[k].finalizer
    BY <2>2 DEF CacheInv
  <2>4. [app[k] EXCEPT !.spec = s] \in AppObject
    BY <2>2 DEF AppObject
  <2>5. KeepsProtection(app[k], [app[k] EXCEPT !.spec = s])
    BY <2>2, <2>3, <2>4, NoneAssumption
    DEF KeepsProtection, GuardedBy, Leaving, AppObject
  <2> QED BY <2>1, <2>4, <2>5
<1>4. CASE DeleteApp(k)
  <2>1. app[k] \in AppObject /\ app[k] # NoApp
    BY <1>1, <1>4 DEF DeleteApp
  <2>2. CASE app[k].finalizer
    <3>1. WriteByUser(k, [app[k] EXCEPT !.deleting = TRUE])
      BY <1>4, <2>2 DEF DeleteApp
    <3>2. [app[k] EXCEPT !.deleting = TRUE] \in AppObject
      BY <2>1 DEF AppObject
    <3>3. KeepsProtection(app[k], [app[k] EXCEPT !.deleting = TRUE])
      BY <2>1, <2>2, <3>2, NoneAssumption
      DEF KeepsProtection, GuardedBy, Leaving, AppObject
    <3> QED BY <3>1, <3>2, <3>3
  <2>3. CASE ~app[k].finalizer
    <3>1. WriteByUser(k, NoApp)
      BY <1>4, <2>3 DEF DeleteApp
    <3>2. KeepsProtection(app[k], NoApp)
      BY <2>1, <2>3 DEF KeepsProtection, GuardedBy, Leaving
    <3> QED BY <3>1, <3>2
  <2> QED BY <2>2, <2>3
<1> QED BY <1>2, <1>3, <1>4 DEF UserWrites

\* The steps that touch neither the objects nor the cache.
LEMMA ObjectsUnchanged ==
  ASSUME \/ OtherWork \/ TenantChange \/ UNCHANGED vars
         \/ \E k \in Apps : \/ Pick(k) \/ TimerFire(k) \/ Resync(k)
                            \/ KnativeReports(k)
  PROVE  UNCHANGED <<app, cache, stale, edits>>
BY DEF OtherWork, PauseDelete, CheckTenant, DeployService, ListDomains,
       DeleteDomain, CreateDomain, GetStatus, ListForDeletion, DeletionDomain,
       DeletionService, TenantChange, vars, Pick, TimerFire, Resync,
       KnativeReports

\* The steps outside Reconcile that leave the worker where it is.
Background(k) == CacheSync(k) \/ TimerFire(k) \/ Resync(k) \/ KnativeReports(k)

\* Every step is the worker's, the restart of the operator, a user's, or one of
\* the runtime and the cluster.
LEMMA NextCases ==
  [Next]_vars =>
    \/ ObjectWrites \/ OtherWork \/ Restart \/ TenantChange \/ UNCHANGED vars
    \/ \E k \in Apps : Pick(k) \/ UserWrites(k) \/ Background(k)
BY DEF Next, Work, ObjectWrites, OtherWork, UserWrites, Background

\* The cache never shows a version that the history of the object excludes,
\* however late the watch events are.
LEMMA CacheStep ==
  ASSUME TypeOK, WorkerOK, CacheInv, WorkInv, [Next]_vars
  PROVE  CacheInv'
<1> SUFFICES ASSUME NEW k \in Apps
             PROVE  /\ k \notin stale' => cache'[k] = app'[k]
                    /\ ~Leaving(cache'[k]) => GuardedBy(app'[k])
                    /\ cache'[k] # NoApp /\ cache'[k].deleting => Leaving(app'[k])
                    /\ app'[k] # NoApp /\ app'[k].deleting => app'[k].finalizer
  BY DEF CacheInv, Leaving, GuardedBy
<1>0. /\ k \notin stale => cache[k] = app[k]
      /\ ~Leaving(cache[k]) => GuardedBy(app[k])
      /\ cache[k] # NoApp /\ cache[k].deleting => Leaving(app[k])
      /\ app[k] # NoApp /\ app[k].deleting => app[k].finalizer
  BY DEF CacheInv
<1>1. CASE UNCHANGED <<app, cache, stale>>
  BY <1>0, <1>1
<1>2. CASE ObjectWrites
  <2>1. w.step # "idle" /\ UNCHANGED cache
    BY <1>2, ObjectWrite
  <2>2. CASE UNCHANGED <<app, stale>>
    BY <1>0, <2>1, <2>2
  <2>3. CASE w.fresh /\ \E new : NewObject(new) /\ Store(new)
    <3>1. PICK new : NewObject(new) /\ Store(new)
      BY <2>3
    <3>2. w.mem \in AppObject /\ w.key \in Apps /\ app[w.key] = w.mem
      BY <2>1, <2>3, AtWork DEF WorkInv
    <3>3. CASE k # w.key
      BY <1>0, <2>1, <3>1, <3>2, <3>3 DEF Store, TypeOK
    <3>4. CASE k = w.key
      <4>1. app'[k] = new /\ (k \notin stale' => k \notin stale /\ new = app[k])
        BY <3>1, <3>2, <3>4 DEF Store, TypeOK
      <4>2. CASE w.step = "finalizer"
        <5>1. new.finalizer /\ ~new.deleting /\ new # NoApp
          <6>1. new = [w.mem EXCEPT !.finalizer = TRUE]
            BY <3>1, <4>2 DEF NewObject, GuardedSteps, DeploySteps
          <6>2. new \in AppObject
            BY <3>2, <6>1 DEF AppObject
          <6> QED BY <3>2, <4>2, <6>1, <6>2, NoneAssumption DEF WorkInv, AppObject
        <5>2. cache[k] = w.mem /\ ~w.mem.deleting
          BY <2>3, <3>4, <4>2 DEF WorkInv
        <5> QED BY <1>0, <2>1, <4>1, <5>1, <5>2 DEF GuardedBy
      <4>3. CASE w.step \in GuardedSteps
        <5>1. /\ new # NoApp /\ new.finalizer = app[k].finalizer
              /\ new.deleting = app[k].deleting
          <6>1. PICK p \in Phases : new = InPhase(p)
            BY <3>1, <4>3 DEF NewObject, GuardedSteps, DeploySteps
          <6>2. new \in AppObject
            BY <3>2, <6>1, InPhaseType
          <6> QED BY <3>2, <3>4, <6>1, <6>2, NoneAssumption DEF InPhase, AppObject
        <5> QED BY <1>0, <2>1, <3>2, <3>4, <4>1, <5>1, NoneAssumption
                DEF GuardedBy, Leaving
      <4>4. CASE w.step = "removeFinalizer"
        <5>1. new = NoApp
          BY <3>1, <4>4 DEF NewObject, GuardedSteps, DeploySteps
        <5>2. Leaving(cache[k])
          BY <3>4, <4>4 DEF WorkInv, DeletionSteps
        <5> QED BY <1>0, <2>1, <4>1, <5>1, <5>2 DEF Leaving
      <4> QED BY <3>1, <4>2, <4>3, <4>4 DEF NewObject
    <3> QED BY <3>3, <3>4
  <2> QED BY <1>2, <2>2, <2>3, ObjectWrite
<1>3. ASSUME NEW j \in Apps, UserWrites(j)
      PROVE  /\ k \notin stale' => cache'[k] = app'[k]
             /\ ~Leaving(cache'[k]) => GuardedBy(app'[k])
             /\ cache'[k] # NoApp /\ cache'[k].deleting => Leaving(app'[k])
             /\ app'[k] # NoApp /\ app'[k].deleting => app'[k].finalizer
  <2>1. PICK new : WriteByUser(j, new) /\ KeepsProtection(app[j], new)
    BY <1>3, UserWrite
  <2>2. /\ app' = [app EXCEPT ![j] = new] /\ cache' = cache
        /\ stale' = stale \cup {j}
    BY <2>1 DEF WriteByUser
  <2>3. CASE k # j
    BY <1>0, <2>2, <2>3 DEF TypeOK
  <2>4. CASE k = j
    BY <1>0, <2>1, <2>2, <2>4 DEF TypeOK, KeepsProtection
  <2> QED BY <2>3, <2>4
<1>4. ASSUME NEW j \in Apps, CacheSync(j)
      PROVE  /\ k \notin stale' => cache'[k] = app'[k]
             /\ ~Leaving(cache'[k]) => GuardedBy(app'[k])
             /\ cache'[k] # NoApp /\ cache'[k].deleting => Leaving(app'[k])
             /\ app'[k] # NoApp /\ app'[k].deleting => app'[k].finalizer
  <2>1. /\ app' = app /\ stale' = stale \ {j}
        /\ cache' = [cache EXCEPT ![j] = app[j]]
    BY <1>4 DEF CacheSync
  <2> QED BY <1>0, <2>1 DEF TypeOK, GuardedBy, Leaving
<1>5. CASE Restart
  BY <1>0, <1>5 DEF Restart, GuardedBy, Leaving
<1> QED
  BY <1>1, <1>2, <1>3, <1>4, <1>5, NextCases, ObjectsUnchanged DEF Background

\* The call that Reconcile starts with belongs to the part of Reconcile that the
\* copy in hand selects.
LEMMA StepClasses ==
  /\ "finalizer" \notin GuardedSteps \cup DeletionSteps
  /\ "idle" \notin GuardedSteps \cup DeletionSteps
  /\ GuardedSteps \cap DeletionSteps = {}
  /\ \A m \in AppObject :
       /\ ~m.deleting /\ m.finalizer => Stage(m) \in GuardedSteps
       /\ m.deleting => Stage(m) \in DeletionSteps
<1>1. \A m \in AppObject :
        /\ ~m.deleting /\ m.finalizer =>
             Stage(m) \in {"pending", "pause", "deploying", "tenant"}
        /\ m.deleting => Stage(m) = "deletionList"
  BY StageFacts
<1> QED BY <1>1 DEF GuardedSteps, DeploySteps, DeletionSteps

\* Between reconciles WorkInv asks for nothing.
LEMMA WorkIdle == w' = Idle => WorkInv'
BY StepClasses DEF WorkInv, Idle

\* A call that does not write the object stays in the same part of Reconcile
\* and keeps the copy it works on.
LEMMA OtherWorkMove ==
  ASSUME WorkerOK, OtherWork
  PROVE  \/ w' = Idle
         \/ /\ w'.key = w.key /\ w'.mem = w.mem /\ w'.fresh = w.fresh
            /\ \/ w.step \in GuardedSteps /\ w'.step \in GuardedSteps
               \/ w.step \in DeletionSteps /\ w'.step \in DeletionSteps
<1> DEFINE Kept == w'.key = w.key /\ w'.mem = w.mem /\ w'.fresh = w.fresh
<1>0. w.step # "idle" /\ w \in Worker
  BY AtWork
  DEF OtherWork, PauseDelete, CheckTenant, DeployService, ListDomains,
      DeleteDomain, CreateDomain, GetStatus, ListForDeletion, DeletionDomain,
      DeletionService, WorkerOK
<1>1. CASE PauseDelete
  BY <1>1 DEF PauseDelete, Done
<1>2. CASE CheckTenant \/ DeployService
  BY <1>0, <1>2 DEF CheckTenant, DeployService, GoTo, Requeue, GuardedSteps,
                    DeploySteps, Worker
<1>3. CASE ListDomains
  BY <1>0, <1>3 DEF ListDomains, GoTo, DomainsLeft, DomainStep, GuardedSteps,
                    DeploySteps, Worker
<1>4. CASE DeleteDomain \/ CreateDomain
  <2>1. \E h \in Hosts, add \in SUBSET Hosts, drop \in SUBSET Hosts :
          GoTo("setFailed") \/ DomainsLeft(drop, add)
    <3>1. w.drop \subseteq Hosts /\ w.add \subseteq Hosts
      BY <1>0 DEF Worker
    <3> QED BY <1>4, <3>1 DEF DeleteDomain, CreateDomain
  <2> QED BY <1>0, <1>4, <2>1 DEF DeleteDomain, CreateDomain, GoTo, DomainsLeft,
                    DomainStep, GuardedSteps, DeploySteps, Worker
<1>5. CASE GetStatus
  BY <1>0, <1>5 DEF GetStatus, GuardedSteps, DeploySteps, Worker
<1>6. CASE ListForDeletion \/ DeletionDomain \/ DeletionService
  BY <1>0, <1>6 DEF ListForDeletion, DeletionDomain, DeletionService, GoTo,
                    DeletionSteps, Worker
<1> QED BY <1>1, <1>2, <1>3, <1>4, <1>5, <1>6 DEF OtherWork

\* The part of Reconcile the worker is in fits the copy it works on, and the
\* copy fits the object.
LEMMA WorkStep ==
  ASSUME TypeOK, WorkerOK, CacheInv, WorkInv, [Next]_vars
  PROVE  WorkInv'
<1>1. CASE UNCHANGED <<app, cache, w>>
  BY <1>1 DEF WorkInv, GuardedBy, Leaving
<1>2. CASE ObjectWrites
  <2>0. w.step # "idle" /\ cache' = cache
    BY <1>2, ObjectWrite
  <2>1. w \in Worker /\ w.key \in Apps /\ w.mem \in AppObject
    BY <2>0, AtWork
  <2>2. ASSUME NEW new \in AppObject, Written(new), w.step # "removeFinalizer",
               ~new.deleting, new.finalizer,
               NEW s \in GuardedSteps, w' = [w EXCEPT !.mem = new, !.step = s]
        PROVE  WorkInv'
    <3>1. app'[w.key] = new /\ w'.key = w.key /\ w'.mem = new /\ w'.step = s
      BY <2>1, <2>2 DEF Written, Store, TypeOK, Worker
    <3> QED BY <2>2, <3>1, StepClasses, NoneAssumption
            DEF WorkInv, GuardedBy, Leaving
  <2>3. CASE AddFinalizer
    <3> DEFINE new == [w.mem EXCEPT !.finalizer = TRUE]
    <3>1. \/ w' = Idle
          \/ Written(new) /\ w' = [w EXCEPT !.mem = new, !.step = Stage(new)]
      BY <2>3 DEF AddFinalizer, WriteThenContinue, Update, Continue, Requeue
    <3>2. w.step = "finalizer" /\ ~w.mem.deleting
      BY <2>3 DEF AddFinalizer, WriteThenContinue, WorkInv
    <3>3. new \in AppObject /\ ~new.deleting /\ new.finalizer
      BY <2>1, <3>2 DEF AppObject
    <3> QED BY <2>2, <3>1, <3>2, <3>3, StepClasses, WorkIdle
  <2>4. CASE SetPending \/ SetDeploying \/ SetPaused
    <3>1. \E p \in Phases :
            \/ w' = Idle
            \/ /\ Written(InPhase(p))
               /\ \/ w' = [w EXCEPT !.mem = InPhase(p),
                                    !.step = Stage(InPhase(p))]
                  \/ w' = [w EXCEPT !.mem = InPhase(p), !.step = "pauseDelete"]
      <4>1. "Pending" \in Phases /\ "Deploying" \in Phases /\ "Paused" \in Phases
        BY DEF Phases
      <4> QED BY <2>4, <4>1 DEF SetPending, SetDeploying, SetPaused,
                                WriteThenContinue, Update, Continue, Requeue
    <3>2. w.step \in GuardedSteps /\ w.step # "removeFinalizer"
      BY <2>4 DEF SetPending, SetDeploying, SetPaused, WriteThenContinue,
                  GuardedSteps
    <3>3. ~w.mem.deleting /\ w.mem.finalizer
      BY <3>2 DEF WorkInv
    <3>4. \A p \in Phases : /\ InPhase(p) \in AppObject
                            /\ ~InPhase(p).deleting /\ InPhase(p).finalizer
      BY <2>1, <3>3, InPhaseType DEF InPhase, AppObject
    <3>5. "pauseDelete" \in GuardedSteps
      BY DEF GuardedSteps
    <3> QED BY <2>2, <3>1, <3>2, <3>4, <3>5, StepClasses, WorkIdle
  <2>5. CASE PutStatus \/ SetFailed \/ RemoveFinalizer
    BY <2>5, WorkIdle
    DEF PutStatus, SetFailed, RemoveFinalizer, Update, Requeue, Done
  <2> QED BY <1>2, <2>3, <2>4, <2>5 DEF ObjectWrites
<1>3. CASE OtherWork
  <2>1. UNCHANGED <<app, cache>>
    BY <1>3, ObjectsUnchanged
  <2>2. CASE w' = Idle
    BY <2>2, WorkIdle
  <2>3. CASE /\ w'.key = w.key /\ w'.mem = w.mem /\ w'.fresh = w.fresh
             /\ \/ w.step \in GuardedSteps /\ w'.step \in GuardedSteps
                \/ w.step \in DeletionSteps /\ w'.step \in DeletionSteps
    BY <2>1, <2>3, StepClasses DEF WorkInv, GuardedBy, Leaving
  <2> QED BY <1>3, <2>2, <2>3, OtherWorkMove
<1>4. ASSUME NEW k \in Apps, Pick(k) PROVE WorkInv'
  <2>1. CASE cache[k] = NoApp
    BY <1>4, <2>1, WorkIdle DEF Pick
  <2>2. CASE cache[k] # NoApp
    <3>1. cache[k] \in AppObject
      BY <2>2 DEF TypeOK
    <3>2. /\ w'.step = Stage(cache[k]) /\ w'.key = k /\ w'.mem = cache[k]
          /\ w'.fresh = (k \notin stale)
          /\ app' = app /\ cache' = cache
      BY <1>4, <2>2 DEF Pick, Idle
    <3>3. /\ k \notin stale => cache[k] = app[k]
          /\ ~Leaving(cache[k]) => GuardedBy(app[k])
          /\ cache[k].deleting => Leaving(app[k])
      BY <2>2 DEF CacheInv
    <3>4. CASE cache[k].deleting
      <4>1. Stage(cache[k]) \in DeletionSteps
        BY <3>1, <3>4, StepClasses
      <4>2. Stage(cache[k]) \notin GuardedSteps \cup {"finalizer", "idle"}
        BY <4>1, StepClasses
      <4>3. Leaving(cache[k])
        BY <3>4 DEF Leaving
      <4> QED BY <3>2, <3>3, <3>4, <4>1, <4>2, <4>3 DEF WorkInv, GuardedBy, Leaving
    <3>5. CASE ~cache[k].deleting /\ cache[k].finalizer
      <4>1. Stage(cache[k]) \in GuardedSteps
        BY <3>1, <3>5, StepClasses
      <4>2. Stage(cache[k]) \notin DeletionSteps \cup {"finalizer", "idle"}
        BY <4>1, StepClasses
      <4>3. ~Leaving(cache[k])
        BY <2>2, <3>5 DEF Leaving
      <4> QED BY <3>2, <3>3, <3>5, <4>1, <4>2, <4>3 DEF WorkInv, GuardedBy, Leaving
    <3>6. CASE ~cache[k].deleting /\ ~cache[k].finalizer
      <4>1. Stage(cache[k]) = "finalizer"
        BY <3>1, <3>6, StageFacts
      <4>2. "finalizer" \notin GuardedSteps \cup DeletionSteps
        BY StepClasses
      <4> QED BY <3>2, <3>3, <3>6, <4>1, <4>2 DEF WorkInv
    <3> QED BY <3>1, <3>4, <3>5, <3>6
  <2> QED BY <2>1, <2>2
<1>5. ASSUME NEW k \in Apps, UserWrites(k) PROVE WorkInv'
  <2>1. PICK new : WriteByUser(k, new) /\ KeepsProtection(app[k], new)
    BY <1>5, UserWrite
  <2>2. /\ app' = [app EXCEPT ![k] = new] /\ cache' = cache
        /\ w' = IF w.key = k THEN [w EXCEPT !.fresh = FALSE] ELSE w
    BY <2>1 DEF WriteByUser
  <2>3. CASE w.key = k
    <3>1. /\ w'.step = w.step /\ w'.key = w.key /\ w'.mem = w.mem /\ ~w'.fresh
          /\ app'[k] = new
      BY <2>2, <2>3 DEF WorkerOK, Worker, TypeOK
    <3> QED BY <2>1, <2>2, <2>3, <3>1, StepClasses
            DEF WorkInv, KeepsProtection, GuardedBy, Leaving
  <2>4. CASE w.key # k
    <3>1. w' = w
      BY <2>2, <2>4
    <3>2. w.step # "idle" => w.key \in Apps
      BY AtWork
    <3>3. w.key \in Apps => app'[w.key] = app[w.key]
      BY <2>2, <2>4 DEF TypeOK
    <3> QED BY <2>2, <3>1, <3>2, <3>3, StepClasses DEF WorkInv, GuardedBy, Leaving
  <2> QED BY <2>3, <2>4
<1>6. ASSUME NEW k \in Apps, CacheSync(k) PROVE WorkInv'
  <2>1. app' = app /\ w' = w /\ cache' = [cache EXCEPT ![k] = app[k]]
    BY <1>6 DEF CacheSync
  <2>2. w.step # "idle" => w.key \in Apps
    BY AtWork
  <2>3. w.key \in Apps => cache'[w.key] \in {cache[w.key], app[w.key]}
    BY <2>1 DEF TypeOK
  <2> QED BY <2>1, <2>2, <2>3, StepClasses DEF WorkInv, GuardedBy, Leaving
<1>7. CASE Restart
  BY <1>7, WorkIdle DEF Restart
<1>8. CASE \/ TenantChange \/ UNCHANGED vars
           \/ \E k \in Apps : TimerFire(k) \/ Resync(k) \/ KnativeReports(k)
  BY <1>1, <1>8 DEF TenantChange, vars, TimerFire, Resync, KnativeReports
<1> QED
  BY <1>2, <1>3, <1>4, <1>5, <1>6, <1>7, <1>8, NextCases DEF Background

\* Between reconciles ReleaseInv asks for nothing.
LEMMA ReleaseIdle == w' = Idle => ReleaseInv'
BY DEF ReleaseInv, Idle

\* At every other step ReleaseInv asks for nothing.
LEMMA ReleaseElsewhere ==
  w'.step \notin {"deletionDomain", "deletionKnative", "removeFinalizer"}
    => ReleaseInv'
BY DEF ReleaseInv

\* The clean-up of reconcileDelete goes through its resources in order, and what
\* it has passed is gone or given up.
LEMMA ReleaseStep ==
  ASSUME TypeOK, WorkerOK, ReleaseInv, [Next]_vars
  PROVE  ReleaseInv'
<1>1. CASE UNCHANGED <<mapping, service, lost, w>>
  BY <1>1 DEF ReleaseInv, Owned
<1>2. CASE ObjectWrites
  <2>0. w.step # "idle"
    BY <1>2, ObjectWrite
  <2>1. w \in Worker /\ w.mem \in AppObject
    BY <2>0, AtWork
  <2>2. \/ w' = Idle
        \/ \E new \in AppObject : w' = [w EXCEPT !.mem = new, !.step = Stage(new)]
        \/ \E new \in AppObject : w' = [w EXCEPT !.mem = new, !.step = "pauseDelete"]
    BY <1>2, WriteMove
  <2>3. \A new \in AppObject :
          Stage(new) \notin {"deletionDomain", "deletionKnative", "removeFinalizer"}
    BY StageFacts
  <2> QED BY <2>1, <2>2, <2>3, ReleaseIdle, ReleaseElsewhere DEF Worker
<1>3. CASE PauseDelete \/ Restart
  BY <1>3, ReleaseIdle DEF PauseDelete, Done, Restart
<1>4. CASE \/ CheckTenant \/ DeployService
           \/ ListDomains \/ DeleteDomain \/ CreateDomain \/ GetStatus
  <2>1. w.step \in GuardedSteps
    BY <1>4 DEF CheckTenant, DeployService, ListDomains, DeleteDomain,
                CreateDomain, GetStatus, GuardedSteps, DeploySteps
  <2>2. w' = Idle \/ w'.step \in GuardedSteps
    BY <1>4, <2>1, OtherWorkMove, StepClasses DEF OtherWork
  <2>3. {"deletionDomain", "deletionKnative", "removeFinalizer"} \cap GuardedSteps = {}
    BY DEF GuardedSteps, DeploySteps
  <2> QED BY <2>2, <2>3, ReleaseIdle, ReleaseElsewhere
<1>5. CASE ListForDeletion
  <2>1. w.step # "idle" /\ w \in Worker
    BY <1>5, AtWork DEF ListForDeletion
  <2>2. UNCHANGED <<mapping, service>>
    BY <1>5 DEF ListForDeletion
  <2>3. CASE w' = [w EXCEPT !.drop = Owned(w.key),
                            !.step = IF Owned(w.key) = {} THEN "deletionKnative"
                                     ELSE "deletionDomain"]
    <3>1. /\ w'.key = w.key /\ w'.drop = Owned(w.key)
          /\ w'.step = IF Owned(w.key) = {} THEN "deletionKnative"
                       ELSE "deletionDomain"
      BY <2>1, <2>3 DEF Worker
    <3> QED BY <2>2, <3>1 DEF ReleaseInv, Owned
  <2>4. CASE GoTo("deletionKnative") /\ lost' = lost \cup {w.key}
    BY <2>1, <2>4 DEF GoTo, Worker, ReleaseInv
  <2> QED BY <1>5, <2>3, <2>4 DEF ListForDeletion
<1>6. CASE DeletionDomain
  <2>1. w.step = "deletionDomain" /\ w \in Worker
    BY <1>6, AtWork DEF DeletionDomain
  <2>2. PICK h \in w.drop :
          \/ /\ mapping' = [mapping EXCEPT ![h] = Nobody]
             /\ w' = [w EXCEPT !.drop = @ \ {h},
                               !.step = IF w.drop = {h} THEN "deletionKnative"
                                        ELSE "deletionDomain"]
             /\ UNCHANGED lost
          \/ GoTo("deletionKnative") /\ lost' = lost \cup {w.key}
    BY <1>6 DEF DeletionDomain
  <2>3. CASE GoTo("deletionKnative") /\ lost' = lost \cup {w.key}
    BY <2>1, <2>3 DEF GoTo, Worker, ReleaseInv
  <2>4. CASE /\ mapping' = [mapping EXCEPT ![h] = Nobody]
             /\ w' = [w EXCEPT !.drop = @ \ {h},
                               !.step = IF w.drop = {h} THEN "deletionKnative"
                                        ELSE "deletionDomain"]
             /\ UNCHANGED lost
    <3>1. /\ w'.key = w.key /\ w'.drop = w.drop \ {h}
          /\ w'.step = IF w.drop = {h} THEN "deletionKnative" ELSE "deletionDomain"
      BY <2>1, <2>4 DEF Worker
    <3>2. w.key \in Apps
      BY <2>1, AtWork
    <3>3. w.key \notin lost =>
            {x \in Hosts : mapping'[x] = w.key} \subseteq w.drop \ {h}
      BY <2>1, <2>4, <3>2, NoneAssumption DEF ReleaseInv, Owned, TypeOK
    <3> QED BY <2>4, <3>1, <3>3 DEF ReleaseInv, Owned
  <2> QED BY <2>2, <2>3, <2>4
<1>7. CASE DeletionService
  <2>1. w.step = "deletionKnative" /\ w \in Worker /\ w.key \in Apps
    BY <1>7, AtWork DEF DeletionService
  <2>2. w'.step = "removeFinalizer" /\ w'.key = w.key /\ mapping' = mapping
    BY <1>7, <2>1 DEF DeletionService, GoTo, Worker
  <2>3. \/ lost' = lost /\ service'[w.key] = NoService
        \/ lost' = lost \cup {w.key}
    BY <1>7, <2>1 DEF DeletionService, DeleteService, TypeOK
  <2> QED BY <2>1, <2>2, <2>3 DEF ReleaseInv, Owned
<1>8. ASSUME NEW k \in Apps, Pick(k) PROVE ReleaseInv'
  <2>1. CASE cache[k] = NoApp
    BY <1>8, <2>1, ReleaseIdle DEF Pick
  <2>2. CASE cache[k] # NoApp
    <3>1. cache[k] \in AppObject
      BY <2>2 DEF TypeOK
    <3>2. w'.step = Stage(cache[k])
      BY <1>8, <2>2 DEF Pick, Idle
    <3> QED BY <3>1, <3>2, StageFacts, ReleaseElsewhere
  <2> QED BY <2>1, <2>2
<1>9. ASSUME NEW k \in Apps, UserWrites(k) PROVE ReleaseInv'
  <2>1. PICK new : WriteByUser(k, new)
    BY <1>9 DEF UserWrites, CreateApp, EditSpec, DeleteApp
  <2>2. /\ w'.step = w.step /\ w'.key = w.key /\ w'.drop = w.drop
        /\ UNCHANGED <<mapping, service, lost>>
    BY <2>1 DEF WriteByUser, WorkerOK, Worker
  <2> QED BY <2>2 DEF ReleaseInv, Owned
<1>10. ASSUME NEW k \in Apps, KnativeReports(k) PROVE ReleaseInv'
  <2>1. /\ UNCHANGED <<w, mapping, lost>>
        /\ \A j \in Apps : service[j] = NoService => service'[j] = NoService
    BY <1>10 DEF KnativeReports, TypeOK
  <2>2. w.step # "idle" => w.key \in Apps
    BY AtWork
  <2> QED BY <2>1, <2>2 DEF ReleaseInv, Owned
<1>11. CASE \/ TenantChange \/ UNCHANGED vars
            \/ \E k \in Apps : CacheSync(k) \/ TimerFire(k) \/ Resync(k)
  BY <1>1, <1>11 DEF TenantChange, vars, CacheSync, TimerFire, Resync
<1> QED
  BY <1>2, <1>3, <1>4, <1>5, <1>6, <1>7, <1>8, <1>9, <1>10, <1>11, NextCases
  DEF OtherWork, Background

\* At every other step DropInv asks for nothing.
LEMMA DropElsewhere ==
  w'.step \notin {"domainDelete", "deletionDomain"} => DropInv'
BY DEF DropInv

\* The list of mappings a reconcile is deleting stays a list of its own app's.
LEMMA DropStep ==
  ASSUME TypeOK, WorkerOK, DropInv, [Next]_vars
  PROVE  DropInv'
<1>1. ASSUME UNCHANGED mapping, w'.step = w.step, w'.key = w.key, w'.drop = w.drop
      PROVE  DropInv'
  BY <1>1 DEF DropInv, Owned
<1>2. ASSUME w' = Idle PROVE DropInv'
  BY <1>2, DropElsewhere DEF Idle
<1>3. CASE ObjectWrites
  <2>0. w.step # "idle"
    BY <1>3, ObjectWrite
  <2>1. w \in Worker /\ w.mem \in AppObject
    BY <2>0, AtWork
  <2>2. \/ w' = Idle
        \/ \E new \in AppObject : w' = [w EXCEPT !.mem = new, !.step = Stage(new)]
        \/ \E new \in AppObject : w' = [w EXCEPT !.mem = new, !.step = "pauseDelete"]
    BY <1>3, WriteMove
  <2>3. \A new \in AppObject : Stage(new) \notin {"domainDelete", "deletionDomain"}
    BY StageFacts
  <2> QED BY <1>2, <2>1, <2>2, <2>3, DropElsewhere DEF Worker
<1>4. CASE OtherWork
  <2>0. w.step # "idle"
    BY <1>4 DEF OtherWork, PauseDelete, CheckTenant, DeployService, ListDomains,
                DeleteDomain, CreateDomain, GetStatus, ListForDeletion,
                DeletionDomain, DeletionService
  <2>1. w \in Worker /\ w.key \in Apps
    BY <2>0, AtWork
  <2>2. ASSUME NEW s, GoTo(s), s \notin {"domainDelete", "deletionDomain"}
        PROVE  DropInv'
    BY <2>1, <2>2, DropElsewhere DEF GoTo, Worker
  <2>3. CASE PauseDelete \/ CheckTenant \/ DeployService \/ DeletionService
    BY <1>2, <2>2, <2>3
    DEF PauseDelete, Done, CheckTenant, DeployService, DeletionService, Requeue
  <2>4. CASE GetStatus
    BY <2>1, <2>4, DropElsewhere DEF GetStatus, Worker
  <2>5. CASE ListDomains
    <3>1. CASE GoTo("setFailed")
      BY <2>2, <3>1
    <3>2. CASE DomainsLeft(Owned(w.key) \ w.mem.spec.hosts,
                           w.mem.spec.hosts \ Owned(w.key))
      <4>1. w'.key = w.key /\ w'.drop \subseteq Owned(w.key)
        BY <2>1, <3>2 DEF DomainsLeft, Worker
      <4> QED BY <2>5, <4>1 DEF ListDomains, DropInv, Owned
    <3> QED BY <2>5, <3>1, <3>2 DEF ListDomains
  <2>6. CASE ListForDeletion
    <3>1. CASE GoTo("deletionKnative")
      BY <2>2, <3>1
    <3>2. CASE w' = [w EXCEPT !.drop = Owned(w.key),
                              !.step = IF Owned(w.key) = {} THEN "deletionKnative"
                                       ELSE "deletionDomain"]
      <4>1. w'.key = w.key /\ w'.drop = Owned(w.key)
        BY <2>1, <3>2 DEF Worker
      <4> QED BY <2>6, <4>1 DEF ListForDeletion, DropInv, Owned
    <3> QED BY <2>6, <3>1, <3>2 DEF ListForDeletion
  <2>7. CASE CreateDomain
    <3>1. (\E h \in w.add : DomainsLeft({}, w.add \ {h})) \/ GoTo("setFailed")
      BY <2>7 DEF CreateDomain
    <3>2. CASE \E h \in w.add : DomainsLeft({}, w.add \ {h})
      <4>1. PICK add : DomainsLeft({}, add)
        BY <3>2
      <4>2. w'.step \in {"domainCreate", "getStatus"}
        BY <2>1, <4>1 DEF DomainsLeft, DomainStep, Worker
      <4> QED BY <4>2, DropElsewhere
    <3> QED BY <2>2, <3>1, <3>2
  <2>8. CASE DeleteDomain \/ DeletionDomain
    <3>1. w.drop \subseteq Owned(w.key)
      BY <2>8 DEF DeleteDomain, DeletionDomain, DropInv
    <3>2. CASE GoTo("setFailed") \/ GoTo("deletionKnative")
      BY <2>2, <3>2
    <3>3. CASE \E h \in w.drop :
                 /\ mapping' = [mapping EXCEPT ![h] = Nobody]
                 /\ w'.drop = w.drop \ {h} /\ w'.key = w.key
      <4>1. \A h \in Hosts : h \in w'.drop => mapping'[h] = w.key
        BY <3>1, <3>3 DEF Owned, TypeOK
      <4> QED BY <3>1, <3>3, <4>1 DEF DropInv, Owned
    <3>4. CASE DeleteDomain
      <4>1. GoTo("setFailed") \/ \E h \in w.drop :
              /\ mapping' = [mapping EXCEPT ![h] = Nobody]
              /\ DomainsLeft(w.drop \ {h}, w.add)
        BY <3>4 DEF DeleteDomain
      <4> QED BY <2>1, <3>2, <3>3, <4>1 DEF DomainsLeft, Worker
    <3>5. CASE DeletionDomain
      <4>1. GoTo("deletionKnative") \/ \E h \in w.drop :
              /\ mapping' = [mapping EXCEPT ![h] = Nobody]
              /\ w' = [w EXCEPT !.drop = w.drop \ {h},
                                !.step = IF w.drop = {h} THEN "deletionKnative"
                                         ELSE "deletionDomain"]
        BY <3>5 DEF DeletionDomain
      <4> QED BY <2>1, <3>2, <3>3, <4>1 DEF Worker
    <3> QED BY <2>8, <3>4, <3>5
  <2> QED BY <1>4, <2>3, <2>4, <2>5, <2>6, <2>7, <2>8 DEF OtherWork
<1>5. ASSUME NEW k \in Apps, Pick(k) PROVE DropInv'
  <2>1. CASE cache[k] = NoApp
    BY <1>2, <1>5, <2>1 DEF Pick
  <2>2. CASE cache[k] # NoApp
    <3>1. cache[k] \in AppObject /\ w'.step = Stage(cache[k])
      BY <1>5, <2>2 DEF Pick, Idle, TypeOK
    <3> QED BY <3>1, StageFacts, DropElsewhere
  <2> QED BY <2>1, <2>2
<1>6. ASSUME NEW k \in Apps, UserWrites(k) PROVE DropInv'
  <2>1. PICK new : WriteByUser(k, new)
    BY <1>6 DEF UserWrites, CreateApp, EditSpec, DeleteApp
  <2> QED BY <1>1, <2>1 DEF WriteByUser, WorkerOK, Worker
<1>7. CASE Restart
  BY <1>2, <1>7 DEF Restart
<1>8. CASE \/ TenantChange \/ UNCHANGED vars \/ \E k \in Apps : Background(k)
  BY <1>1, <1>8 DEF TenantChange, vars, Background, CacheSync, TimerFire, Resync,
                    KnativeReports
<1> QED BY <1>3, <1>4, <1>5, <1>6, <1>7, <1>8, NextCases

\* Only these two steps give an app something outside its object, and only to
\* the app they reconcile; what is given up stays given up.
LEMMA AcquireOnly ==
  ASSUME TypeOK, WorkerOK, [Next]_vars, NEW k \in Apps,
         ~Holds(k), Holds(k)'
  PROVE  (DeployService \/ CreateDomain) /\ w.key = k /\ w.step \in GuardedSteps
<1>0. service[k] = NoService /\ \A h \in Hosts : mapping[h] # k
  BY DEF Holds
<1>1. service'[k] # NoService \/ \E h \in Hosts : mapping'[h] = k
  BY DEF Holds
<1>2. CASE UNCHANGED <<service, mapping>>
  BY <1>0, <1>1, <1>2
<1>3. CASE PauseDelete \/ DeletionService
  <2>1. w.key \in Apps
    BY <1>3, AtWork DEF PauseDelete, DeletionService
  <2> QED BY <1>0, <1>1, <1>3, <2>1
          DEF PauseDelete, DeletionService, DeleteService, TypeOK
<1>4. CASE DeleteDomain \/ DeletionDomain
  <2>1. \E h : mapping' \in {mapping, [mapping EXCEPT ![h] = Nobody]}
    BY <1>4 DEF DeleteDomain, DeletionDomain
  <2>2. service' = service
    BY <1>4 DEF DeleteDomain, DeletionDomain
  <2> QED BY <1>0, <1>1, <2>1, <2>2, NoneAssumption DEF TypeOK
<1>5. CASE DeployService
  <2>1. w.key \in Apps /\ w.step \in GuardedSteps
    BY <1>5, AtWork DEF DeployService, GuardedSteps, DeploySteps
  <2> QED BY <1>0, <1>1, <1>5, <2>1 DEF DeployService, TypeOK
<1>6. CASE CreateDomain
  <2>1. w.key \in Apps /\ w.step \in GuardedSteps
    BY <1>6, AtWork DEF CreateDomain, GuardedSteps, DeploySteps
  <2>2. \E h : mapping' \in {mapping, [mapping EXCEPT ![h] = w.key]}
    BY <1>6 DEF CreateDomain
  <2>3. service' = service
    BY <1>6 DEF CreateDomain
  <2> QED BY <1>0, <1>1, <1>6, <2>1, <2>2, <2>3 DEF TypeOK
<1>7. ASSUME NEW j \in Apps, KnativeReports(j) PROVE FALSE
  BY <1>0, <1>1, <1>7 DEF KnativeReports, TypeOK
<1>8. CASE ObjectWrites
  BY <1>2, <1>8, ObjectWrite
<1>9. ASSUME NEW j \in Apps, UserWrites(j) PROVE FALSE
  <2>1. \E new : WriteByUser(j, new)
    BY <1>9 DEF UserWrites, CreateApp, EditSpec, DeleteApp
  <2> QED BY <1>0, <1>1, <2>1 DEF WriteByUser
<1>10. CASE \/ CheckTenant \/ ListDomains \/ GetStatus \/ ListForDeletion
            \/ Restart \/ TenantChange \/ UNCHANGED vars
            \/ \E j \in Apps : \/ Pick(j) \/ CacheSync(j) \/ TimerFire(j)
                               \/ Resync(j)
  BY <1>2, <1>10 DEF CheckTenant, ListDomains, GetStatus, ListForDeletion, Restart,
                     TenantChange, vars, Pick, CacheSync, TimerFire, Resync
<1> QED
  BY <1>3, <1>4, <1>5, <1>6, <1>7, <1>8, <1>9, <1>10, NextCases
  DEF OtherWork, Background

\* Only removeFinalizer takes protection away.
LEMMA UnguardOnly ==
  ASSUME TypeOK, WorkerOK, CacheInv, WorkInv, [Next]_vars, NEW k \in Apps,
         GuardedBy(app[k]), ~GuardedBy(app'[k])
  PROVE  w.step = "removeFinalizer" /\ w.key = k /\ UNCHANGED <<service, mapping, lost>>
<1>1. app'[k] # app[k]
  BY DEF GuardedBy
<1>2. CASE ObjectWrites
  <2>1. w.step # "idle" /\ UNCHANGED <<service, mapping, lost>>
    BY <1>2, ObjectWrite
  <2>2. w.key \in Apps /\ w.mem \in AppObject
    BY <2>1, AtWork
  <2>3. PICK new : w.fresh /\ NewObject(new) /\ Store(new)
    BY <1>1, <1>2, ObjectWrite
  <2>4. w.key = k /\ app'[k] = new
    BY <1>1, <2>2, <2>3 DEF Store, TypeOK
  <2>5. CASE w.step = "finalizer"
    <3>1. new = [w.mem EXCEPT !.finalizer = TRUE]
      BY <2>3, <2>5 DEF NewObject, GuardedSteps, DeploySteps
    <3>2. new \in AppObject /\ new.finalizer
      BY <2>2, <3>1 DEF AppObject
    <3> QED BY <2>4, <3>2, NoneAssumption DEF GuardedBy
  <2>6. CASE w.step \in GuardedSteps
    <3>1. PICK p \in Phases : new = InPhase(p)
      BY <2>3, <2>6 DEF NewObject, GuardedSteps, DeploySteps
    <3>2. new \in AppObject /\ new.finalizer
      BY <2>2, <2>6, <3>1, InPhaseType DEF InPhase, AppObject, WorkInv
    <3> QED BY <2>4, <3>2, NoneAssumption DEF GuardedBy
  <2> QED BY <2>1, <2>3, <2>4, <2>5, <2>6 DEF NewObject
<1>3. ASSUME NEW j \in Apps, UserWrites(j) PROVE FALSE
  <2>1. PICK new : WriteByUser(j, new) /\ KeepsProtection(app[j], new)
    BY <1>3, UserWrite
  <2> QED BY <1>1, <2>1 DEF WriteByUser, KeepsProtection, TypeOK
<1>4. CASE UNCHANGED app
  BY <1>1, <1>4
<1> QED
  BY <1>2, <1>3, <1>4, NextCases, ObjectsUnchanged
  DEF Background, CacheSync, Restart, TimerFire, Resync, KnativeReports

\* What was given up stays given up.
LEMMA LostGrows == TypeOK /\ [Next]_vars => lost \subseteq lost'
<1> SUFFICES ASSUME TypeOK, [Next]_vars PROVE lost \subseteq lost'
  OBVIOUS
<1>1. CASE ObjectWrites
  BY <1>1, ObjectWrite
<1>2. CASE OtherWork
  BY <1>2 DEF OtherWork, PauseDelete, CheckTenant, DeployService, ListDomains,
              DeleteDomain, CreateDomain, GetStatus, ListForDeletion,
              DeletionDomain, DeletionService, DeleteService
<1>3. ASSUME NEW k \in Apps, UserWrites(k) PROVE lost' = lost
  BY <1>3 DEF UserWrites, CreateApp, EditSpec, DeleteApp, WriteByUser
<1>4. CASE \/ Restart \/ TenantChange \/ UNCHANGED vars
           \/ \E k \in Apps : Pick(k) \/ Background(k)
  BY <1>4 DEF Restart, TenantChange, vars, Pick, Background, CacheSync, TimerFire,
              Resync, KnativeReports
<1> QED BY <1>1, <1>2, <1>3, <1>4, NextCases

\* No step leaves a resource without its protected App object.
LEMMA OrphanStep ==
  ASSUME IInv, [Next]_vars
  PROVE  NoOrphans'
<1> USE DEF IInv
<1> SUFFICES ASSUME NEW k \in Apps, Holds(k)', k \notin lost'
             PROVE  GuardedBy(app'[k])
  BY DEF NoOrphans, Exists, GuardedBy
<1>1. k \notin lost
  BY LostGrows
<1>2. CASE Holds(k)
  <2>1. GuardedBy(app[k])
    BY <1>1, <1>2 DEF NoOrphans, Exists, GuardedBy
  <2>2. CASE w.step = "removeFinalizer" /\ w.key = k /\ UNCHANGED <<service, mapping>>
    BY <1>1, <1>2, <2>2 DEF ReleaseInv, Holds, Owned
  <2> QED BY <2>1, <2>2, UnguardOnly
<1>3. CASE ~Holds(k)
  <2>1. w.key = k /\ w.step \in GuardedSteps /\ UNCHANGED app
    BY <1>3, AcquireOnly DEF DeployService, CreateDomain
  <2> QED BY <2>1 DEF WorkInv
<1> QED BY <1>2, <1>3

\* The inductive invariant: the types, what cache and worker know of the
\* objects, the progress of the clean-up, and the absence of orphans.
THEOREM Invariance == Spec => []IInv
<1>1. Init => IInv
  <2> SUFFICES ASSUME Init PROVE IInv
    OBVIOUS
  <2>1. CacheInv
    BY DEF Init, CacheInv, Leaving
  <2>2. WorkInv /\ ReleaseInv /\ DropInv
    BY StepClasses DEF Init, WorkInv, ReleaseInv, DropInv, Idle
  <2>3. NoOrphans
    BY NoneAssumption DEF Init, NoOrphans, Holds
  <2> QED BY TypeInit, <2>1, <2>2, <2>3 DEF IInv
<1>2. IInv /\ [Next]_vars => IInv'
  <2> SUFFICES ASSUME IInv, [Next]_vars PROVE IInv'
    OBVIOUS
  <2>1. TypeOK' /\ WorkerOK'
    BY WorkerType, DataType DEF IInv
  <2>2. CacheInv' /\ WorkInv' /\ ReleaseInv' /\ DropInv'
    BY CacheStep, WorkStep, ReleaseStep, DropStep DEF IInv
  <2> QED BY <2>1, <2>2, OrphanStep DEF IInv
<1> QED BY <1>1, <1>2, PTL DEF Spec

\* Whatever the interleaving of users, watch events, failing calls and restarts,
\* a Service or DomainMapping whose deletion was not given up has a protected
\* App object.
THEOREM NoOrphansSafe == Spec => []NoOrphans
BY Invariance, PTL DEF IInv

-----------------------------------------------------------------------------
(* Action properties *)

\* A step that changes a DomainMapping is a call of a reconcile for its owner,
\* before or after the step.
LEMMA MappingOwner ==
  ASSUME IInv, [Next]_vars, NEW h \in Hosts, mapping'[h] # mapping[h]
  PROVE  \/ CreateDomain /\ mapping[h] = Nobody /\ mapping'[h] = w.key
         \/ /\ DeleteDomain \/ DeletionDomain
            /\ mapping[h] = w.key /\ mapping'[h] = Nobody
<1> USE DEF IInv
<1>1. CASE CreateDomain
  <2>1. PICK x : /\ mapping' \in {mapping, [mapping EXCEPT ![x] = w.key]}
                 /\ mapping' # mapping => mapping[x] = Nobody
    BY <1>1 DEF CreateDomain
  <2> QED BY <1>1, <2>1 DEF TypeOK
<1>2. CASE DeleteDomain \/ DeletionDomain
  <2>1. w.drop \subseteq Owned(w.key)
    BY <1>2 DEF DeleteDomain, DeletionDomain, DropInv
  <2>2. PICK x \in w.drop : mapping' \in {mapping, [mapping EXCEPT ![x] = Nobody]}
    BY <1>2 DEF DeleteDomain, DeletionDomain
  <2> QED BY <1>2, <2>1, <2>2 DEF TypeOK, Owned
<1>3. CASE UNCHANGED mapping
  BY <1>3
<1>4. ASSUME NEW j \in Apps, UserWrites(j) PROVE FALSE
  <2>1. PICK new : WriteByUser(j, new)
    BY <1>4 DEF UserWrites, CreateApp, EditSpec, DeleteApp
  <2> QED BY <2>1 DEF WriteByUser
<1>5. CASE \/ PauseDelete \/ CheckTenant \/ DeployService \/ ListDomains
           \/ GetStatus \/ ListForDeletion \/ DeletionService
           \/ Restart \/ TenantChange \/ UNCHANGED vars
           \/ \E k \in Apps : Pick(k) \/ Background(k)
  BY <1>3, <1>5
  DEF PauseDelete, CheckTenant, DeployService, ListDomains, GetStatus,
      ListForDeletion, DeletionService, Restart, TenantChange, vars, Pick,
      Background, CacheSync, TimerFire, Resync, KnativeReports
<1> QED BY <1>1, <1>2, <1>3, <1>4, <1>5, NextCases, ObjectWrite DEF OtherWork

\* A DomainMapping is made and deleted by reconciles of its own app only.
THEOREM HostsStayWithOwnerSafe == Spec => HostsStayWithOwner
<1> DEFINE Stays == \A h \in Hosts :
             mapping'[h] # mapping[h] =>
               /\ w.key \in {mapping[h], mapping'[h]}
               /\ Nobody \in {mapping[h], mapping'[h]}
<1>1. IInv /\ [Next]_vars => [Stays]_vars
  BY MappingOwner
<1> QED BY <1>1, Invariance, PTL DEF Spec, HostsStayWithOwner

-----------------------------------------------------------------------------
(* No app is forgotten *)

\* The worker pauses only what is to be paused, and has said so before it
\* deletes the Service.
PauseInv ==
  /\ w.step = "pause" => w.mem.spec.paused
  /\ w.step = "pauseDelete" => w.mem.spec.paused /\ w.mem.phase = "Paused"

\* When the worker's copy is old, the news is on its way or in the queue.
NewsInv == w.step # "idle" => w.fresh \/ w.key \in stale \cup queue

\* What the operator leaves alone.
Parked(k) ==
  /\ app[k].spec.paused /\ app[k].phase = "Paused" /\ ~app[k].deleting
  /\ service[k] = NoService \/ k \in lost

\* The words of NeverForgotten, with what brings an app back as a disjunction.
MemoryInv ==
  \A k \in Apps :
    \/ k \in queue \cup delayed \cup stale \/ w.key = k
    \/ ~Exists(k) \/ Parked(k)

\* Both forms say the same.
LEMMA MemorySays == MemoryInv <=> NeverForgotten
BY DEF MemoryInv, NeverForgotten, Quiet, Parked

\* How a reconcile can go on after a call.
LEMMA WorkMove ==
  ASSUME TypeOK, WorkerOK, ObjectWrites \/ OtherWork
  PROVE  /\ w.step # "idle"
         /\ queue' = queue /\ stale \subseteq stale' /\ delayed \subseteq delayed'
         /\ \/ w' = Idle
            \/ /\ w'.key = w.key /\ w'.fresh = w.fresh
               /\ \/ w'.step \in DeploySteps \cup DeletionSteps
                  \/ w'.mem \in AppObject /\ w'.step = Stage(w'.mem)
                  \/ /\ w'.step = "pauseDelete" /\ w.step = "pause"
                     /\ w'.mem = InPhase("Paused")
<1>0. w.step # "idle" /\ w \in Worker /\ w.mem \in AppObject
  <2>1. w.step # "idle"
    BY ObjectWrite
    DEF OtherWork, PauseDelete, CheckTenant, DeployService, ListDomains,
        DeleteDomain, CreateDomain, GetStatus, ListForDeletion, DeletionDomain,
        DeletionService
  <2> QED BY <2>1, AtWork
<1>1. CASE ObjectWrites
  <2>1. queue' = queue /\ delayed \subseteq delayed'
    BY <1>1 DEF ObjectWrites, AddFinalizer, SetPending, SetDeploying, SetPaused,
                PutStatus, SetFailed, RemoveFinalizer, WriteThenContinue, Update,
                Continue, Requeue, Done
  <2>2. stale \subseteq stale'
    BY <1>1, ObjectWrite DEF Store
  <2>3. CASE SetPaused
    <3>1. \/ w' = Idle
          \/ w' = [w EXCEPT !.mem = InPhase("Paused"), !.step = "pauseDelete"]
      BY <2>3 DEF SetPaused, Update, Requeue
    <3> QED BY <1>0, <2>1, <2>2, <2>3, <3>1 DEF Worker, SetPaused
  <2>4. CASE ~SetPaused
    <3>1. /\ [w.mem EXCEPT !.finalizer = TRUE] \in AppObject
          /\ InPhase("Pending") \in AppObject /\ InPhase("Deploying") \in AppObject
      <4>1. [w.mem EXCEPT !.finalizer = TRUE] \in AppObject
        BY <1>0 DEF AppObject
      <4> QED BY <1>0, <4>1, InPhaseType DEF Phases
    <3>2. \/ w' = Idle
          \/ \E new \in AppObject : w' = [w EXCEPT !.mem = new, !.step = Stage(new)]
      BY <1>1, <2>4, <3>1
      DEF ObjectWrites, AddFinalizer, SetPending, SetDeploying, PutStatus,
          SetFailed, RemoveFinalizer, WriteThenContinue, Update, Continue,
          Requeue, Done
    <3> QED BY <1>0, <2>1, <2>2, <3>2 DEF Worker
  <2> QED BY <2>3, <2>4
<1>2. CASE OtherWork
  <2>1. queue' = queue /\ stale' = stale /\ delayed \subseteq delayed'
    <3>1. CASE DeleteDomain \/ CreateDomain \/ DeletionDomain
      BY <3>1 DEF DeleteDomain, CreateDomain, DeletionDomain, DomainsLeft, GoTo
    <3>2. CASE ~(DeleteDomain \/ CreateDomain \/ DeletionDomain)
      BY <1>2, <3>2
      DEF OtherWork, PauseDelete, CheckTenant, DeployService, ListDomains,
          GetStatus, ListForDeletion, DeletionService, GoTo, Requeue, Done,
          DomainsLeft
    <3> QED BY <3>1, <3>2
  <2>2. \/ w' = Idle
        \/ w'.key = w.key /\ w'.fresh = w.fresh
    BY <1>2, OtherWorkMove
  <2>3. w' = Idle \/ w'.step \in DeploySteps \cup DeletionSteps
    <3>1. CASE PauseDelete \/ CheckTenant \/ DeployService \/ ListForDeletion
                 \/ DeletionService \/ GetStatus
      BY <1>0, <3>1 DEF PauseDelete, CheckTenant, DeployService, ListForDeletion,
                        DeletionService, GetStatus, GoTo, Requeue, Done, Worker,
                        DeploySteps, DeletionSteps
    <3>2. CASE ListDomains
      BY <1>0, <3>2 DEF ListDomains, DomainsLeft, DomainStep, GoTo, Worker,
                        DeploySteps
    <3>3. CASE DeleteDomain
      BY <1>0, <3>3 DEF DeleteDomain, DomainsLeft, DomainStep, GoTo, Worker,
                        DeploySteps
    <3>4. CASE CreateDomain
      <4>1. \E h : GoTo("setFailed") \/ DomainsLeft({}, w.add \ {h})
        BY <3>4 DEF CreateDomain
      <4> QED BY <1>0, <4>1 DEF DomainsLeft, DomainStep, GoTo, Worker, DeploySteps
    <3>5. CASE DeletionDomain
      BY <1>0, <3>5 DEF DeletionDomain, GoTo, Worker, DeletionSteps
    <3> QED BY <1>2, <3>1, <3>2, <3>3, <3>4, <3>5 DEF OtherWork
  <2> QED BY <1>0, <2>1, <2>2, <2>3
<1> QED BY <1>1, <1>2

\* The stages of a version that is to be paused.
LEMMA PauseStage ==
  ASSUME NEW m \in AppObject
  PROVE  /\ Stage(m) = "pause" => m.spec.paused
         /\ Stage(m) # "pauseDelete"
BY DEF Stage

\* The stages of pausing are none of the later ones.
LEMMA PauseClass == {"pause", "pauseDelete"} \cap (DeploySteps \cup DeletionSteps) = {}
BY DEF DeploySteps, DeletionSteps

\* What the worker's own steps know while it pauses an app is kept.
LEMMA PauseStep ==
  ASSUME TypeOK, WorkerOK, PauseInv, [Next]_vars
  PROVE  PauseInv'
<1>1. ASSUME w' = Idle PROVE PauseInv'
  BY <1>1 DEF PauseInv, Idle
<1>2. ASSUME w'.step = w.step, w'.mem = w.mem PROVE PauseInv'
  BY <1>2 DEF PauseInv
<1>3. CASE ObjectWrites \/ OtherWork
  <2>1. ASSUME w'.step \in DeploySteps \cup DeletionSteps PROVE PauseInv'
    BY <2>1, PauseClass DEF PauseInv
  <2>2. ASSUME w'.mem \in AppObject, w'.step = Stage(w'.mem) PROVE PauseInv'
    BY <2>2, PauseStage DEF PauseInv
  <2>3. ASSUME w'.step = "pauseDelete", w.step = "pause", w'.mem = InPhase("Paused")
        PROVE  PauseInv'
    <3>1. w.mem \in AppObject
      BY <2>3, AtWork
    <3>2. InPhase("Paused").spec = w.mem.spec /\ InPhase("Paused").phase = "Paused"
      BY <3>1 DEF InPhase, AppObject
    <3> QED BY <2>3, <3>2 DEF PauseInv
  <2> QED BY <1>1, <1>3, <2>1, <2>2, <2>3, WorkMove
<1>4. ASSUME NEW k \in Apps, Pick(k) PROVE PauseInv'
  <2>1. \/ w' = Idle
        \/ w'.mem = cache[k] /\ w'.step = Stage(cache[k]) /\ cache[k] # NoApp
    BY <1>4 DEF Pick, Idle
  <2>2. cache[k] # NoApp => cache[k] \in AppObject
    BY DEF TypeOK
  <2> QED BY <1>1, <2>1, <2>2, PauseStage DEF PauseInv
<1>5. ASSUME NEW k \in Apps, UserWrites(k) PROVE PauseInv'
  <2>1. PICK new : WriteByUser(k, new)
    BY <1>5 DEF UserWrites, CreateApp, EditSpec, DeleteApp
  <2>2. w'.step = w.step /\ w'.mem = w.mem
    BY <2>1 DEF WriteByUser, WorkerOK, Worker
  <2> QED BY <1>2, <2>2
<1>6. CASE Restart
  BY <1>1, <1>6 DEF Restart
<1>7. CASE \/ TenantChange \/ UNCHANGED vars \/ \E k \in Apps : Background(k)
  BY <1>2, <1>7
  DEF TenantChange, vars, Background, CacheSync, TimerFire, Resync, KnativeReports
<1> QED BY <1>3, <1>4, <1>5, <1>6, <1>7, NextCases

\* An app whose object somebody wrote during its reconcile comes back.
LEMMA NewsStep ==
  ASSUME TypeOK, WorkerOK, NewsInv, [Next]_vars
  PROVE  NewsInv'
<1>1. ASSUME w' = Idle PROVE NewsInv'
  BY <1>1 DEF NewsInv, Idle
<1>2. ASSUME w' = w, stale \cup queue \subseteq stale' \cup queue' PROVE NewsInv'
  BY <1>2 DEF NewsInv
<1>3. CASE ObjectWrites \/ OtherWork
  BY <1>1, <1>3, WorkMove DEF NewsInv
<1>4. ASSUME NEW k \in Apps, Pick(k) PROVE NewsInv'
  <2>1. w' = Idle \/ (w'.key = k /\ w'.fresh = (k \notin stale))
    BY <1>4 DEF Pick, Idle
  <2>2. stale' = stale
    BY <1>4 DEF Pick
  <2> QED BY <1>1, <2>1, <2>2 DEF NewsInv
<1>5. ASSUME NEW k \in Apps, UserWrites(k) PROVE NewsInv'
  <2>1. PICK new : WriteByUser(k, new)
    BY <1>5 DEF UserWrites, CreateApp, EditSpec, DeleteApp
  <2>2. stale' = stale \cup {k} /\ queue' = queue
    BY <2>1 DEF WriteByUser
  <2>3. CASE w.key = k
    <3>1. w'.key = k
      BY <2>1, <2>3 DEF WriteByUser, WorkerOK, Worker
    <3> QED BY <2>2, <3>1 DEF NewsInv
  <2>4. CASE w.key # k
    BY <1>2, <2>1, <2>2, <2>4 DEF WriteByUser
  <2> QED BY <2>3, <2>4
<1>6. CASE Restart
  BY <1>1, <1>6 DEF Restart
<1>7. CASE \/ TenantChange \/ UNCHANGED vars \/ \E k \in Apps : Background(k)
  BY <1>2, <1>7 DEF TenantChange, vars, Background, CacheSync, TimerFire, Resync,
                    KnativeReports, Enqueue
<1> QED BY <1>3, <1>4, <1>5, <1>6, <1>7, NextCases

\* When a reconcile ends, its app comes back, is gone, or is parked.
LEMMA EndOfReconcile ==
  ASSUME IInv, PauseInv, NewsInv, ObjectWrites \/ OtherWork, w' = Idle,
         NEW k \in Apps, k = w.key
  PROVE  \/ k \in queue' \cup delayed' \cup stale'
         \/ ~Exists(k)' \/ Parked(k)'
<1> USE DEF IInv
<1>0. /\ w.step # "idle" /\ w \in Worker /\ w.key \in Apps /\ w.mem \in AppObject
      /\ queue' = queue /\ stale \subseteq stale'
  BY WorkMove, AtWork
<1>1. CASE Requeue
  BY <1>1 DEF Requeue
<1>2. CASE PauseDelete
  <2>1. w.fresh \/ w.key \in stale' \cup queue'
    BY <1>0 DEF NewsInv
  <2>2. ASSUME w.fresh PROVE Parked(k)'
    <3>1. app' = app /\ app[w.key] = w.mem
      BY <1>2, <2>2 DEF PauseDelete, WorkInv
    <3>2. w.mem.spec.paused /\ w.mem.phase = "Paused" /\ ~w.mem.deleting
      BY <1>2 DEF PauseDelete, PauseInv, WorkInv, GuardedSteps
    <3>3. service'[k] = NoService \/ k \in lost'
      BY <1>0, <1>2 DEF PauseDelete, DeleteService, TypeOK
    <3> QED BY <3>1, <3>2, <3>3 DEF Parked
  <2> QED BY <2>1, <2>2
<1>3. CASE RemoveFinalizer
  <2>1. Requeue \/ Written(NoApp)
    BY <1>3 DEF RemoveFinalizer, Update
  <2>2. Written(NoApp) => ~Exists(k)'
    BY <1>0 DEF Written, Store, Exists, TypeOK
  <2> QED BY <1>1, <2>1, <2>2
<1>4. CASE ~PauseDelete /\ ~RemoveFinalizer
  <2>1. ASSUME NEW s, s # "idle", w'.step = s PROVE FALSE
    BY <2>1 DEF Idle
  <2>2. CASE ObjectWrites
    <3>1. \A m \in AppObject : Stage(m) # "idle"
      BY StepTypes
    <3>2. CASE PutStatus \/ SetFailed
      BY <1>1, <3>2 DEF PutStatus, SetFailed
    <3>3. CASE SetPaused
      <4>1. Requeue \/ w'.step = "pauseDelete"
        BY <1>0, <3>3 DEF SetPaused, Update, Worker
      <4> QED BY <1>1, <2>1, <4>1
    <3>4. ASSUME NEW new \in AppObject, NEW step, WriteThenContinue(step, new)
          PROVE  Requeue
      <4>1. Requeue \/ w'.step = Stage(new)
        BY <1>0, <3>4 DEF WriteThenContinue, Update, Continue, Worker
      <4> QED BY <2>1, <3>1, <4>1
    <3>5. CASE AddFinalizer \/ SetPending \/ SetDeploying
      <4>1. [w.mem EXCEPT !.finalizer = TRUE] \in AppObject
        BY <1>0 DEF AppObject
      <4>2. InPhase("Pending") \in AppObject /\ InPhase("Deploying") \in AppObject
        BY <1>0, InPhaseType DEF Phases
      <4>3. Requeue
        BY <3>4, <3>5, <4>1, <4>2 DEF AddFinalizer, SetPending, SetDeploying
      <4> QED BY <1>1, <4>3
    <3> QED BY <1>4, <2>2, <3>2, <3>3, <3>5 DEF ObjectWrites
  <2>3. CASE OtherWork
    <3>1. CASE CheckTenant
      <4>1. Requeue \/ (\E s \in {"knative", "setFailed"} : w'.step = s)
        BY <1>0, <3>1 DEF CheckTenant, GoTo, Worker
      <4> QED BY <1>1, <2>1, <4>1
    <3>2. CASE DeployService \/ GetStatus \/ ListForDeletion \/ DeletionService
      <4>1. \E s \in {"domainList", "setFailed", "putStatus", "deletionKnative",
                      "deletionDomain", "removeFinalizer"} : w'.step = s
        BY <1>0, <3>2 DEF DeployService, GetStatus, ListForDeletion,
                          DeletionService, GoTo, Worker
      <4> QED BY <2>1, <4>1
    <3>3. CASE ListDomains \/ DeleteDomain
      <4>1. \E s \in {"domainDelete", "domainCreate", "getStatus", "setFailed"} :
              w'.step = s
        BY <1>0, <3>3 DEF ListDomains, DeleteDomain, DomainsLeft, DomainStep, GoTo,
                          Worker
      <4> QED BY <2>1, <4>1
    <3>4. CASE CreateDomain
      <4>1. \E h : GoTo("setFailed") \/ DomainsLeft({}, w.add \ {h})
        BY <3>4 DEF CreateDomain
      <4>2. \E s \in {"domainDelete", "domainCreate", "getStatus", "setFailed"} :
              w'.step = s
        BY <1>0, <4>1 DEF DomainsLeft, DomainStep, GoTo, Worker
      <4> QED BY <2>1, <4>2
    <3>5. CASE DeletionDomain
      <4>1. \E s \in {"deletionKnative", "deletionDomain"} : w'.step = s
        BY <1>0, <3>5 DEF DeletionDomain, GoTo, Worker
      <4> QED BY <2>1, <4>1
    <3> QED BY <1>4, <2>3, <3>1, <3>2, <3>3, <3>4, <3>5 DEF OtherWork
  <2> QED BY <2>2, <2>3
<1> QED BY <1>2, <1>3, <1>4

\* A call changes the object and the Service of its own app only.
LEMMA OthersApart ==
  ASSUME TypeOK, WorkerOK, ObjectWrites \/ OtherWork, NEW k \in Apps, k # w.key
  PROVE  app'[k] = app[k] /\ service'[k] = service[k] /\ lost \subseteq lost'
<1>1. w.step # "idle" /\ w.key \in Apps
  BY WorkMove, AtWork
<1>2. CASE ObjectWrites
  BY <1>1, <1>2, ObjectWrite DEF Store, TypeOK
<1>3. CASE OtherWork
  <2>1. app' = app
    BY <1>3, ObjectsUnchanged
  <2>2. service'[k] = service[k] /\ lost \subseteq lost'
    BY <1>1, <1>3
    DEF OtherWork, PauseDelete, CheckTenant, DeployService, ListDomains,
        DeleteDomain, CreateDomain, GetStatus, ListForDeletion, DeletionDomain,
        DeletionService, DeleteService, TypeOK
  <2> QED BY <2>1, <2>2
<1> QED BY <1>2, <1>3

\* No step takes an app out of the operator's sight before it is done with it.
LEMMA MemoryStep ==
  ASSUME IInv, PauseInv, NewsInv, MemoryInv, [Next]_vars
  PROVE  MemoryInv'
<1> SUFFICES ASSUME NEW k \in Apps
             PROVE  \/ k \in queue' \cup delayed' \cup stale' \/ w'.key = k
                    \/ ~Exists(k)' \/ Parked(k)'
  BY DEF MemoryInv
<1> USE DEF IInv
<1>0. \/ k \in queue \cup delayed \cup stale \/ w.key = k
      \/ ~Exists(k) \/ Parked(k)
  BY DEF MemoryInv
<1>1. CASE ObjectWrites \/ OtherWork
  <2>0. /\ queue \subseteq queue' /\ delayed \subseteq delayed'
        /\ stale \subseteq stale'
    BY <1>1, WorkMove
  <2>1. CASE w.key = k
    BY <1>1, <2>1, WorkMove, EndOfReconcile
  <2>2. CASE w.key # k
    BY <1>0, <1>1, <2>0, <2>2, OthersApart DEF Exists, Parked
  <2> QED BY <2>1, <2>2
<1>2. ASSUME NEW j \in Apps, Pick(j)
      PROVE  \/ k \in queue' \cup delayed' \cup stale' \/ w'.key = k
             \/ ~Exists(k)' \/ Parked(k)'
  <2>1. /\ UNCHANGED <<app, service, lost, delayed, stale>> /\ w = Idle
        /\ queue' = queue \ {j}
    BY <1>2 DEF Pick, WorkerOK
  <2>2. CASE k # j
    BY <1>0, <2>1, <2>2, NoneAssumption DEF Exists, Parked, Idle
  <2>3. CASE k = j
    <3>1. CASE cache[k] = NoApp
      BY <2>1, <2>3, <3>1 DEF CacheInv, Exists
    <3>2. CASE cache[k] # NoApp
      BY <1>2, <2>3, <3>2 DEF Pick, Idle
    <3> QED BY <3>1, <3>2
  <2> QED BY <2>2, <2>3
<1>3. ASSUME NEW j \in Apps, UserWrites(j)
      PROVE  \/ k \in queue' \cup delayed' \cup stale' \/ w'.key = k
             \/ ~Exists(k)' \/ Parked(k)'
  <2>1. PICK new : WriteByUser(j, new)
    BY <1>3 DEF UserWrites, CreateApp, EditSpec, DeleteApp
  <2>2. /\ UNCHANGED <<service, lost, delayed, queue>> /\ stale' = stale \cup {j}
        /\ app' = [app EXCEPT ![j] = new] /\ w'.key = w.key
    BY <2>1 DEF WriteByUser, WorkerOK, Worker
  <2> QED BY <1>0, <2>2 DEF Exists, Parked, TypeOK
<1>4. ASSUME NEW j \in Apps, KnativeReports(j)
      PROVE  \/ k \in queue' \cup delayed' \cup stale' \/ w'.key = k
             \/ ~Exists(k)' \/ Parked(k)'
  <2>1. /\ UNCHANGED <<app, lost, delayed, queue, stale, w>>
        /\ service[k] = NoService => service'[k] = NoService
    BY <1>4 DEF KnativeReports, TypeOK
  <2> QED BY <1>0, <2>1 DEF Exists, Parked
<1>5. ASSUME NEW j \in Apps, CacheSync(j) \/ TimerFire(j) \/ Resync(j)
      PROVE  \/ k \in queue' \cup delayed' \cup stale' \/ w'.key = k
             \/ ~Exists(k)' \/ Parked(k)'
  <2>1. /\ UNCHANGED <<app, service, lost, w>>
        /\ queue \cup delayed \cup stale \subseteq queue' \cup delayed' \cup stale'
    BY <1>5 DEF CacheSync, TimerFire, Resync, Enqueue
  <2> QED BY <1>0, <2>1 DEF Exists, Parked
<1>6. CASE Restart
  BY <1>6 DEF Restart, Exists
<1>7. CASE TenantChange \/ UNCHANGED vars
  BY <1>0, <1>7 DEF TenantChange, vars, Exists, Parked
<1> QED BY <1>1, <1>2, <1>3, <1>4, <1>5, <1>6, <1>7, NextCases DEF Background

\* An app that no event, error or timer will bring back is gone, or paused with
\* its Service deleted.
THEOREM NeverForgottenSafe == Spec => []NeverForgotten
<1> DEFINE Memory == PauseInv /\ NewsInv /\ MemoryInv
<1>1. Init => Memory
  <2>1. Init => PauseInv /\ NewsInv
    BY DEF Init, PauseInv, NewsInv, Idle
  <2>2. Init => MemoryInv
    BY DEF Init, MemoryInv, Exists
  <2> QED BY <2>1, <2>2
<1>2. IInv /\ Memory /\ [Next]_vars => Memory'
  BY PauseStep, NewsStep, MemoryStep DEF IInv
<1>3. Memory => NeverForgotten
  BY MemorySays
<1> QED BY <1>1, <1>2, <1>3, Invariance, PTL DEF Spec

-----------------------------------------------------------------------------
(* The controller implements FinalizerProtocol *)

\* A step that changes at most what the protocol sees of one app.
LEMMA SameElsewhere ==
  ASSUME IInv, [Next]_vars
  PROVE  /\ \A k \in Apps \ {w.key} :
              (Holds(k) <=> Holds(k)') /\ (k \in lost <=> k \in lost')
         /\ lost \subseteq lost'
<1> USE DEF IInv
<1>1. lost \subseteq lost'
  BY LostGrows
<1>2. ASSUME NEW k \in Apps \ {w.key}, k \in lost' PROVE k \in lost
  <2>1. CASE ObjectWrites
    BY <1>2, <2>1, ObjectWrite
  <2>2. CASE OtherWork
    BY <1>2, <2>2
    DEF OtherWork, PauseDelete, CheckTenant, DeployService, ListDomains,
        DeleteDomain, CreateDomain, GetStatus, ListForDeletion,
        DeletionDomain, DeletionService, DeleteService
  <2>3. ASSUME NEW j \in Apps, UserWrites(j) PROVE lost' = lost
    BY <2>3 DEF UserWrites, CreateApp, EditSpec, DeleteApp, WriteByUser
  <2>4. CASE \/ Restart \/ TenantChange \/ UNCHANGED vars
             \/ \E j \in Apps : Pick(j) \/ Background(j)
    BY <1>2, <2>4
    DEF Restart, TenantChange, vars, Pick, Background, CacheSync, TimerFire,
        Resync, KnativeReports
  <2> QED BY <1>2, <2>1, <2>2, <2>3, <2>4, NextCases
<1>3. ASSUME NEW k \in Apps \ {w.key}
      PROVE  service'[k] = NoService <=> service[k] = NoService
  <2>1. CASE UNCHANGED service
    BY <2>1
  <2>2. CASE PauseDelete \/ DeletionService \/ DeployService
    BY <2>2 DEF PauseDelete, DeletionService, DeleteService, DeployService, TypeOK
  <2>3. ASSUME NEW j \in Apps, KnativeReports(j)
        PROVE  service'[k] = NoService <=> service[k] = NoService
    <3>1. service[j] \in Service /\ service' = [service EXCEPT ![j] = Reported(@)]
      BY <2>3 DEF KnativeReports, TypeOK
    <3>2. Reported(service[j]) \in Service
      BY <3>1 DEF Reported, Service
    <3> QED BY <3>1, <3>2, NoneAssumption DEF TypeOK
  <2>4. ASSUME NEW j \in Apps, UserWrites(j) PROVE service' = service
    BY <2>4 DEF UserWrites, CreateApp, EditSpec, DeleteApp, WriteByUser
  <2>5. CASE \/ CheckTenant \/ ListDomains \/ DeleteDomain \/ CreateDomain
             \/ GetStatus \/ ListForDeletion \/ DeletionDomain
             \/ Restart \/ TenantChange \/ UNCHANGED vars
             \/ \E j \in Apps : \/ Pick(j) \/ CacheSync(j) \/ TimerFire(j)
                                \/ Resync(j)
    BY <2>1, <2>5
    DEF CheckTenant, ListDomains, DeleteDomain, CreateDomain, GetStatus,
        ListForDeletion, DeletionDomain, Restart, TenantChange, vars, Pick,
        CacheSync, TimerFire, Resync
  <2> QED
    BY <2>1, <2>2, <2>3, <2>4, <2>5, NextCases, ObjectWrite
    DEF OtherWork, Background
<1>4. ASSUME NEW k \in Apps \ {w.key}, NEW h \in Hosts
      PROVE  mapping'[h] = k <=> mapping[h] = k
  BY MappingOwner, NoneAssumption
<1> QED BY <1>1, <1>2, <1>3, <1>4 DEF Holds

\* What a worker's or a user's write of the object looks like to the protocol.
LEMMA StageMove ==
  ASSUME IInv, NEW k \in Apps, NEW new, app' = [app EXCEPT ![k] = new]
  PROVE  /\ \A j \in Apps \ {k} : StageOf(j)' = StageOf(j)
         /\ StageOf(k)' = CASE new = NoApp -> "none"
                            [] new # NoApp /\ ~new.finalizer -> "open"
                            [] new # NoApp /\ new.finalizer /\ ~new.deleting
                                 -> "guarded"
                            [] OTHER -> "closing"
<1>1. app'[k] = new /\ \A j \in Apps \ {k} : app'[j] = app[j]
  BY DEF IInv, TypeOK
<1> QED BY <1>1 DEF StageOf, Exists

\* A write of one object that leaves every resource alone is one of the
\* protocol's moves.
LEMMA StageStep ==
  ASSUME IInv, NEW k \in Apps, NEW new, app' = [app EXCEPT ![k] = new],
         UNCHANGED <<service, mapping, lost>>,
         \/ StageOf(k)' = StageOf(k)
         \/ StageOf(k) = "none" /\ StageOf(k)' = "open"
         \/ StageOf(k) = "open" /\ StageOf(k)' \in {"guarded", "none"}
         \/ StageOf(k) = "guarded" /\ StageOf(k)' = "closing"
         \/ /\ StageOf(k) = "closing" /\ StageOf(k)' = "none"
            /\ ~Holds(k) \/ k \in lost
  PROVE  Protocol!Next \/ UNCHANGED Protocol!vars
<1> DEFINE stage == [j \in Apps |-> StageOf(j)]
           holding == {j \in Apps : Holds(j)}
<1>1. holding' = holding
  BY DEF Holds
<1>2. stage' = [stage EXCEPT ![k] = StageOf(k)']
  BY StageMove
<1>3. stage[k] = StageOf(k) /\ (k \in holding <=> Holds(k))
  OBVIOUS
<1> HIDE DEF stage, holding
<1>4. CASE StageOf(k)' = StageOf(k)
  <2>1. stage' = stage
    BY <1>2, <1>3, <1>4 DEF stage
  <2> QED BY <1>1, <2>1 DEF Protocol!vars, stage, holding
<1>5. ASSUME NEW from, NEW to, StageOf(k) = from, StageOf(k)' = to
      PROVE  Protocol!Move(k, from, to)
  BY <1>1, <1>2, <1>3, <1>5 DEF Protocol!Move, stage, holding
<1>6. CASE StageOf(k) = "none" /\ StageOf(k)' = "open"
  BY <1>5, <1>6 DEF Protocol!Next, Protocol!Create
<1>7. CASE StageOf(k) = "open" /\ StageOf(k)' \in {"guarded", "none"}
  BY <1>5, <1>7 DEF Protocol!Next, Protocol!Guard, Protocol!RequestDeletion
<1>8. CASE StageOf(k) = "guarded" /\ StageOf(k)' = "closing"
  BY <1>5, <1>8 DEF Protocol!Next, Protocol!RequestDeletion
<1>9. CASE /\ StageOf(k) = "closing" /\ StageOf(k)' = "none"
           /\ ~Holds(k) \/ k \in lost
  BY <1>5, <1>9 DEF Protocol!Next, Protocol!Finish
<1> QED BY <1>4, <1>6, <1>7, <1>8, <1>9

\* Seen from the protocol, a reconcile's write is a move of one object, or nothing.
LEMMA WorkerWriteStep ==
  ASSUME IInv, ObjectWrites, ~UNCHANGED app
  PROVE  Protocol!Next \/ UNCHANGED Protocol!vars
<1> USE DEF IInv
<1>1. /\ w.step # "idle" /\ w.key \in Apps /\ w.mem \in AppObject
      /\ UNCHANGED <<service, mapping, lost>>
  BY ObjectWrite, AtWork
<1>0. PICK k \in Apps : k = w.key
  BY <1>1
<1>2. PICK new : w.fresh /\ NewObject(new) /\ Store(new)
  BY ObjectWrite
<1>3. app[k] = w.mem /\ app' = [app EXCEPT ![k] = new]
  BY <1>0, <1>1, <1>2 DEF WorkInv, Store
<1>4. StageOf(k) = CASE ~w.mem.finalizer -> "open"
                         [] w.mem.finalizer /\ ~w.mem.deleting -> "guarded"
                         [] OTHER -> "closing"
  BY <1>1, <1>3, NoneAssumption DEF StageOf, Exists, AppObject
<1>5. CASE w.step = "finalizer"
  <2>1. new = [w.mem EXCEPT !.finalizer = TRUE]
    BY <1>2, <1>5 DEF NewObject, GuardedSteps, DeploySteps
  <2>2. new \in AppObject /\ new.finalizer /\ new # NoApp
    BY <1>1, <2>1, NoneAssumption DEF AppObject
  <2>3. ~w.mem.deleting /\ ~w.mem.finalizer /\ ~new.deleting
    BY <1>1, <1>5, <2>1 DEF WorkInv, AppObject
  <2>4. StageOf(k) = "open" /\ StageOf(k)' = "guarded"
    BY <1>1, <1>3, <1>4, <2>2, <2>3, StageMove
  <2> QED BY <1>1, <1>3, <2>4, StageStep
<1>6. CASE w.step \in GuardedSteps
  <2>1. PICK p \in Phases : new = InPhase(p)
    BY <1>2, <1>6 DEF NewObject, GuardedSteps, DeploySteps
  <2>2. /\ new \in AppObject /\ new # NoApp
        /\ new.finalizer = w.mem.finalizer /\ new.deleting = w.mem.deleting
    BY <1>1, <2>1, InPhaseType, NoneAssumption DEF InPhase, AppObject
  <2>3. StageOf(k)' = StageOf(k)
    BY <1>1, <1>3, <1>4, <2>2, StageMove
  <2> QED BY <1>1, <1>3, <2>3, StageStep
<1>7. CASE w.step = "removeFinalizer"
  <2>1. new = NoApp
    BY <1>2, <1>7 DEF NewObject, GuardedSteps, DeploySteps
  <2>2. w.mem.deleting /\ w.mem.finalizer
    BY <1>1, <1>3, <1>7, NoneAssumption DEF WorkInv, CacheInv, DeletionSteps
  <2>3. StageOf(k) = "closing" /\ StageOf(k)' = "none"
    BY <1>1, <1>3, <1>4, <2>1, <2>2, StageMove
  <2>4. ~Holds(k) \/ k \in lost
    BY <1>0, <1>7 DEF ReleaseInv, Holds, Owned
  <2> QED BY <1>1, <1>3, <2>3, <2>4, StageStep
<1> QED BY <1>2, <1>5, <1>6, <1>7 DEF NewObject

\* Seen from the protocol, a user's write is a move of one object, or nothing.
LEMMA UserWriteStep ==
  ASSUME IInv, NEW k \in Apps, UserWrites(k)
  PROVE  Protocol!Next \/ UNCHANGED Protocol!vars
<1> USE DEF IInv
<1>1. PICK new \in AppObject \cup {NoApp} :
        WriteByUser(k, new) /\ KeepsProtection(app[k], new)
  BY UserWrite
<1>2. app' = [app EXCEPT ![k] = new] /\ UNCHANGED <<service, mapping, lost>>
  BY <1>1 DEF WriteByUser
<1>3. \/ StageOf(k)' = StageOf(k)
      \/ StageOf(k) = "none" /\ StageOf(k)' = "open"
      \/ StageOf(k) = "open" /\ StageOf(k)' \in {"guarded", "none"}
      \/ StageOf(k) = "guarded" /\ StageOf(k)' = "closing"
  <2>1. /\ StageOf(k) = "guarded" => StageOf(k)' \in {"guarded", "closing"}
        /\ StageOf(k) = "closing" => StageOf(k)' = "closing"
    BY <1>1, <1>2, StageMove DEF StageOf, Exists, KeepsProtection, GuardedBy, Leaving
  <2>2. StageOf(k) \in {"none", "open"} => StageOf(k)' \in {"none", "open"}
    <3>1. CASE CreateApp(k)
      <4>1. PICK s \in Specs :
              WriteByUser(k, [spec |-> s, finalizer |-> FALSE,
                              deleting |-> FALSE, phase |-> ""])
        BY <3>1 DEF CreateApp
      <4>2. ~app'[k].finalizer
        BY <4>1 DEF WriteByUser, TypeOK
      <4> QED BY <4>2 DEF StageOf, Exists
    <3>2. CASE EditSpec(k)
      <4>1. PICK s \in Specs : app' = [app EXCEPT ![k] = [app[k] EXCEPT !.spec = s]]
        BY <3>2 DEF EditSpec, WriteByUser
      <4>2. app'[k].finalizer = app[k].finalizer /\ app[k] # NoApp
        BY <3>2, <4>1 DEF EditSpec, TypeOK, AppObject
      <4> QED BY <4>2 DEF StageOf, Exists
    <3>3. CASE DeleteApp(k)
      BY <3>3 DEF DeleteApp, WriteByUser, TypeOK, StageOf, Exists
    <3> QED BY <3>1, <3>2, <3>3 DEF UserWrites
  <2>3. StageOf(k) = "none" => StageOf(k)' \in {"none", "open"}
    BY <2>2
  <2>4. StageOf(k) \in {"none", "open", "guarded", "closing"}
    BY DEF StageOf
  <2> QED BY <2>1, <2>2, <2>4
<1> QED BY <1>2, <1>3, StageStep

\* A step that writes no object changes the resources, or what is given up, of
\* the app being reconciled.
LEMMA ResourceStep ==
  ASSUME IInv, [Next]_vars, UNCHANGED app
  PROVE  Protocol!Next \/ UNCHANGED Protocol!vars
<1> DEFINE stage == [j \in Apps |-> StageOf(j)]
           holding == {j \in Apps : Holds(j)}
           k == w.key
<1>1. stage' = stage
  BY DEF StageOf, Exists
<1>2. /\ \A j \in Apps \ {k} : j \in holding' <=> j \in holding
      /\ \A j \in Apps \ {k} : j \in lost' <=> j \in lost
      /\ lost \subseteq lost'
      /\ holding \subseteq Apps /\ holding' \subseteq Apps
      /\ lost \subseteq Apps /\ lost' \subseteq Apps
  BY SameElsewhere, DataType, WorkerType DEF IInv, TypeOK
<1>3. CASE holding' = holding /\ lost' = lost
  BY <1>1, <1>3 DEF Protocol!vars, stage, holding
<1>4. CASE ~(holding' = holding /\ lost' = lost)
  <2>1. k \in Apps
    BY <1>2, <1>4
  <2>2. CASE k \in holding' /\ k \notin holding
    <3>1. (DeployService \/ CreateDomain) /\ w.step \in GuardedSteps
      BY <2>1, <2>2, AcquireOnly DEF IInv
    <3>2. lost' = lost /\ GuardedBy(app[k])
      BY <3>1 DEF DeployService, CreateDomain, IInv, WorkInv
    <3>3. holding' = holding \cup {k} /\ StageOf(k) \in {"guarded", "closing"}
      BY <1>2, <2>1, <2>2, <3>2 DEF StageOf, Exists, GuardedBy
    <3>4. Protocol!Acquire(k)
      BY <1>1, <2>1, <3>2, <3>3 DEF Protocol!Acquire, Protocol!Guarded, stage, holding
    <3> QED BY <2>1, <3>4 DEF Protocol!Next
  <2>3. CASE ~(k \in holding' /\ k \notin holding)
    <3>1. holding' \in {holding, holding \ {k}}
      BY <1>2, <2>1, <2>3
    <3>2. lost' \in {lost, lost \cup {k}}
      BY <1>2, <2>1
    <3>3. CASE lost' = lost
      <4>1. Protocol!Release(k)
        BY <1>1, <1>4, <3>1, <3>3 DEF Protocol!Release, stage, holding
      <4> QED BY <2>1, <4>1 DEF Protocol!Next
    <3>4. CASE lost' = lost \cup {k}
      <4>1. Protocol!Abandon(k)
        BY <1>1, <3>1, <3>4 DEF Protocol!Abandon, stage, holding
      <4> QED BY <2>1, <4>1 DEF Protocol!Next
    <3> QED BY <3>2, <3>3, <3>4
  <2> QED BY <2>2, <2>3
<1> QED BY <1>3, <1>4

\* Every behaviour of the controller, its runtime and its environment is one of
\* the finalizer protocol.
THEOREM Implements == Spec => ImplementsProtocol
<1>1. Init => Protocol!Init
  <2> SUFFICES ASSUME Init PROVE Protocol!Init
    OBVIOUS
  <2>1. [k \in Apps |-> StageOf(k)] = [k \in Apps |-> "none"]
    BY DEF Init, StageOf, Exists
  <2>2. {k \in Apps : Holds(k)} = {}
    BY NoneAssumption DEF Init, Holds
  <2> QED BY <2>1, <2>2 DEF Protocol!Init, Init
<1>2. IInv /\ [Next]_vars => [Protocol!Next]_(Protocol!vars)
  <2> SUFFICES ASSUME IInv, [Next]_vars
               PROVE  Protocol!Next \/ UNCHANGED Protocol!vars
    OBVIOUS
  <2>1. CASE UNCHANGED app
    BY <2>1, ResourceStep
  <2>2. CASE ObjectWrites /\ ~UNCHANGED app
    BY <2>2, WorkerWriteStep
  <2>3. ASSUME NEW k \in Apps, UserWrites(k)
        PROVE  Protocol!Next \/ UNCHANGED Protocol!vars
    BY <2>3, UserWriteStep
  <2> QED
    BY <2>1, <2>2, <2>3, NextCases, ObjectsUnchanged
    DEF Background, CacheSync, Restart, TimerFire, Resync, KnativeReports
<1> QED BY <1>1, <1>2, Invariance, PTL DEF Spec, ImplementsProtocol, Protocol!Spec

-----------------------------------------------------------------------------
(* The controller keeps CustomResource, the contract with the API server *)

\* Users' writes are counted, and nothing else is.
LEMMA EditsCount ==
  ASSUME TypeOK, [Next]_vars
  PROVE  /\ \A k \in Apps : UserWrites(k) => edits' # edits
         /\ edits' # edits => \E k \in Apps : UserWrites(k)
<1>1. ASSUME NEW k \in Apps, UserWrites(k) PROVE edits' # edits
  <2>1. PICK new : WriteByUser(k, new)
    BY <1>1 DEF UserWrites, CreateApp, EditSpec, DeleteApp
  <2>2. edits \in Nat /\ edits' = edits + 1
    BY <2>1, BoundsAssumption DEF WriteByUser, TypeOK
  <2> QED BY <2>2
<1>2. edits' # edits => \E k \in Apps : UserWrites(k)
  BY NextCases, ObjectWrite, ObjectsUnchanged
  DEF Background, CacheSync, Restart, TimerFire, Resync, KnativeReports
<1> QED BY <1>1, <1>2

\* A write of one object, seen from the contract, in terms of its stage and spec.
LEMMA ContractMove ==
  ASSUME IInv, NEW k \in Apps, NEW new, app' = [app EXCEPT ![k] = new],
         NEW from, StageOf(k) = from, NEW to, StageOf(k)' = to
  PROVE  LET asked == IF new = NoApp THEN NoApp ELSE new.spec
         IN /\ Contract!Move(k, from, to)
            /\ from = to => UNCHANGED [j \in Apps |-> StageOf(j)]
            /\ Contract!Ask(k, asked)
            /\ new # NoApp /\ app[k] # NoApp /\ asked = app[k].spec =>
                 UNCHANGED [j \in Apps |-> IF Exists(j) THEN app[j].spec ELSE NoApp]
<1> DEFINE stage == [j \in Apps |-> StageOf(j)]
           spec == [j \in Apps |-> IF Exists(j) THEN app[j].spec ELSE NoApp]
           asked == IF new = NoApp THEN NoApp ELSE new.spec
<1>1. app'[k] = new /\ \A j \in Apps \ {k} : app'[j] = app[j]
  BY DEF IInv, TypeOK
<1>2. spec'[k] = asked /\ \A j \in Apps \ {k} : spec'[j] = spec[j]
  BY <1>1 DEF Exists
<1>3. stage' = [stage EXCEPT ![k] = to] /\ stage[k] = from
  BY StageMove
<1>4. spec' = [spec EXCEPT ![k] = asked]
  BY <1>2
<1>5. from = to => stage' = stage
  BY <1>3
<1>6. new # NoApp /\ app[k] # NoApp /\ asked = app[k].spec => spec' = spec
  BY <1>2 DEF Exists
<1> QED BY <1>3, <1>4, <1>5, <1>6 DEF Contract!Move, Contract!Ask

\* A reconcile's write guards the object or finishes it, or the contract does not
\* see it.
LEMMA WorkerKeeps ==
  ASSUME IInv, ObjectWrites, ~UNCHANGED app
  PROVE  (\E k \in Apps : Contract!OperatorStep(k)) \/ UNCHANGED Contract!vars
<1> USE DEF IInv
<1>0. PICK k \in Apps : k = w.key
  BY ObjectWrite, AtWork
<1>1. PICK new : w.fresh /\ NewObject(new) /\ Store(new)
  BY ObjectWrite
<1>2. /\ w.mem \in AppObject /\ w.mem # NoApp
      /\ app[k] = w.mem /\ app' = [app EXCEPT ![k] = new]
  BY <1>0, <1>1, ObjectWrite, AtWork, NoneAssumption DEF WorkInv, Store
<1>3. StageOf(k) = CASE ~w.mem.finalizer -> "open"
                         [] w.mem.finalizer /\ ~w.mem.deleting -> "guarded"
                         [] OTHER -> "closing"
  BY <1>2 DEF StageOf, Exists, AppObject
<1>4. CASE w.step = "finalizer"
  <2>1. new = [w.mem EXCEPT !.finalizer = TRUE]
    BY <1>1, <1>4 DEF NewObject, GuardedSteps, DeploySteps
  <2>2. new \in AppObject /\ new.finalizer /\ new # NoApp /\ new.spec = w.mem.spec
    BY <1>2, <2>1, NoneAssumption DEF AppObject
  <2>3. ~w.mem.deleting /\ ~w.mem.finalizer /\ ~new.deleting
    BY <1>2, <1>4, <2>1 DEF WorkInv, AppObject
  <2>4. StageOf(k) = "open" /\ StageOf(k)' = "guarded"
    BY <1>2, <1>3, <2>2, <2>3, StageMove
  <2>5. Contract!Guard(k)
    BY <1>2, <2>2, <2>4, ContractMove DEF Contract!Guard
  <2> QED BY <2>5 DEF Contract!OperatorStep
<1>5. CASE w.step \in GuardedSteps
  <2>1. PICK p \in Phases : new = InPhase(p)
    BY <1>1, <1>5 DEF NewObject, GuardedSteps, DeploySteps
  <2>2. /\ new \in AppObject /\ new # NoApp /\ new.spec = w.mem.spec
        /\ new.finalizer = w.mem.finalizer /\ new.deleting = w.mem.deleting
    BY <1>2, <2>1, InPhaseType, NoneAssumption DEF InPhase, AppObject
  <2>3. StageOf(k)' = StageOf(k)
    BY <1>2, <1>3, <2>2, StageMove
  <2>4. PICK s : StageOf(k) = s /\ StageOf(k)' = s
    BY <2>3
  <2> QED BY <1>2, <2>2, <2>4, ContractMove DEF Contract!vars
<1>6. CASE w.step = "removeFinalizer"
  <2>1. new = NoApp
    BY <1>1, <1>6 DEF NewObject, GuardedSteps, DeploySteps
  <2>2. w.mem.deleting /\ w.mem.finalizer
    BY <1>1, <1>2, <1>6, <1>0 DEF WorkInv, CacheInv, DeletionSteps
  <2>3. StageOf(k) = "closing" /\ StageOf(k)' = "none"
    BY <1>2, <1>3, <2>1, <2>2, StageMove
  <2>4. Contract!Finish(k)
    BY <1>2, <2>1, <2>3, ContractMove DEF Contract!Finish
  <2> QED BY <2>4 DEF Contract!OperatorStep
<1> QED BY <1>1, <1>4, <1>5, <1>6 DEF NewObject

\* A user's write creates, edits or deletes one App as a client may.
LEMMA UserKeeps ==
  ASSUME IInv, NEW k \in Apps, UserWrites(k)
  PROVE  Contract!ClientStep(k)
<1> USE DEF IInv
<1>0. app[k] \in AppObject \cup {NoApp}
  BY DEF TypeOK
<1>1. CASE CreateApp(k)
  <2> DEFINE Fresh(s) == [spec |-> s, finalizer |-> FALSE, deleting |-> FALSE,
                          phase |-> ""]
  <2>1. PICK s \in Specs : app' = [app EXCEPT ![k] = Fresh(s)]
    BY <1>1 DEF CreateApp, WriteByUser
  <2>2. Fresh(s) # NoApp /\ Fresh(s).spec = s /\ ~Fresh(s).finalizer
    <3>1. s \in AppSpec /\ "" \in Phases
      BY SpecsAssumption DEF Phases
    <3>2. Fresh(s) \in AppObject
      BY <3>1 DEF AppObject
    <3> QED BY <3>2, NoneAssumption
  <2> HIDE DEF Fresh
  <2>3. StageOf(k) = "none" /\ StageOf(k)' = "open"
    BY <1>1, <2>1, <2>2, StageMove DEF CreateApp, StageOf, Exists
  <2>4. Contract!Move(k, "none", "open") /\ Contract!Ask(k, s)
    BY <2>1, <2>2, <2>3, ContractMove
  <2> QED BY <2>4 DEF Contract!ClientStep, Contract!Create
<1>2. CASE EditSpec(k)
  <2>1. PICK s \in Specs : app' = [app EXCEPT ![k] = [app[k] EXCEPT !.spec = s]]
    BY <1>2 DEF EditSpec, WriteByUser
  <2> DEFINE new == [app[k] EXCEPT !.spec = s]
  <2>2. /\ app[k] # NoApp /\ new # NoApp /\ new.spec = s
        /\ new.finalizer = app[k].finalizer /\ new.deleting = app[k].deleting
    BY <1>0, <1>2, SpecsAssumption, NoneAssumption DEF EditSpec, AppObject
  <2>3. app' = [app EXCEPT ![k] = new]
    BY <2>1
  <2> HIDE DEF new
  <2>4. StageOf(k)' = StageOf(k) /\ StageOf(k) # "none"
    BY <2>2, <2>3, StageMove DEF StageOf, Exists
  <2>5. PICK t : StageOf(k) = t /\ StageOf(k)' = t
    BY <2>4
  <2>6. /\ Contract!Ask(k, s) /\ UNCHANGED [j \in Apps |-> StageOf(j)]
    BY <2>2, <2>3, <2>5, ContractMove
  <2> QED BY <2>4, <2>6 DEF Contract!ClientStep, Contract!Edit
<1>3. CASE DeleteApp(k)
  <2>0. app[k] \in AppObject /\ app[k] # NoApp /\ ~app[k].deleting
    BY <1>0, <1>3 DEF DeleteApp
  <2>1. CASE app[k].finalizer
    <3> DEFINE new == [app[k] EXCEPT !.deleting = TRUE]
    <3>1. app' = [app EXCEPT ![k] = new]
      BY <1>3, <2>1 DEF DeleteApp, WriteByUser
    <3>2. new # NoApp /\ new.spec = app[k].spec /\ new.finalizer /\ new.deleting
      BY <2>0, <2>1, NoneAssumption DEF AppObject
    <3> HIDE DEF new
    <3>3. StageOf(k) = "guarded" /\ StageOf(k)' = "closing"
      BY <2>0, <2>1, <3>1, <3>2, StageMove DEF StageOf, Exists
    <3> QED BY <2>0, <3>1, <3>2, <3>3, ContractMove
            DEF Contract!ClientStep, Contract!Delete
  <2>2. CASE ~app[k].finalizer
    <3>1. app' = [app EXCEPT ![k] = NoApp]
      BY <1>3, <2>2 DEF DeleteApp, WriteByUser
    <3>2. StageOf(k) = "open" /\ StageOf(k)' = "none"
      BY <2>0, <2>2, <3>1, StageMove DEF StageOf, Exists
    <3> QED BY <3>1, <3>2, ContractMove DEF Contract!ClientStep, Contract!Delete
  <2> QED BY <2>1, <2>2
<1> QED BY <1>1, <1>2, <1>3 DEF UserWrites

\* To every App the operator does only what the contract leaves to it, and users
\* do what it leaves to clients: a reconcile's write from an old copy, which
\* would take back a spec or bring back an App, is refused.
THEOREM KeepsContractSafe == Spec => KeepsContract
<1> DEFINE Keeps == IF edits' # edits THEN \E k \in Apps : Contract!ClientStep(k)
                   ELSE \E k \in Apps : Contract!OperatorStep(k)
<1>1. Init => Contract!Init
  BY DEF Init, StageOf, Exists, Contract!Init
<1>2. IInv /\ [Next]_vars => [Keeps]_(Contract!vars)
  <2> SUFFICES ASSUME IInv, [Next]_vars PROVE Keeps \/ UNCHANGED Contract!vars
    OBVIOUS
  <2> USE DEF IInv
  <2>1. CASE UNCHANGED app
    BY <2>1 DEF Contract!vars, StageOf, Exists
  <2>2. CASE ObjectWrites /\ ~UNCHANGED app
    BY <2>2, ObjectWrite, WorkerKeeps
  <2>3. ASSUME NEW k \in Apps, UserWrites(k) PROVE Keeps
    BY <2>3, UserKeeps, EditsCount
  <2> QED
    BY <2>1, <2>2, <2>3, NextCases, ObjectsUnchanged
    DEF Background, CacheSync, Restart, TimerFire, Resync, KnativeReports
<1> QED BY <1>1, <1>2, Invariance, PTL DEF Spec, KeepsContract

-----------------------------------------------------------------------------
(* What a reconcile has done when it reports *)

DomainCalls == {"domainDelete", "domainCreate", "getStatus", "putStatus"}

\* From the deployment on, the Service has the image of the copy in hand.
ImageInv ==
  w.step \in {"domainList"} \cup DomainCalls =>
    service[w.key] # NoService /\ service[w.key].image = w.mem.spec.image

\* What is left to do is what separates the app's mappings from its hosts; the
\* status is read when nothing is.
LeftInv ==
  w.step \in DomainCalls =>
    /\ w.drop = Owned(w.key) \ w.mem.spec.hosts
    /\ w.add = w.mem.spec.hosts \ Owned(w.key)
    /\ DomainStep(w.drop, w.add) \in
         {w.step} \cup (IF w.step = "putStatus" THEN {"getStatus"} ELSE {})

\* At every other step the two ask for nothing.
LEMMA DoneElsewhere ==
  w'.step \notin {"domainList"} \cup DomainCalls => ImageInv' /\ LeftInv'
BY DEF ImageInv, LeftInv

\* No reconcile starts at these steps, and none ends there.
LEMMA LateSteps ==
  /\ {"idle", "pauseDelete", "knative", "setFailed"} \cap
       ({"domainList"} \cup DomainCalls) = {}
  /\ DeletionSteps \cap ({"domainList"} \cup DomainCalls) = {}
  /\ \A m \in AppObject : Stage(m) \notin {"domainList"} \cup DomainCalls
BY StageFacts DEF DomainCalls, DeletionSteps

\* A call on the DomainMappings keeps the account of what is left.
LEMMA DomainCallsStep ==
  ASSUME TypeOK, WorkerOK, LeftInv, ListDomains \/ DeleteDomain \/ CreateDomain
  PROVE  LeftInv'
<1>0. /\ w \in Worker /\ w.key \in Apps /\ w.mem \in AppObject
      /\ w.step \in {"domainList", "domainDelete", "domainCreate"}
  BY AtWork DEF ListDomains, DeleteDomain, CreateDomain
<1>1. ASSUME GoTo("setFailed") PROVE LeftInv'
  <2>1. w'.step = "setFailed"
    BY <1>0, <1>1 DEF GoTo, Worker
  <2> QED BY <2>1, DoneElsewhere, LateSteps
<1>7. PICK k \in Apps : k = w.key
  BY <1>0
<1> DEFINE wanted == w.mem.spec.hosts
<1>2. ASSUME NEW drop \in SUBSET Hosts, NEW add \in SUBSET Hosts,
             DomainsLeft(drop, add),
             drop = Owned(k)' \ wanted, add = wanted \ Owned(k)'
      PROVE  LeftInv'
  <2>1. /\ w'.step = DomainStep(drop, add) /\ w'.drop = drop /\ w'.add = add
        /\ w'.key = w.key /\ w'.mem = w.mem
    BY <1>0, <1>2 DEF DomainsLeft, Worker
  <2>2. Owned(w.key)' = Owned(k)'
    BY <1>7, <2>1 DEF Owned
  <2> QED BY <1>2, <2>1, <2>2 DEF LeftInv
<1>3. wanted \subseteq Hosts /\ Owned(k) \subseteq Hosts
  BY <1>0 DEF AppObject, AppSpec, Owned
<1>4. CASE ListDomains
  <2>1. Owned(k)' = Owned(k)
    BY <1>4 DEF ListDomains, Owned
  <2>2. CASE DomainsLeft(Owned(k) \ wanted, wanted \ Owned(k))
    BY <1>2, <1>3, <2>1, <2>2
  <2> QED BY <1>1, <1>4, <1>7, <2>2 DEF ListDomains
<1>5. CASE DeleteDomain
  <2>1. w.step = "domainDelete" /\ w.step \in DomainCalls
    BY <1>5 DEF DeleteDomain, DomainCalls
  <2>2. w.drop = Owned(k) \ wanted /\ w.add = wanted \ Owned(k)
    BY <1>7, <2>1 DEF LeftInv
  <2>3. PICK h \in w.drop :
          \/ /\ mapping' = [mapping EXCEPT ![h] = Nobody]
             /\ DomainsLeft(w.drop \ {h}, w.add)
          \/ GoTo("setFailed")
    BY <1>5 DEF DeleteDomain
  <2>4. CASE /\ mapping' = [mapping EXCEPT ![h] = Nobody]
             /\ DomainsLeft(w.drop \ {h}, w.add)
    <3>1. Owned(k)' = Owned(k) \ {h}
      BY <1>7, <2>4, NoneAssumption DEF Owned, TypeOK
    <3>2. /\ w.drop \ {h} = Owned(k)' \ wanted
          /\ w.add = wanted \ Owned(k)'
      BY <2>2, <2>3, <3>1
    <3>3. w.drop \ {h} \in SUBSET Hosts /\ w.add \in SUBSET Hosts
      BY <1>0 DEF Worker
    <3> QED BY <1>2, <2>4, <3>2, <3>3
  <2> QED BY <1>1, <2>3, <2>4
<1>6. CASE CreateDomain
  <2>1. w.step = "domainCreate" /\ w.step \in DomainCalls
    BY <1>6 DEF CreateDomain, DomainCalls
  <2>2. /\ w.drop = Owned(k) \ wanted /\ w.add = wanted \ Owned(k)
        /\ w.drop = {}
    BY <1>7, <2>1 DEF LeftInv, DomainStep
  <2>3. PICK h \in w.add :
          \/ /\ mapping' = [mapping EXCEPT ![h] = w.key]
             /\ DomainsLeft({}, w.add \ {h})
          \/ GoTo("setFailed")
    BY <1>6 DEF CreateDomain
  <2>4. CASE /\ mapping' = [mapping EXCEPT ![h] = w.key]
             /\ DomainsLeft({}, w.add \ {h})
    <3>1. h \in Hosts
      BY <1>3, <2>2, <2>3
    <3>2. Owned(k)' = Owned(k) \cup {h}
      <4>1. \A x \in Hosts : mapping'[x] = k <=> mapping[x] = k \/ x = h
        BY <1>7, <2>4, <3>1 DEF TypeOK
      <4> QED BY <3>1, <4>1 DEF Owned
    <3>3. /\ {} = Owned(k)' \ wanted
          /\ w.add \ {h} = wanted \ Owned(k)'
      BY <2>2, <2>3, <3>2
    <3>4. {} \in SUBSET Hosts /\ w.add \ {h} \in SUBSET Hosts
      BY <1>0 DEF Worker
    <3> QED BY <1>2, <2>4, <3>3, <3>4
  <2> QED BY <1>1, <2>3, <2>4
<1> QED BY <1>4, <1>5, <1>6

\* What a reconcile has done by each of its later calls is not undone: nobody
\* else changes the image of its Service or its mappings.
LEMMA DoneStep ==
  ASSUME TypeOK, WorkerOK, ImageInv, LeftInv, [Next]_vars
  PROVE  ImageInv' /\ LeftInv'
<1> DEFINE Late == {"domainList"} \cup DomainCalls
<1>1. ASSUME w' = Idle PROVE ImageInv' /\ LeftInv'
  BY <1>1, DoneElsewhere, LateSteps DEF Idle
<1>2. ASSUME NEW s, s \notin Late, w'.step = s PROVE ImageInv' /\ LeftInv'
  BY <1>2, DoneElsewhere
<1>3. ASSUME w'.step = w.step, w'.key = w.key, w'.mem = w.mem,
             w'.drop = w.drop, w'.add = w.add, UNCHANGED mapping,
             w.step # "idle" =>
               (service[w.key] # NoService =>
                  /\ service'[w.key] # NoService
                  /\ service'[w.key].image = service[w.key].image)
      PROVE  ImageInv' /\ LeftInv'
  <2>1. ImageInv'
    BY <1>3, LateSteps DEF ImageInv
  <2>2. Owned(w.key)' = Owned(w.key)
    BY <1>3 DEF Owned
  <2> QED BY <1>3, <2>1, <2>2 DEF LeftInv
<1>4. CASE ObjectWrites
  <2>1. w \in Worker
    BY <1>4, ObjectWrite, AtWork
  <2>2. w' = Idle \/ w'.step = "pauseDelete" \/ \E m \in AppObject : w'.step = Stage(m)
    BY <1>4, <2>1, WriteMove DEF Worker
  <2> QED BY <1>1, <1>2, <2>2, LateSteps
<1>5. CASE PauseDelete \/ Restart
  BY <1>1, <1>5 DEF PauseDelete, Done, Restart
<1>6. CASE CheckTenant
  <2>1. w \in Worker
    BY <1>6, AtWork DEF CheckTenant
  <2>2. w' = Idle \/ w'.step = "knative" \/ w'.step = "setFailed"
    BY <1>6, <2>1 DEF CheckTenant, GoTo, Requeue, Worker
  <2> QED BY <1>1, <1>2, <2>2, LateSteps
<1>7. CASE DeployService
  <2>1. w \in Worker /\ w.key \in Apps /\ w.mem \in AppObject
    BY <1>7, AtWork DEF DeployService
  <2>2. CASE GoTo("setFailed")
    <3>1. w'.step = "setFailed"
      BY <2>1, <2>2 DEF GoTo, Worker
    <3> QED BY <1>2, <3>1, LateSteps
  <2>3. CASE /\ service' = [service EXCEPT ![w.key] = Deployed(@, w.mem.spec.image)]
             /\ GoTo("domainList")
    <3>1. w'.step = "domainList" /\ w'.key = w.key /\ w'.mem = w.mem
      BY <2>1, <2>3 DEF GoTo, Worker
    <3>2. w.mem.spec.image \in Images
      BY <2>1 DEF AppObject, AppSpec
    <3>3. /\ Deployed(service[w.key], w.mem.spec.image) \in Service
          /\ Deployed(service[w.key], w.mem.spec.image).image = w.mem.spec.image
      BY <2>1, <3>2 DEF Deployed, TypeOK, Service
    <3>4. service'[w.key] = Deployed(service[w.key], w.mem.spec.image)
      BY <2>1, <2>3 DEF TypeOK
    <3>5. "domainList" \notin DomainCalls
      BY DEF DomainCalls
    <3> QED BY <3>1, <3>3, <3>4, <3>5, NoneAssumption DEF ImageInv, LeftInv
  <2> QED BY <1>7, <2>2, <2>3 DEF DeployService
<1>8. CASE ListDomains \/ DeleteDomain \/ CreateDomain
  <2>1. LeftInv'
    BY <1>8, DomainCallsStep
  <2>2. w.step \in Late /\ w \in Worker /\ service' = service
    BY <1>8, AtWork DEF ListDomains, DeleteDomain, CreateDomain, DomainCalls
  <2>3. w'.key = w.key /\ w'.mem = w.mem
    <3>1. \E s, drop, add : GoTo(s) \/ DomainsLeft(drop, add)
      BY <1>8 DEF ListDomains, DeleteDomain, CreateDomain
    <3> QED BY <2>2, <3>1 DEF GoTo, DomainsLeft, Worker
  <2> QED BY <2>1, <2>2, <2>3 DEF ImageInv
<1>9. CASE GetStatus
  <2>1. w.step = "getStatus" /\ w \in Worker
    BY <1>9, AtWork DEF GetStatus
  <2>2. /\ w'.step = "putStatus" /\ w'.key = w.key /\ w'.mem = w.mem
        /\ w'.drop = w.drop /\ w'.add = w.add
        /\ UNCHANGED <<service, mapping>>
    BY <1>9, <2>1 DEF GetStatus, Worker
  <2>3. Owned(w.key)' = Owned(w.key)
    BY <2>2 DEF Owned
  <2> QED BY <2>1, <2>2, <2>3 DEF ImageInv, LeftInv, DomainCalls
<1>10. CASE ListForDeletion \/ DeletionDomain \/ DeletionService
  <2>1. w \in Worker
    BY <1>10, AtWork DEF ListForDeletion, DeletionDomain, DeletionService
  <2>2. w'.step \in DeletionSteps
    BY <1>10, <2>1 DEF ListForDeletion, DeletionDomain, DeletionService, GoTo,
                       Worker, DeletionSteps
  <2> QED BY <1>2, <2>2, LateSteps
<1>11. ASSUME NEW k \in Apps, Pick(k) PROVE ImageInv' /\ LeftInv'
  <2>1. w' = Idle \/ (cache[k] # NoApp /\ w'.step = Stage(cache[k]))
    BY <1>11 DEF Pick, Idle
  <2>2. cache[k] # NoApp => cache[k] \in AppObject
    BY DEF TypeOK
  <2> QED BY <1>1, <1>2, <2>1, <2>2, LateSteps
<1>12. ASSUME NEW k \in Apps, UserWrites(k) PROVE ImageInv' /\ LeftInv'
  <2>1. PICK new : WriteByUser(k, new)
    BY <1>12 DEF UserWrites, CreateApp, EditSpec, DeleteApp
  <2>2. /\ w'.step = w.step /\ w'.key = w.key /\ w'.mem = w.mem
        /\ w'.drop = w.drop /\ w'.add = w.add
        /\ UNCHANGED <<service, mapping>>
    BY <2>1 DEF WriteByUser, WorkerOK, Worker
  <2> QED BY <1>3, <2>2
<1>13. ASSUME NEW k \in Apps, KnativeReports(k) PROVE ImageInv' /\ LeftInv'
  <2>1. service[k] \in Service
    BY <1>13 DEF KnativeReports, TypeOK
  <2>2. Reported(service[k]) \in Service /\ Reported(service[k]).image = service[k].image
    BY <2>1 DEF Reported, Service
  <2>3. w.step # "idle" => w.key \in Apps
    BY AtWork
  <2>4. w.step # "idle" =>
          (service[w.key] # NoService =>
             /\ service'[w.key] # NoService
             /\ service'[w.key].image = service[w.key].image)
    BY <1>13, <2>2, <2>3, NoneAssumption DEF KnativeReports, TypeOK
  <2> QED BY <1>3, <1>13, <2>4 DEF KnativeReports
<1>14. CASE \/ TenantChange \/ UNCHANGED vars
            \/ \E k \in Apps : CacheSync(k) \/ TimerFire(k) \/ Resync(k)
  BY <1>3, <1>14 DEF TenantChange, vars, CacheSync, TimerFire, Resync
<1> QED
  BY <1>4, <1>5, <1>6, <1>7, <1>8, <1>9, <1>10, <1>11, <1>12, <1>13, <1>14, NextCases
  DEF OtherWork, Background

\* ImageInv and LeftInv hold whenever a reconcile relies on them.
LEMMA DoneInvariance == Spec => [](ImageInv /\ LeftInv)
<1>1. Init => ImageInv /\ LeftInv
  BY LateSteps DEF Init, Idle, ImageInv, LeftInv
<1>2. IInv /\ ImageInv /\ LeftInv /\ [Next]_vars => (ImageInv /\ LeftInv)'
  BY DoneStep DEF IInv
<1> QED BY <1>1, <1>2, Invariance, PTL DEF Spec

\* No app becomes Ready whose Service has another image than its spec, or whose
\* mappings are not those of its spec: at the time of the write, not only when
\* they were read.
THEOREM ReadyIsDeployedSafe == Spec => ReadyIsDeployed
<1> DEFINE BecomesReady(k) == /\ Exists(k)' /\ app'[k].phase = "Ready"
                              /\ Exists(k) => app[k].phase # "Ready"
           DeployedAs(k, spec) == /\ service[k] # NoService
                                  /\ service[k].image = spec.image
                                  /\ Owned(k) = spec.hosts
           Said == \A k \in Apps :
             /\ Exists(k)' /\ app'[k].phase = "Ready"
             /\ Exists(k) => app[k].phase # "Ready"
             => /\ service[k] # NoService /\ service[k].image = app'[k].spec.image
                /\ Owned(k) = app'[k].spec.hosts
<1>1. IInv /\ ImageInv /\ LeftInv /\ [Next]_vars => [Said]_vars
  <2> SUFFICES ASSUME IInv, ImageInv, LeftInv, [Next]_vars,
                      NEW k \in Apps, BecomesReady(k)
               PROVE  DeployedAs(k, app'[k].spec)
    OBVIOUS
  <2> USE DEF IInv
  <2>1. app'[k] # app[k]
    BY DEF Exists
  <2>2. CASE ObjectWrites
    <3>1. PICK new : w.fresh /\ NewObject(new) /\ Store(new)
      BY <2>1, <2>2, ObjectWrite
    <3>2. w.mem \in AppObject /\ w.mem # NoApp /\ w.key \in Apps /\ app[w.key] = w.mem
      BY <2>2, <3>1, ObjectWrite, AtWork, NoneAssumption DEF WorkInv
    <3>3. w.key = k /\ app'[k] = new /\ app[k] = w.mem
      BY <2>1, <3>1, <3>2 DEF Store, TypeOK
    <3>4. new # NoApp /\ new.phase = "Ready" /\ w.mem.phase # "Ready"
      BY <3>2, <3>3 DEF Exists
    <3>5. PutStatus /\ new = InPhase("Ready")
      <4>1. w.step # "finalizer"
        <5>1. new = [w.mem EXCEPT !.finalizer = TRUE] => new.phase = w.mem.phase
          BY <3>2 DEF AppObject
        <5> QED BY <3>1, <3>4, <5>1 DEF NewObject, GuardedSteps, DeploySteps
      <4>2. \A p \in Phases : InPhase(p).phase = p
        BY <3>2 DEF InPhase, AppObject
      <4>3. {"Pending", "Deploying", "Paused", "Failed", "Ready"} \subseteq Phases
        BY DEF Phases
      <4>4. app' # app
        BY <2>1
      <4>5. \A x, y : Store(x) /\ Store(y) => x = y
        BY <3>2 DEF Store, TypeOK
      <4>6. ASSUME NEW x, Written(x) \/ Errored(x) PROVE x = new
        BY <3>1, <4>4, <4>5, <4>6 DEF Written, Errored
      <4> QED
        BY <2>2, <3>4, <4>1, <4>2, <4>3, <4>6
        DEF ObjectWrites, AddFinalizer, SetPending, SetDeploying, SetPaused,
            PutStatus, SetFailed, RemoveFinalizer, WriteThenContinue, Update
    <3>6. w.step \in DomainCalls /\ w.step = "putStatus"
      BY <3>5 DEF PutStatus, DomainCalls
    <3>7. new.spec = w.mem.spec
      BY <3>2, <3>5 DEF InPhase, AppObject
    <3>8. DomainStep(w.drop, w.add) \in {"putStatus", "getStatus"}
      BY <3>6 DEF LeftInv
    <3>9. w.drop = {} /\ w.add = {}
      BY <3>8 DEF DomainStep
    <3>10. Owned(k) = w.mem.spec.hosts
      <4>1. /\ {} = Owned(k) \ w.mem.spec.hosts
            /\ {} = w.mem.spec.hosts \ Owned(k)
        BY <3>3, <3>6, <3>9 DEF LeftInv
      <4> QED BY <4>1
    <3> QED BY <3>3, <3>6, <3>7, <3>10 DEF ImageInv
  <2>3. ASSUME NEW j \in Apps, UserWrites(j) PROVE FALSE
    <3>0. app[k] \in AppObject \cup {NoApp}
      BY DEF TypeOK
    <3>1. CASE CreateApp(j)
      <4>1. PICK s : app' = [app EXCEPT ![j] = [spec |-> s, finalizer |-> FALSE,
                                               deleting |-> FALSE, phase |-> ""]]
        BY <3>1 DEF CreateApp, WriteByUser
      <4> QED BY <2>1, <4>1 DEF TypeOK
    <3>2. CASE EditSpec(j)
      <4>1. PICK s : app' = [app EXCEPT ![j] = [app[j] EXCEPT !.spec = s]]
        BY <3>2 DEF EditSpec, WriteByUser
      <4>2. app'[k] = [app[k] EXCEPT !.spec = s] /\ app[k] # NoApp
        BY <2>1, <3>2, <4>1 DEF EditSpec, TypeOK
      <4> QED BY <3>0, <4>2 DEF Exists, AppObject
    <3>3. CASE DeleteApp(j)
      <4>1. \/ app' = [app EXCEPT ![j] = NoApp]
            \/ app' = [app EXCEPT ![j] = [app[j] EXCEPT !.deleting = TRUE]]
        BY <3>3 DEF DeleteApp, WriteByUser
      <4>2. k = j /\ app[k] # NoApp
        BY <2>1, <3>3, <4>1 DEF DeleteApp, TypeOK
      <4>3. app'[k] = NoApp \/ app'[k] = [app[k] EXCEPT !.deleting = TRUE]
        BY <4>1, <4>2 DEF TypeOK
      <4> QED BY <3>0, <4>2, <4>3 DEF Exists, AppObject
    <3> QED BY <2>3, <3>1, <3>2, <3>3 DEF UserWrites
  <2> QED
    BY <2>1, <2>2, <2>3, NextCases, ObjectsUnchanged
    DEF Background, CacheSync, Restart, TimerFire, Resync, KnativeReports
<1> QED BY <1>1, Invariance, DoneInvariance, PTL DEF Spec, ReadyIsDeployed

-----------------------------------------------------------------------------
(* A settled app is left alone *)

\* Two versions of the same app, written or not, that SettledStays compares.
SameApp(k) == app'[k] = app[k] /\ Owned(k)' = Owned(k)

\* The step of the worker is the one call that can be made at it.
LEMMA CallAt ==
  ASSUME ObjectWrites \/ OtherWork
  PROVE  /\ w.step = "tenant" => CheckTenant
         /\ w.step = "knative" => DeployService
         /\ w.step = "domainList" => ListDomains
         /\ w.step = "getStatus" => GetStatus
         /\ w.step = "putStatus" => PutStatus
         /\ w.step = "setFailed" => SetFailed
         /\ w.step = "pause" => SetPaused
         /\ w.step = "pauseDelete" => PauseDelete
<1>1. CASE ObjectWrites
  BY <1>1 DEF ObjectWrites, AddFinalizer, SetPending, SetDeploying, SetPaused,
              PutStatus, SetFailed, RemoveFinalizer, WriteThenContinue
<1>2. CASE OtherWork
  BY <1>2 DEF OtherWork, PauseDelete, CheckTenant, DeployService, ListDomains,
              DeleteDomain, CreateDomain, GetStatus, ListForDeletion,
              DeletionDomain, DeletionService
<1> QED BY <1>1, <1>2

\* A step that changes nothing of an app and its service, and does not start a
\* reconcile of it, leaves it settled.
LEMMA SettledFrame ==
  ASSUME NEW k \in Apps, Settled(k), SameApp(k),
         service'[k] = service[k] \/ Unserved(k), tenantKnown' = tenantKnown,
         k \in stale' => k \in stale,
         \/ w'.key # k
         \/ /\ w.key = k /\ w'.step = w.step /\ w'.ready = w.ready
            /\ w'.fresh = w.fresh
  PROVE  Settled(k)'
<1>1. Exists(k)' <=> Exists(k)
  BY DEF SameApp, Exists
<1>2. k \notin stale' /\ (w'.key = k => w'.fresh)
  BY DEF Settled
<1>3. CASE Serving(k)
  <2>1. ~Unserved(k)
    BY <1>3 DEF Serving, Unserved
  <2> QED BY <1>1, <1>2, <1>3, <2>1 DEF Serving, Settled, SameApp, Alive
<1>4. CASE Unserved(k)
  BY <1>1, <1>2, <1>4 DEF Unserved, Settled, SameApp, Alive
<1>5. CASE Resting(k)
  <2>1. ~Unserved(k)
    BY <1>5 DEF Resting, Unserved
  <2> QED BY <1>1, <1>2, <1>5, <2>1 DEF Resting, Settled, SameApp, Alive
<1>6. CASE Gone(k)
  <2>1. ~Unserved(k)
    BY <1>6 DEF Gone, Unserved, Alive
  <2>2. Holds(k)' <=> Holds(k)
    BY <2>1 DEF SameApp, Holds, Owned
  <2> QED BY <1>1, <1>2, <1>6, <2>2 DEF Gone, Settled
<1> QED BY <1>3, <1>4, <1>5, <1>6 DEF Settled

\* A step of a reconcile of another app changes nothing of k.
LEMMA WorkElsewhere ==
  ASSUME IInv, ObjectWrites \/ OtherWork, [Next]_vars, NEW k \in Apps, w.key # k
  PROVE  /\ SameApp(k) /\ service'[k] = service[k] /\ tenantKnown' = tenantKnown
         /\ k \in stale' => k \in stale
         /\ w'.key # k
<1> USE DEF IInv
<1>1. w.step # "idle" /\ w'.key \in {Nobody, w.key} /\ w.key \in Apps
  BY WorkMove, AtWork DEF Idle
<1>2. tenantKnown' = tenantKnown
  BY DEF ObjectWrites, AddFinalizer, SetPending, SetDeploying, SetPaused,
         PutStatus, SetFailed, RemoveFinalizer, WriteThenContinue, OtherWork,
         PauseDelete, CheckTenant, DeployService, ListDomains, DeleteDomain,
         CreateDomain, GetStatus, ListForDeletion, DeletionDomain, DeletionService
<1>3. app'[k] = app[k] /\ (k \in stale' => k \in stale)
  <2>1. CASE UNCHANGED <<app, stale>>
    BY <2>1
  <2>2. ASSUME NEW new, Store(new) PROVE app'[k] = app[k] /\ (k \in stale' => k \in stale)
    BY <1>1, <2>2 DEF Store, TypeOK
  <2> QED BY <2>1, <2>2, ObjectWrite, ObjectsUnchanged
<1>4. service'[k] = service[k]
  <2>1. CASE PauseDelete \/ DeletionService \/ DeployService
    BY <1>1, <2>1 DEF PauseDelete, DeletionService, DeleteService, DeployService, TypeOK
  <2>2. CASE UNCHANGED service
    BY <2>2
  <2> QED
    BY <2>1, <2>2, ObjectWrite
    DEF OtherWork, CheckTenant, ListDomains, DeleteDomain, CreateDomain, GetStatus,
        ListForDeletion, DeletionDomain
<1>5. Owned(k)' = Owned(k)
  <2>1. \A h \in Hosts : mapping'[h] = k <=> mapping[h] = k
    BY MappingOwner, NoneAssumption
  <2> QED BY <2>1 DEF Owned
<1> QED BY <1>1, <1>2, <1>3, <1>4, <1>5, NoneAssumption DEF SameApp

\* A write that stores the object as it is, from the latest copy and without a
\* fault, changes nothing.
LEMMA WriteSame ==
  ASSUME TypeOK, w.key \in Apps, w.fresh, faults' = faults, NEW new,
         app[w.key] = new, Written(new) \/ Errored(new)
  PROVE  app' = app /\ stale' = stale /\ ~Errored(new)
<1>1. ~Fault
  BY BoundsAssumption DEF Fault, TypeOK
<1> QED BY <1>1 DEF Written, Errored, Store, TypeOK

\* A reconcile of an app that is served goes through all its calls and leaves
\* everything as it is.
LEMMA ServingCall ==
  ASSUME IInv, ObjectWrites \/ OtherWork, NEW k \in Apps, w.key = k, Settled(k),
         Serving(k), faults' = faults
  PROVE  Settled(k)' /\ SameApp(k)
<1> USE DEF IInv
<1>0. /\ w.step # "idle" /\ w.fresh /\ w.mem = app[k] /\ w \in Worker
      /\ w.mem \in AppObject /\ w.key \in Apps /\ k \notin stale
  BY AtWork, ObjectWrite, WorkMove DEF Settled, WorkInv
<1>1. ~Fault
  BY BoundsAssumption DEF Fault, TypeOK
<1>2. ASSUME UNCHANGED <<app, stale, service, mapping, tenantKnown>>,
             \/ w' = Idle
             \/ /\ w'.key = k /\ w'.fresh = w.fresh
                /\ \/ w'.step \in {"tenant", "knative", "domainList", "getStatus"}
                   \/ w'.step = "putStatus" /\ w'.ready
      PROVE  Settled(k)' /\ SameApp(k)
  <2>1. Owned(k)' = Owned(k)
    BY <1>2 DEF Owned
  <2>2. Idle.key # k
    BY NoneAssumption DEF Idle
  <2> QED BY <1>0, <1>2, <2>1, <2>2 DEF Settled, Serving, Alive, Exists, SameApp
<1>3. CASE w.step = "tenant"
  <2>1. CheckTenant /\ tenantKnown
    BY <1>3, CallAt DEF Serving
  <2>2. GoTo("knative")
    BY <1>1, <2>1 DEF CheckTenant
  <2> QED BY <1>0, <1>2, <2>1, <2>2 DEF CheckTenant, GoTo, Worker
<1>4. CASE w.step = "knative"
  <2>1. DeployService
    BY <1>4, CallAt
  <2>2. service[k] \in Service /\ service[k] # NoService
    BY DEF Serving, TypeOK
  <2>3. Deployed(service[k], w.mem.spec.image) = service[k]
    BY <1>0, <2>2 DEF Serving, Deployed, Service
  <2>4. /\ service' = [service EXCEPT ![k] = Deployed(service[k], w.mem.spec.image)]
        /\ GoTo("domainList")
    BY <1>1, <2>1 DEF DeployService
  <2>5. service' = service
    BY <2>3, <2>4 DEF TypeOK
  <2> QED BY <1>0, <1>2, <2>1, <2>4, <2>5 DEF DeployService, GoTo, Worker
<1>5. CASE w.step = "domainList"
  <2>1. ListDomains
    BY <1>5, CallAt
  <2>2. Owned(k) \ w.mem.spec.hosts = {} /\ w.mem.spec.hosts \ Owned(k) = {}
    BY <1>0 DEF Serving
  <2>3. DomainsLeft({}, {})
    BY <1>1, <2>1, <2>2 DEF ListDomains
  <2> QED BY <1>0, <1>2, <2>1, <2>3 DEF ListDomains, DomainsLeft, DomainStep, Worker
<1>6. CASE w.step = "getStatus"
  <2>1. GetStatus
    BY <1>6, CallAt
  <2>2. w' = [w EXCEPT !.step = "putStatus",
                       !.ready = service[w.key] # NoService /\ service[w.key].ready]
    BY <1>1, <2>1 DEF GetStatus
  <2>3. w'.step = "putStatus" /\ w'.key = k /\ w'.fresh = w.fresh
    BY <1>0, <2>2 DEF Worker
  <2>4. w'.ready = (service[k] # NoService /\ service[k].ready)
    BY <1>0, <2>2 DEF Worker
  <2>5. w'.ready
    BY <2>4 DEF Serving
  <2> QED BY <1>2, <2>1, <2>3, <2>5 DEF GetStatus
<1>7. CASE w.step = "putStatus"
  <2>1. PutStatus /\ w.ready
    BY <1>7, CallAt DEF Serving
  <2>2. InPhase("Ready") = app[k]
    BY <1>0 DEF Serving, InPhase, AppObject
  <2>3. Written(InPhase("Ready")) \/ Errored(InPhase("Ready"))
    BY <2>1 DEF PutStatus
  <2>4. app' = app /\ stale' = stale
    BY <1>0, <2>2, <2>3, WriteSame
  <2> QED BY <1>2, <2>1, <2>4 DEF PutStatus, Requeue
<1> QED BY <1>3, <1>4, <1>5, <1>6, <1>7 DEF Serving

\* The same of an app without a Tenant, whose phase Failed is written again.
LEMMA UnservedCall ==
  ASSUME IInv, ObjectWrites \/ OtherWork, NEW k \in Apps, w.key = k, Settled(k),
         Unserved(k), faults' = faults
  PROVE  Settled(k)' /\ SameApp(k)
<1> USE DEF IInv
<1>0. /\ w.step # "idle" /\ w.fresh /\ w.mem = app[k] /\ w \in Worker
      /\ w.mem \in AppObject /\ w.key \in Apps /\ k \notin stale
  BY AtWork, ObjectWrite, WorkMove DEF Settled, WorkInv
<1>1. ~Fault
  BY BoundsAssumption DEF Fault, TypeOK
<1>2. ASSUME UNCHANGED <<app, stale, service, mapping, tenantKnown>>,
             \/ w' = Idle
             \/ w'.key = k /\ w'.fresh = w.fresh /\ w'.step = "setFailed"
      PROVE  Settled(k)' /\ SameApp(k)
  <2>1. Owned(k)' = Owned(k)
    BY <1>2 DEF Owned
  <2>2. Idle.key # k
    BY NoneAssumption DEF Idle
  <2> QED BY <1>0, <1>2, <2>1, <2>2 DEF Settled, Unserved, Alive, Exists, SameApp
<1>3. CASE w.step = "tenant"
  <2>1. CheckTenant /\ ~tenantKnown
    BY <1>3, CallAt DEF Unserved
  <2>2. GoTo("setFailed")
    BY <1>1, <2>1 DEF CheckTenant
  <2> QED BY <1>0, <1>2, <2>1, <2>2 DEF CheckTenant, GoTo, Worker
<1>4. CASE w.step = "setFailed"
  <2>1. SetFailed
    BY <1>4, CallAt
  <2>2. InPhase("Failed") = app[k]
    BY <1>0 DEF Unserved, InPhase, AppObject
  <2>3. app' = app /\ stale' = stale
    BY <1>0, <2>1, <2>2, WriteSame DEF SetFailed
  <2> QED BY <1>2, <2>1, <2>3 DEF SetFailed, Requeue
<1> QED BY <1>3, <1>4 DEF Unserved

\* The same of a paused app, whose Service is deleted again.
LEMMA RestingCall ==
  ASSUME IInv, ObjectWrites \/ OtherWork, NEW k \in Apps, w.key = k, Settled(k),
         Resting(k), faults' = faults
  PROVE  Settled(k)' /\ SameApp(k)
<1> USE DEF IInv
<1>0. /\ w.step # "idle" /\ w.fresh /\ w.mem = app[k] /\ w \in Worker
      /\ w.mem \in AppObject /\ w.key \in Apps /\ k \notin stale
  BY AtWork, ObjectWrite, WorkMove DEF Settled, WorkInv
<1>1. ~Fault
  BY BoundsAssumption DEF Fault, TypeOK
<1>2. ASSUME UNCHANGED <<app, stale, service, mapping, tenantKnown>>,
             \/ w' = Idle
             \/ w'.key = k /\ w'.fresh = w.fresh /\ w'.step = "pauseDelete"
      PROVE  Settled(k)' /\ SameApp(k)
  <2>1. Owned(k)' = Owned(k)
    BY <1>2 DEF Owned
  <2>2. Idle.key # k
    BY NoneAssumption DEF Idle
  <2> QED BY <1>0, <1>2, <2>1, <2>2 DEF Settled, Resting, Alive, Exists, SameApp
<1>3. CASE w.step = "pause"
  <2>1. SetPaused
    BY <1>3, CallAt
  <2>2. InPhase("Paused") = app[k]
    BY <1>0 DEF Resting, InPhase, AppObject
  <2>3. Written(InPhase("Paused")) \/ Errored(InPhase("Paused"))
    BY <2>1 DEF SetPaused, Update
  <2>4. app' = app /\ stale' = stale
    BY <1>0, <2>2, <2>3, WriteSame
  <2>5. \/ w' = Idle
        \/ w' = [w EXCEPT !.mem = InPhase("Paused"), !.step = "pauseDelete"]
    BY <2>1 DEF SetPaused, Update, Requeue
  <2> QED BY <1>0, <1>2, <2>1, <2>4, <2>5 DEF SetPaused, Worker
<1>4. CASE w.step = "pauseDelete"
  <2>1. PauseDelete
    BY <1>4, CallAt
  <2>2. service' = service
    BY <1>1, <2>1 DEF PauseDelete, DeleteService, Resting, TypeOK
  <2> QED BY <1>2, <2>1, <2>2 DEF PauseDelete, Done
<1> QED BY <1>3, <1>4 DEF Resting

\* A reconcile that starts on a settled app has the object as it is in hand.
LEMMA SettledPick ==
  ASSUME IInv, NEW k \in Apps, Settled(k), NEW j \in Apps, Pick(j)
  PROVE  Settled(k)' /\ SameApp(k)
<1> USE DEF IInv
<1>1. /\ SameApp(k) /\ service'[k] = service[k] /\ tenantKnown' = tenantKnown
      /\ stale' = stale
  BY DEF Pick, SameApp, Owned
<1>2. CASE w'.key # k
  BY <1>1, <1>2, SettledFrame
<1>3. CASE w'.key = k
  <2>1. j = k /\ cache[k] # NoApp
    BY <1>3, NoneAssumption DEF Pick, Idle
  <2>2. cache[k] = app[k] /\ app[k] \in AppObject /\ Exists(k) /\ k \notin stale
    BY <2>1 DEF Settled, CacheInv, TypeOK, Exists
  <2>3. w'.step = Stage(app[k]) /\ w'.fresh
    BY <2>1, <2>2 DEF Pick, Idle
  <2>4. CASE Serving(k)
    <3>1. Stage(app[k]) = "tenant"
      BY <2>2, <2>4 DEF Serving, Alive, Stage
    <3> QED BY <1>1, <2>2, <2>3, <2>4, <3>1 DEF Settled, Serving, Alive, Exists, SameApp
  <2>5. CASE Unserved(k)
    <3>1. Stage(app[k]) = "tenant"
      BY <2>2, <2>5 DEF Unserved, Alive, Stage
    <3> QED BY <1>1, <2>2, <2>3, <2>5, <3>1 DEF Settled, Unserved, Alive, Exists, SameApp
  <2>6. CASE Resting(k)
    <3>1. Stage(app[k]) = "pause"
      BY <2>2, <2>6 DEF Resting, Alive, Stage
    <3> QED BY <1>1, <2>2, <2>3, <2>6, <3>1 DEF Settled, Resting, Alive, Exists, SameApp
  <2>7. ~Gone(k)
    BY <2>2 DEF Gone
  <2> QED BY <2>4, <2>5, <2>6, <2>7 DEF Settled
<1> QED BY <1>2, <1>3

\* A user's write of an app changes it.
LEMMA UserChanges ==
  ASSUME TypeOK, NEW k \in Apps, UserWrites(k)
  PROVE  app'[k] # app[k]
<1>0. app[k] \in AppObject \cup {NoApp}
  BY DEF TypeOK
<1>1. CASE CreateApp(k)
  <2>1. PICK s \in Specs :
          app' = [app EXCEPT ![k] = [spec |-> s, finalizer |-> FALSE,
                                     deleting |-> FALSE, phase |-> ""]]
    BY <1>1 DEF CreateApp, WriteByUser
  <2>2. s \in AppSpec /\ "" \in Phases
    BY SpecsAssumption DEF Phases
  <2>3. [spec |-> s, finalizer |-> FALSE, deleting |-> FALSE, phase |-> ""]
          \in AppObject
    BY <2>2 DEF AppObject
  <2> QED BY <1>1, <2>1, <2>3, NoneAssumption DEF CreateApp, TypeOK
<1>2. CASE EditSpec(k)
  <2>1. PICK s \in Specs \ {app[k].spec} :
          app' = [app EXCEPT ![k] = [app[k] EXCEPT !.spec = s]]
    BY <1>2 DEF EditSpec, WriteByUser
  <2>2. app[k] \in AppObject
    BY <1>0, <1>2 DEF EditSpec
  <2>3. app'[k] = [app[k] EXCEPT !.spec = s]
    BY <2>1 DEF TypeOK
  <2>4. app'[k].spec = s
    BY <2>2, <2>3 DEF AppObject
  <2> QED BY <2>1, <2>4
<1>3. CASE DeleteApp(k)
  <2>1. app[k] \in AppObject /\ app[k] # NoApp /\ ~app[k].deleting
    BY <1>0, <1>3 DEF DeleteApp
  <2>2. app'[k] = NoApp \/ app'[k] = [app[k] EXCEPT !.deleting = TRUE]
    BY <1>3 DEF DeleteApp, WriteByUser, TypeOK
  <2>3. [app[k] EXCEPT !.deleting = TRUE].deleting
    BY <2>1 DEF AppObject
  <2> QED BY <2>1, <2>2, <2>3
<1> QED BY <1>1, <1>2, <1>3 DEF UserWrites

\* Knative has nothing new to report of a settled app.
LEMMA SettledReport ==
  ASSUME IInv, NEW k \in Apps, Settled(k), NEW j \in Apps, KnativeReports(j)
  PROVE  service'[k] = service[k] \/ Unserved(k)
<1> USE DEF IInv
<1>1. service[j] # NoService /\ service' = [service EXCEPT ![j] = Reported(@)]
  BY DEF KnativeReports
<1>2. CASE j = k /\ Serving(k)
  <2>1. service[k] \in Service
    BY <1>1, <1>2 DEF TypeOK
  <2>2. Reported(service[k]) = service[k]
    BY <1>2, <2>1 DEF Serving, Reported, Service
  <2> QED BY <1>1, <1>2, <2>2 DEF TypeOK
<1>3. CASE j # k
  BY <1>1, <1>3 DEF TypeOK
<1> QED BY <1>1, <1>2, <1>3 DEF Settled, Resting, Gone, Holds

\* Only its users and failing calls unsettle an app.
LEMMA SettledStep ==
  ASSUME IInv, [Next]_vars, NEW k \in Apps, Settled(k), faults' = faults,
         edits' # edits => app'[k] = app[k]
  PROVE  Settled(k)' /\ SameApp(k)
<1> USE DEF IInv
<1>0. ~Fault
  BY BoundsAssumption DEF Fault, TypeOK
<1>1. CASE (ObjectWrites \/ OtherWork) /\ w.key = k
  <2>1. ~Gone(k)
    BY <1>1 DEF Gone
  <2> QED BY <1>1, <2>1, ServingCall, UnservedCall, RestingCall DEF Settled
<1>2. CASE (ObjectWrites \/ OtherWork) /\ w.key # k
  BY <1>2, WorkElsewhere, SettledFrame
<1>3. ASSUME NEW j \in Apps, Pick(j) PROVE Settled(k)' /\ SameApp(k)
  BY <1>3, SettledPick
<1>4. ASSUME NEW j \in Apps, UserWrites(j) PROVE Settled(k)' /\ SameApp(k)
  <2>1. app'[k] = app[k] /\ j # k
    BY <1>4, EditsCount, UserChanges
  <2>2. PICK new : WriteByUser(j, new)
    BY <1>4 DEF UserWrites, CreateApp, EditSpec, DeleteApp
  <2>3. /\ UNCHANGED <<service, mapping, tenantKnown>> /\ stale' = stale \cup {j}
        /\ w' = IF w.key = j THEN [w EXCEPT !.fresh = FALSE] ELSE w
    BY <2>2 DEF WriteByUser
  <2>4. w'.key = w.key /\ (w.key = k => w' = w)
    BY <2>1, <2>3 DEF WorkerOK, Worker
  <2>5. SameApp(k)
    BY <2>1, <2>3 DEF SameApp, Owned
  <2> QED BY <2>1, <2>3, <2>4, <2>5, SettledFrame
<1>5. ASSUME NEW j \in Apps, Background(j) PROVE Settled(k)' /\ SameApp(k)
  <2>1. /\ UNCHANGED <<app, mapping, tenantKnown, w>> /\ stale' \subseteq stale
    BY <1>5 DEF Background, CacheSync, TimerFire, Resync, KnativeReports
  <2>2. service'[k] = service[k] \/ Unserved(k)
    BY <1>5, SettledReport DEF Background, CacheSync, TimerFire, Resync
  <2>3. SameApp(k)
    BY <2>1 DEF SameApp, Owned
  <2> QED BY <2>1, <2>2, <2>3, SettledFrame
<1>6. CASE UNCHANGED vars
  BY <1>6, SettledFrame DEF vars, SameApp, Owned
<1>7. ~Restart /\ ~TenantChange
  BY <1>0 DEF Restart, TenantChange
<1> QED BY <1>1, <1>2, <1>3, <1>4, <1>5, <1>6, <1>7, NextCases

\* The stable half of Convergence, which TLC checks: no schedule of reconciles,
\* watch events and reports unsettles an app without a user or a fault.
THEOREM SettledStaysSafe == Spec => SettledStays
<1> DEFINE Stays == \A k \in Apps :
             Settled(k) /\ faults' = faults /\ (edits' # edits => app'[k] = app[k])
               => Settled(k)' /\ app'[k] = app[k] /\ Owned(k)' = Owned(k)
<1>1. IInv /\ [Next]_vars => [Stays]_vars
  BY SettledStep DEF SameApp
<1> QED BY <1>1, Invariance, PTL DEF Spec, SettledStays

\* A settled app has converged, so SettledStays is about the right states.
THEOREM SettledIsConverged == Spec => [](\A k \in Apps : Settled(k) => Converged(k))
<1>1. ASSUME NEW k \in Apps, Settled(k) PROVE Converged(k)
  BY <1>1 DEF Settled, Serving, Unserved, Resting, Gone, Alive, Converged
<1>2. \A k \in Apps : Settled(k) => Converged(k)
  BY <1>1
<1> QED BY <1>2, PTL

-----------------------------------------------------------------------------
(* Every reconcile ends *)

\* A call of a reconcile moves it on.
LEMMA CallEnds ==
  ASSUME TypeOK, WorkerOK, WorkInv, Work
  PROVE  \/ w'.step = "idle"
         \/ CallOrder[w.step] < CallOrder[w'.step]
         \/ /\ w'.step = w.step
            /\ w'.drop \subseteq w.drop /\ w'.add \subseteq w.add
            /\ <<w'.drop, w'.add>> # <<w.drop, w.add>>
<1> DEFINE Later == CallOrder[w.step] < CallOrder[w'.step]
           Less == /\ w'.step = w.step
                   /\ w'.drop \subseteq w.drop /\ w'.add \subseteq w.add
                   /\ <<w'.drop, w'.add>> # <<w.drop, w.add>>
<1>0. w.step # "idle" /\ w \in Worker /\ w.mem \in AppObject /\ w.key \in Apps
  <2>1. ObjectWrites \/ OtherWork
    BY DEF Work, ObjectWrites, OtherWork
  <2> QED BY <2>1, WorkMove, AtWork
<1>1. ASSUME w' = Idle PROVE w'.step = "idle"
  BY <1>1 DEF Idle
<1>2. ASSUME NEW new, Continue(new) PROVE w'.step = Stage(new)
  BY <1>0, <1>2 DEF Continue, Worker
<1>3. CASE AddFinalizer
  <2> DEFINE new == [w.mem EXCEPT !.finalizer = TRUE]
  <2>1. w.step = "finalizer" /\ (w' = Idle \/ Continue(new))
    BY <1>3 DEF AddFinalizer, WriteThenContinue, Update, Requeue
  <2>2. new \in AppObject /\ ~new.deleting /\ new.finalizer
    BY <1>0, <2>1 DEF WorkInv, AppObject
  <2> HIDE DEF new
  <2>3. Stage(new) \in {"pending", "pause", "deploying", "tenant"}
    BY <2>2, StageFacts
  <2>4. CallOrder["finalizer"] < CallOrder[Stage(new)]
    BY <2>3 DEF CallOrder
  <2> QED BY <1>1, <1>2, <2>1, <2>4
<1>4. CASE SetPending \/ SetDeploying
  <2>1. PICK p \in {"Pending", "Deploying"} :
          /\ w.step = IF p = "Pending" THEN "pending" ELSE "deploying"
          /\ w' = Idle \/ Continue(InPhase(p))
    BY <1>4 DEF SetPending, SetDeploying, WriteThenContinue, Update, Requeue
  <2>2. /\ InPhase(p) \in AppObject /\ InPhase(p).phase = p
        /\ ~InPhase(p).deleting /\ InPhase(p).finalizer
    <3>1. w.step \in GuardedSteps /\ p \in Phases
      BY <2>1 DEF GuardedSteps, Phases
    <3> QED BY <1>0, <3>1, InPhaseType DEF WorkInv, InPhase, AppObject
  <2>3. Stage(InPhase(p)) \in {"pause", "tenant"}
                                \cup (IF p = "Pending" THEN {"deploying"} ELSE {})
    BY <2>2 DEF Stage
  <2>4. CallOrder[w.step] < CallOrder[Stage(InPhase(p))]
    BY <2>1, <2>3 DEF CallOrder
  <2> QED BY <1>1, <1>2, <2>1, <2>4
<1>5. CASE SetPaused
  <2>1. /\ w.step = "pause"
        /\ \/ w' = Idle
           \/ w' = [w EXCEPT !.mem = InPhase("Paused"), !.step = "pauseDelete"]
    BY <1>5 DEF SetPaused, Update, Requeue
  <2>2. w' # Idle => w'.step = "pauseDelete"
    BY <1>0, <2>1 DEF Worker
  <2> QED BY <1>1, <2>1, <2>2 DEF CallOrder
<1>6. CASE PauseDelete \/ PutStatus \/ SetFailed \/ RemoveFinalizer
  BY <1>1, <1>6 DEF PauseDelete, PutStatus, SetFailed, RemoveFinalizer, Update,
                    Requeue, Done
<1>7. CASE CheckTenant \/ DeployService \/ DeletionService
  <2>1. \/ w' = Idle
        \/ w.step = "tenant" /\ (GoTo("knative") \/ GoTo("setFailed"))
        \/ w.step = "knative" /\ (GoTo("domainList") \/ GoTo("setFailed"))
        \/ w.step = "deletionKnative" /\ GoTo("removeFinalizer")
    BY <1>7 DEF CheckTenant, DeployService, DeletionService, Requeue
  <2>2. \/ w' = Idle
        \/ w.step = "tenant" /\ w'.step \in {"knative", "setFailed"}
        \/ w.step = "knative" /\ w'.step \in {"domainList", "setFailed"}
        \/ w.step = "deletionKnative" /\ w'.step = "removeFinalizer"
    BY <1>0, <2>1 DEF GoTo, Worker
  <2> QED BY <1>1, <2>2 DEF CallOrder
<1>8. CASE ListDomains \/ GetStatus
  <2>1. \/ /\ w.step = "domainList"
           /\ w'.step \in {"setFailed", "domainDelete", "domainCreate", "getStatus"}
        \/ w.step = "getStatus" /\ w'.step = "putStatus"
    BY <1>0, <1>8 DEF ListDomains, GetStatus, GoTo, DomainsLeft, DomainStep, Worker
  <2> QED BY <2>1 DEF CallOrder
<1>9. CASE DeleteDomain
  <2>1. w.step = "domainDelete" /\ \E h \in w.drop :
          GoTo("setFailed") \/ DomainsLeft(w.drop \ {h}, w.add)
    BY <1>9 DEF DeleteDomain
  <2>2. PICK h \in w.drop : GoTo("setFailed") \/ DomainsLeft(w.drop \ {h}, w.add)
    BY <2>1
  <2>3. \/ w'.step \in {"setFailed", "domainCreate", "getStatus"}
        \/ /\ w'.step = "domainDelete"
           /\ w'.drop = w.drop \ {h} /\ w'.add = w.add
    BY <1>0, <2>2 DEF GoTo, DomainsLeft, DomainStep, Worker
  <2>4. CASE w'.step \in {"setFailed", "domainCreate", "getStatus"}
    BY <2>1, <2>4 DEF CallOrder
  <2>5. CASE w'.step = "domainDelete" /\ w'.drop = w.drop \ {h} /\ w'.add = w.add
    BY <2>1, <2>2, <2>5
  <2> QED BY <2>3, <2>4, <2>5
<1>10. CASE CreateDomain
  <2>1. w.step = "domainCreate" /\ \E h \in w.add :
          GoTo("setFailed") \/ DomainsLeft({}, w.add \ {h})
    BY <1>10 DEF CreateDomain
  <2>2. PICK h \in w.add : GoTo("setFailed") \/ DomainsLeft({}, w.add \ {h})
    BY <2>1
  <2>3. \/ w'.step \in {"setFailed", "getStatus"}
        \/ /\ w'.step = "domainCreate"
           /\ w'.drop = {} /\ w'.add = w.add \ {h}
    BY <1>0, <2>2 DEF GoTo, DomainsLeft, DomainStep, Worker
  <2>4. CASE w'.step \in {"setFailed", "getStatus"}
    BY <2>1, <2>4 DEF CallOrder
  <2>5. CASE w'.step = "domainCreate" /\ w'.drop = {} /\ w'.add = w.add \ {h}
    BY <2>1, <2>2, <2>5
  <2> QED BY <2>3, <2>4, <2>5
<1>11. CASE ListForDeletion
  <2>1. /\ w.step = "deletionList"
        /\ w'.step \in {"deletionKnative", "deletionDomain"}
    BY <1>0, <1>11 DEF ListForDeletion, GoTo, Worker
  <2> QED BY <2>1 DEF CallOrder
<1>12. CASE DeletionDomain
  <2>1. w.step = "deletionDomain" /\ \E h \in w.drop :
          \/ w' = [w EXCEPT !.drop = @ \ {h},
                            !.step = IF w.drop = {h} THEN "deletionKnative"
                                     ELSE "deletionDomain"]
          \/ GoTo("deletionKnative")
    BY <1>12 DEF DeletionDomain
  <2>2. PICK h \in w.drop :
          \/ w' = [w EXCEPT !.drop = @ \ {h},
                            !.step = IF w.drop = {h} THEN "deletionKnative"
                                     ELSE "deletionDomain"]
          \/ GoTo("deletionKnative")
    BY <2>1
  <2>3. \/ w'.step = "deletionKnative"
        \/ /\ w'.step = "deletionDomain"
           /\ w'.drop = w.drop \ {h} /\ w'.add = w.add
    BY <1>0, <2>2 DEF GoTo, Worker
  <2>4. CASE w'.step = "deletionKnative"
    BY <2>1, <2>4 DEF CallOrder
  <2>5. CASE w'.step = "deletionDomain" /\ w'.drop = w.drop \ {h} /\ w'.add = w.add
    BY <2>1, <2>2, <2>5
  <2> QED BY <2>3, <2>4, <2>5
<1> QED
  BY <1>3, <1>4, <1>5, <1>6, <1>7, <1>8, <1>9, <1>10, <1>11, <1>12 DEF Work

\* Every call of Reconcile ends it or leaves less of it to do.
THEOREM ReconcileEndsSafe == Spec => ReconcileEnds
<1> DEFINE Ends == Work =>
             \/ w'.step = "idle"
             \/ CallOrder[w.step] < CallOrder[w'.step]
             \/ /\ w'.step = w.step
                /\ w'.drop \subseteq w.drop /\ w'.add \subseteq w.add
                /\ <<w'.drop, w'.add>> # <<w.drop, w.add>>
<1>1. IInv /\ [Next]_vars => [Ends]_vars
  BY CallEnds DEF IInv
<1> QED BY <1>1, Invariance, PTL DEF Spec, ReconcileEnds

\* The loop of reconcileDelete over the app's hosts.
DeletionLoop == w.step = "deletionDomain" => w.drop # {}

\* It is entered with something to delete, and left with the last of it.
LEMMA DeletionLoopStep ==
  ASSUME TypeOK, WorkerOK, DeletionLoop, [Next]_vars
  PROVE  DeletionLoop'
<1>1. ASSUME w' = Idle PROVE DeletionLoop'
  BY <1>1 DEF DeletionLoop, Idle
<1>2. ASSUME w'.step = w.step, w'.drop = w.drop PROVE DeletionLoop'
  BY <1>2 DEF DeletionLoop
<1>3. CASE ObjectWrites
  <2>1. w \in Worker
    BY <1>3, ObjectWrite, AtWork
  <2>2. w' = Idle \/ w'.step = "pauseDelete" \/ \E m \in AppObject : w'.step = Stage(m)
    BY <1>3, <2>1, WriteMove DEF Worker
  <2> QED BY <1>1, <2>2, StageFacts DEF DeletionLoop
<1>4. CASE OtherWork
  <2>0. w \in Worker
    BY <1>4, WorkMove, AtWork
  <2>1. CASE ListForDeletion
    BY <2>0, <2>1 DEF ListForDeletion, GoTo, Worker, DeletionLoop
  <2>2. CASE DeletionDomain
    <3>1. PICK h \in w.drop :
            \/ w' = [w EXCEPT !.drop = @ \ {h},
                              !.step = IF w.drop = {h} THEN "deletionKnative"
                                       ELSE "deletionDomain"]
            \/ GoTo("deletionKnative")
      BY <2>2 DEF DeletionDomain
    <3>2. \/ w'.step = "deletionKnative"
          \/ w.drop # {h} /\ w'.drop = w.drop \ {h}
      BY <2>0, <3>1 DEF GoTo, Worker
    <3> QED BY <3>2 DEF DeletionLoop
  <2>3. CASE PauseDelete \/ CheckTenant \/ DeployService \/ DeletionService
    BY <1>1, <2>0, <2>3
    DEF PauseDelete, Done, CheckTenant, DeployService, DeletionService, Requeue,
        GoTo, Worker, DeletionLoop
  <2>4. CASE ListDomains \/ DeleteDomain \/ CreateDomain \/ GetStatus
    <3>1. \/ w'.step \in {"setFailed", "putStatus"}
          \/ \E d, a : w'.step = DomainStep(d, a)
      <4>1. \/ GoTo("setFailed") \/ \E d, a : DomainsLeft(d, a)
            \/ \E r : w' = [w EXCEPT !.step = "putStatus", !.ready = r]
        BY <2>4 DEF ListDomains, DeleteDomain, CreateDomain, GetStatus
      <4>2. ASSUME NEW d, NEW a, DomainsLeft(d, a) PROVE w'.step = DomainStep(d, a)
        BY <2>0, <4>2 DEF DomainsLeft, Worker
      <4> QED BY <2>0, <4>1, <4>2 DEF GoTo, Worker
    <3> QED BY <3>1 DEF DomainStep, DeletionLoop
  <2> QED BY <1>4, <2>1, <2>2, <2>3, <2>4 DEF OtherWork
<1>5. ASSUME NEW k \in Apps, Pick(k) PROVE DeletionLoop'
  <2>1. w' = Idle \/ (cache[k] # NoApp /\ w'.step = Stage(cache[k]))
    BY <1>5 DEF Pick, Idle
  <2>2. cache[k] # NoApp => cache[k] \in AppObject
    BY DEF TypeOK
  <2> QED BY <1>1, <2>1, <2>2, StageFacts DEF DeletionLoop
<1>6. ASSUME NEW k \in Apps, UserWrites(k) PROVE DeletionLoop'
  <2>1. PICK new : WriteByUser(k, new)
    BY <1>6 DEF UserWrites, CreateApp, EditSpec, DeleteApp
  <2> QED BY <1>2, <2>1 DEF WriteByUser, WorkerOK, Worker
<1>7. CASE Restart
  BY <1>1, <1>7 DEF Restart
<1>8. CASE \/ TenantChange \/ UNCHANGED vars \/ \E k \in Apps : Background(k)
  BY <1>2, <1>8 DEF TenantChange, vars, Background, CacheSync, TimerFire, Resync,
                    KnativeReports
<1> QED BY <1>3, <1>4, <1>5, <1>6, <1>7, <1>8, NextCases

\* No reconcile is ever left in a loop without an element: it can go on.
THEOREM LoopsNotEmptySafe == Spec => []LoopsNotEmpty
<1>1. Init => DeletionLoop
  BY DEF Init, Idle, DeletionLoop
<1>2. IInv /\ DeletionLoop /\ [Next]_vars => DeletionLoop'
  BY DeletionLoopStep DEF IInv
<1>3. ImageInv /\ LeftInv /\ DeletionLoop => LoopsNotEmpty
  BY DEF LeftInv, DomainCalls, DomainStep, DeletionLoop, LoopsNotEmpty
<1> QED BY <1>1, <1>2, <1>3, Invariance, DoneInvariance, PTL DEF Spec
=============================================================================
