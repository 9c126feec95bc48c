---------------------------- MODULE AppController ----------------------------
(***************************************************************************)
(* The App controller of the operator: AppReconciler.Reconcile             *)
(* (operator/controller/app_controller.go) with the Knative and domain     *)
(* reconcilers it calls (operator/reconciler/knative.go, domain.go), the   *)
(* controller-runtime work queue and informer cache it runs on, and the    *)
(* actors it races with: users editing App objects, Knative reporting on   *)
(* Services, faults of the Kubernetes API and operator restarts.           *)
(*                                                                         *)
(* One worker runs Reconcile.  Each call it makes to the Kubernetes API is *)
(* one step, so that everyone else can act between two calls and every     *)
(* call can fail, before or after the server applied it.                   *)
(*                                                                         *)
(* Resource versions are not numbers.  An update succeeds exactly when     *)
(* nobody wrote the object since it was read: w.fresh says that of the     *)
(* worker's copy, stale of the informer's.                                  *)
(***************************************************************************)
EXTENDS Naturals, FiniteSets

CONSTANTS
  Apps,       \* names of the apps of one namespace
  Images,     \* stands for all of the spec that ends up in the Knative template
  Hosts,      \* custom domain names
  Specs,      \* the specs that users write
  NoApp, NoService, NoImage, Nobody,
  MaxEdits,   \* bound on the steps of users (create, edit, delete an App)
  MaxFaults   \* bound on failing calls, restarts and changes of the Tenant

AppSpec == [image : Images, paused : BOOLEAN, hosts : SUBSET Hosts]

ASSUME SpecsAssumption == Specs \subseteq AppSpec

ASSUME BoundsAssumption == MaxEdits \in Nat /\ MaxFaults \in Nat

Phases == {"", "Pending", "Deploying", "Ready", "Failed", "Paused"}

AppObject ==
  [spec : AppSpec, finalizer : BOOLEAN, deleting : BOOLEAN, phase : Phases]

\* seen: the image Knative's status speaks of; it lags behind image.
Service == [image : Images, seen : Images \cup {NoImage}, ready : BOOLEAN]

ASSUME NoneAssumption ==
  /\ NoApp \notin AppObject
  /\ NoService \notin Service
  /\ NoImage \notin Images
  /\ Nobody \notin Apps

VARIABLES
  app,          \* app[k]: the App object in the API server, or NoApp
  cache,        \* cache[k]: the informer's copy of it, which r.Get reads
  stale,        \* keys whose object was written since that copy was taken
  service,      \* service[k]: the Knative Service named k, or NoService
  mapping,      \* mapping[h]: the app label of DomainMapping h, or Nobody
  tenantKnown,  \* does the operator's cache hold the apps' Tenant?
  queue,        \* keys in the work queue
  delayed,      \* keys waiting for RequeueAfter or for the error back-off
  w,            \* the worker: its place in Reconcile and its local variables
  lost,         \* history: apps for which a failed delete was only logged
  edits, faults \* what is used of MaxEdits and MaxFaults

vars == <<app, cache, stale, service, mapping, tenantKnown, queue,
          delayed, w, lost, edits, faults>>

-----------------------------------------------------------------------------
(* The worker's local state.  Every step name is the call about to be made. *)

DeploySteps == {"tenant", "knative", "domainList", "domainDelete",
                "domainCreate", "getStatus", "putStatus", "setFailed"}
DeletionSteps == {"deletionList", "deletionDomain", "deletionKnative",
                  "removeFinalizer"}
Steps == {"idle", "finalizer", "pending", "pause", "pauseDelete", "deploying"}
           \cup DeploySteps \cup DeletionSteps

Worker == [step : Steps, key : Apps \cup {Nobody}, mem : AppObject \cup {NoApp},
           fresh : BOOLEAN, drop : SUBSET Hosts, add : SUBSET Hosts,
           ready : BOOLEAN]

Idle == [step |-> "idle", key |-> Nobody, mem |-> NoApp, fresh |-> FALSE,
         drop |-> {}, add |-> {}, ready |-> FALSE]

\* Mistakes: the definitions called "Mistake..." are not used by the model.  Each
\* is a plausible bug of the definition after it, and shows that a property
\* notices the bug when it takes that definition's place.

\* No finalizer is ever added.
MistakeStage(m) ==
  CASE m.deleting -> "deletionList"
    [] ~m.deleting /\ m.phase = "" -> "pending"
    [] ~m.deleting /\ m.phase # "" /\ m.spec.paused -> "pause"
    [] ~m.deleting /\ m.phase = "Pending" /\ ~m.spec.paused -> "deploying"
    [] OTHER -> "tenant"

\* The first call that Reconcile makes for the version m of the object.  Every
\* status or finalizer write makes its own condition false, so the same order
\* of tests gives the call that follows it.
Stage(m) ==
  CASE m.deleting -> "deletionList"
    [] ~m.deleting /\ ~m.finalizer -> "finalizer"
    [] ~m.deleting /\ m.finalizer /\ m.phase = "" -> "pending"
    [] ~m.deleting /\ m.finalizer /\ m.phase # "" /\ m.spec.paused -> "pause"
    [] ~m.deleting /\ m.finalizer /\ m.phase = "Pending" /\ ~m.spec.paused
         -> "deploying"
    [] OTHER -> "tenant"

\* The list of mappings is not restricted to the app's label.
MistakeOwned(k) == {h \in Hosts : mapping[h] # Nobody}

Owned(k) == {h \in Hosts : mapping[h] = k}

Init ==
  /\ app = [k \in Apps |-> NoApp]
  /\ cache = app
  /\ service = [k \in Apps |-> NoService]
  /\ mapping = [h \in Hosts |-> Nobody]
  /\ tenantKnown \in BOOLEAN
  /\ stale = {} /\ queue = {} /\ delayed = {} /\ lost = {}
  /\ w = Idle
  /\ edits = 0 /\ faults = 0

-----------------------------------------------------------------------------
(* How a call and how a reconcile can end *)

Fault == faults < MaxFaults /\ faults' = faults + 1
NoFault == UNCHANGED faults

GoTo(s) == w' = [w EXCEPT !.step = s] /\ UNCHANGED delayed

\* return ctrl.Result{}, nil
Done == w' = Idle /\ UNCHANGED delayed

\* The result of the reconcile is dropped.
MistakeRequeue == w' = Idle /\ UNCHANGED delayed

\* An error, or a RequeueAfter: the key comes back after some time.
Requeue == w' = Idle /\ delayed' = delayed \cup {w.key}

\* The effect of r.Update / r.Status().Update in the server.  Writing what is
\* already there changes no resource version.
Store(new) ==
  /\ app' = [app EXCEPT ![w.key] = new]
  /\ stale' = stale \cup {k \in {w.key} : new # app[k]}

\* The update carries no resource version.
MistakeWritten(new) == Store(new) /\ NoFault

Written(new) == w.fresh /\ Store(new) /\ NoFault

\* A conflict (or NotFound) when the copy is old, or a fault of the call; a
\* call that failed may have been applied all the same.
Errored(new) ==
  \/ ~w.fresh /\ UNCHANGED <<app, stale>> /\ NoFault
  \/ Fault /\ UNCHANGED <<app, stale>>
  \/ Fault /\ w.fresh /\ Store(new)

\* err := Update(...); if err != nil { return err }; otherwise the rest.
Update(new, rest) ==
  \/ Written(new) /\ rest
  \/ Errored(new) /\ Requeue

Continue(new) ==
  /\ w' = [w EXCEPT !.mem = new, !.step = Stage(new)]
  /\ UNCHANGED delayed

InPhase(p) == [w.mem EXCEPT !.phase = p]

-----------------------------------------------------------------------------
(* Reconcile: reading the object, finalizer, phases *)

\* r.Get from the cache; NotFound ends the reconcile.
Pick(k) ==
  /\ w.step = "idle" /\ k \in queue
  /\ queue' = queue \ {k}
  /\ w' = IF cache[k] = NoApp THEN Idle
          ELSE [Idle EXCEPT !.step = Stage(cache[k]), !.key = k,
                            !.mem = cache[k], !.fresh = k \notin stale]
  /\ UNCHANGED <<app, cache, stale, service, mapping, tenantKnown,
                 delayed, lost, edits, faults>>

\* The three writes of Reconcile that come before any other resource, each
\* followed by the next test on the object the server answers with.
WriteThenContinue(step, new) ==
  /\ w.step = step
  /\ Update(new, Continue(new))
  /\ UNCHANGED <<cache, service, mapping, tenantKnown, queue, lost, edits>>

AddFinalizer == WriteThenContinue("finalizer", [w.mem EXCEPT !.finalizer = TRUE])
SetPending == WriteThenContinue("pending", InPhase("Pending"))
SetDeploying == WriteThenContinue("deploying", InPhase("Deploying"))

SetPaused ==
  /\ w.step = "pause"
  /\ Update(InPhase("Paused"),
            /\ w' = [w EXCEPT !.mem = InPhase("Paused"), !.step = "pauseDelete"]
            /\ UNCHANGED delayed)
  /\ UNCHANGED <<cache, service, mapping, tenantKnown, queue, lost, edits>>

\* KnativeReconciler.Delete: whatever its outcome, the caller goes on; an
\* error is logged, and the Service may be deleted or not.
DeleteService ==
  \/ /\ service' = [service EXCEPT ![w.key] = NoService]
     /\ NoFault /\ UNCHANGED lost
  \/ /\ service' \in {service, [service EXCEPT ![w.key] = NoService]}
     /\ Fault /\ lost' = lost \cup {w.key}

PauseDelete ==
  /\ w.step = "pauseDelete"
  /\ DeleteService /\ Done
  /\ UNCHANGED <<app, cache, stale, mapping, tenantKnown, queue, edits>>

-----------------------------------------------------------------------------
(* Reconcile: deploying *)

CheckTenant ==
  /\ w.step = "tenant"
  /\ \/ tenantKnown /\ GoTo("knative") /\ NoFault
     \/ ~tenantKnown /\ GoTo("setFailed") /\ NoFault
     \/ Fault /\ Requeue
  /\ UNCHANGED <<app, cache, stale, service, mapping, tenantKnown, queue,
                 lost, edits>>

\* A Service without the app's image; one that is created once only; one that
\* is replaced on every reconcile, needed or not.
MistakeDeployedImage(s, image) ==
  IF s = NoService THEN [image |-> NoImage, seen |-> NoImage, ready |-> FALSE]
  ELSE [s EXCEPT !.image = image]

MistakeDeployedOnce(s, image) ==
  IF s = NoService THEN [image |-> image, seen |-> NoImage, ready |-> FALSE]
  ELSE s

MistakeDeployedAnew(s, image) == [image |-> image, seen |-> NoImage, ready |-> FALSE]

\* KnativeReconciler.Reconcile: create what is missing, leave what is equal,
\* replace the spec of what differs; the status stays until Knative rewrites it.
Deployed(s, image) ==
  IF s = NoService THEN [image |-> image, seen |-> NoImage, ready |-> FALSE]
  ELSE [s EXCEPT !.image = image]

DeployService ==
  LET new == [service EXCEPT ![w.key] = Deployed(@, w.mem.spec.image)]
  IN /\ w.step = "knative"
     /\ \/ service' = new /\ GoTo("domainList") /\ NoFault
        \/ service' \in {service, new} /\ GoTo("setFailed") /\ Fault
     /\ UNCHANGED <<app, cache, stale, mapping, tenantKnown, queue, lost,
                    edits>>

\* DomainReconciler.Reconcile: first every delete, then every create.
DomainStep(drop, add) ==
  IF drop # {} THEN "domainDelete"
  ELSE IF add # {} THEN "domainCreate" ELSE "getStatus"

DomainsLeft(drop, add) ==
  /\ w' = [w EXCEPT !.drop = drop, !.add = add, !.step = DomainStep(drop, add)]
  /\ UNCHANGED delayed

ListDomains ==
  LET wanted == w.mem.spec.hosts
  IN /\ w.step = "domainList"
     /\ \/ DomainsLeft(Owned(w.key) \ wanted, wanted \ Owned(w.key)) /\ NoFault
        \/ GoTo("setFailed") /\ Fault
     /\ UNCHANGED <<app, cache, stale, service, mapping, tenantKnown, queue,
                    lost, edits>>

DeleteDomain ==
  /\ w.step = "domainDelete"
  /\ \E h \in w.drop :
       LET new == [mapping EXCEPT ![h] = Nobody]
       IN \/ mapping' = new /\ DomainsLeft(w.drop \ {h}, w.add) /\ NoFault
          \/ mapping' \in {mapping, new} /\ GoTo("setFailed") /\ Fault
  /\ UNCHANGED <<app, cache, stale, service, tenantKnown, queue, lost, edits>>

\* A DomainMapping is named after its host: Create fails with AlreadyExists
\* when another app of the namespace has it.
CreateDomain ==
  /\ w.step = "domainCreate"
  /\ \E h \in w.add :
       LET new == [mapping EXCEPT ![h] = w.key]
       IN \/ /\ mapping[h] = Nobody
             /\ mapping' = new /\ DomainsLeft({}, w.add \ {h}) /\ NoFault
          \/ /\ mapping[h] # Nobody
             /\ UNCHANGED mapping /\ GoTo("setFailed") /\ NoFault
          \/ /\ mapping' \in {mapping} \cup {m \in {new} : mapping[h] = Nobody}
             /\ GoTo("setFailed") /\ Fault
  /\ UNCHANGED <<app, cache, stale, service, tenantKnown, queue, lost, edits>>

\* An error of GetStatus is logged and reads as not ready.  The Ready condition
\* is taken as it stands, whichever image it speaks of.
GetStatus ==
  /\ w.step = "getStatus"
  /\ \/ w' = [w EXCEPT !.step = "putStatus",
                       !.ready = service[w.key] # NoService /\ service[w.key].ready]
        /\ NoFault
     \/ w' = [w EXCEPT !.step = "putStatus", !.ready = FALSE] /\ Fault
  /\ UNCHANGED <<app, cache, stale, service, mapping, tenantKnown, queue,
                 delayed, lost, edits>>

\* RequeueAfter 10s or 5min on success, the error otherwise.
PutStatus ==
  LET new == InPhase(IF w.ready THEN "Ready" ELSE "Deploying")
  IN /\ w.step = "putStatus"
     /\ Written(new) \/ Errored(new)
     /\ Requeue
     /\ UNCHANGED <<cache, service, mapping, tenantKnown, queue, lost, edits>>

\* The error of the status update is only logged; the first error is returned.
SetFailed ==
  /\ w.step = "setFailed"
  /\ Written(InPhase("Failed")) \/ Errored(InPhase("Failed"))
  /\ Requeue
  /\ UNCHANGED <<cache, service, mapping, tenantKnown, queue, lost, edits>>

-----------------------------------------------------------------------------
(* reconcileDelete: errors of the two clean-ups are logged and passed over *)

ListForDeletion ==
  /\ w.step = "deletionList"
  /\ \/ /\ w' = [w EXCEPT !.drop = Owned(w.key),
                          !.step = IF Owned(w.key) = {} THEN "deletionKnative"
                                   ELSE "deletionDomain"]
        /\ NoFault /\ UNCHANGED <<delayed, lost>>
     \/ GoTo("deletionKnative") /\ Fault /\ lost' = lost \cup {w.key}
  /\ UNCHANGED <<app, cache, stale, service, mapping, tenantKnown, queue,
                 edits>>

DeletionDomain ==
  /\ w.step = "deletionDomain"
  /\ \E h \in w.drop :
       LET new == [mapping EXCEPT ![h] = Nobody]
       IN \/ /\ mapping' = new
             /\ w' = [w EXCEPT !.drop = @ \ {h},
                               !.step = IF w.drop = {h} THEN "deletionKnative"
                                        ELSE "deletionDomain"]
             /\ NoFault /\ UNCHANGED <<delayed, lost>>
          \/ /\ mapping' \in {mapping, new}
             /\ GoTo("deletionKnative") /\ Fault /\ lost' = lost \cup {w.key}
  /\ UNCHANGED <<app, cache, stale, service, tenantKnown, queue, edits>>

\* The Service is left to garbage collection, but nothing owns it.
MistakeDeletionService ==
  /\ w.step = "deletionKnative"
  /\ GoTo("removeFinalizer") /\ NoFault
  /\ UNCHANGED <<app, cache, stale, service, mapping, tenantKnown, queue, lost,
                 edits>>

DeletionService ==
  /\ w.step = "deletionKnative"
  /\ DeleteService /\ GoTo("removeFinalizer")
  /\ UNCHANGED <<app, cache, stale, mapping, tenantKnown, queue, edits>>

\* The API server drops a terminating object with its last finalizer.
RemoveFinalizer ==
  /\ w.step = "removeFinalizer"
  /\ Update(NoApp, Done)
  /\ UNCHANGED <<cache, service, mapping, tenantKnown, queue, lost, edits>>

Work ==
  \/ AddFinalizer \/ SetPending \/ SetPaused \/ PauseDelete \/ SetDeploying
  \/ CheckTenant \/ DeployService
  \/ ListDomains \/ DeleteDomain \/ CreateDomain
  \/ GetStatus \/ PutStatus \/ SetFailed
  \/ ListForDeletion \/ DeletionDomain \/ DeletionService \/ RemoveFinalizer

-----------------------------------------------------------------------------
(* The controller runtime *)

Enqueue(k) == queue' = queue \cup {k}

\* A watch event: the informer's copy catches up and the key is queued, also
\* for the controller's own writes (SetupWithManager filters no event).
CacheSync(k) ==
  /\ k \in stale
  /\ cache' = [cache EXCEPT ![k] = app[k]]
  /\ stale' = stale \ {k}
  /\ Enqueue(k)
  /\ UNCHANGED <<app, service, mapping, tenantKnown, delayed, w, lost, edits,
                 faults>>

TimerFire(k) ==
  /\ k \in delayed
  /\ delayed' = delayed \ {k}
  /\ Enqueue(k)
  /\ UNCHANGED <<app, cache, stale, service, mapping, tenantKnown, w, lost,
                 edits, faults>>

\* The informer's periodic resync, hours apart.
Resync(k) ==
  /\ cache[k] # NoApp /\ k \notin queue
  /\ Enqueue(k)
  /\ UNCHANGED <<app, cache, stale, service, mapping, tenantKnown, delayed,
                 w, lost, edits, faults>>

\* The operator dies at any point and starts again: queue, timers and local
\* variables are gone, the informer lists every App and queues it.
Restart ==
  /\ Fault
  /\ w' = Idle /\ delayed' = {}
  /\ cache' = app /\ stale' = {}
  /\ queue' = {k \in Apps : app[k] # NoApp}
  /\ UNCHANGED <<app, service, mapping, tenantKnown, lost, edits>>

-----------------------------------------------------------------------------
(* The environment *)

\* Somebody else wrote app[k]: every copy of it is out of date.
WriteByUser(k, new) ==
  /\ edits < MaxEdits /\ edits' = edits + 1
  /\ app' = [app EXCEPT ![k] = new]
  /\ stale' = stale \cup {k}
  /\ w' = IF w.key = k THEN [w EXCEPT !.fresh = FALSE] ELSE w
  /\ UNCHANGED <<cache, service, mapping, tenantKnown, queue, delayed, lost,
                 faults>>

CreateApp(k) ==
  /\ app[k] = NoApp
  /\ \E s \in Specs :
       WriteByUser(k, [spec |-> s, finalizer |-> FALSE, deleting |-> FALSE,
                       phase |-> ""])

\* The API server accepts spec changes of a terminating object too.
EditSpec(k) ==
  /\ app[k] # NoApp
  /\ \E s \in Specs \ {app[k].spec} :
       WriteByUser(k, [app[k] EXCEPT !.spec = s])

DeleteApp(k) ==
  /\ app[k] # NoApp /\ ~app[k].deleting
  /\ WriteByUser(k, IF app[k].finalizer THEN [app[k] EXCEPT !.deleting = TRUE]
                    ELSE NoApp)

\* The Tenant is created, or deleted under its apps.
TenantChange ==
  /\ Fault
  /\ tenantKnown' = ~tenantKnown
  /\ UNCHANGED <<app, cache, stale, service, mapping, queue, delayed, w,
                 lost, edits>>

\* Knative starts on a new image, and later reports it ready.
Reported(s) ==
  IF s.seen # s.image THEN [s EXCEPT !.seen = s.image, !.ready = FALSE]
  ELSE [s EXCEPT !.ready = TRUE]

KnativeReports(k) ==
  /\ service[k] # NoService
  /\ service' = [service EXCEPT ![k] = Reported(@)]
  /\ UNCHANGED <<app, cache, stale, mapping, tenantKnown, queue, delayed, w,
                 lost, edits, faults>>

Next ==
  \/ Work \/ Restart \/ TenantChange
  \/ \E k \in Apps :
       \/ Pick(k) \/ CacheSync(k) \/ TimerFire(k) \/ Resync(k)
       \/ CreateApp(k) \/ EditSpec(k) \/ DeleteApp(k) \/ KnativeReports(k)

Spec == Init /\ [][Next]_vars

\* The worker goroutine runs, the queue is first in first out (so a queued key
\* is not passed over for ever), watch events arrive, timers fire, Knative
\* works.  Nothing is assumed of users, faults, restarts and the resync.
Fairness ==
  /\ WF_vars(Work)
  /\ \A k \in Apps :
       /\ SF_vars(Pick(k))
       /\ WF_vars(CacheSync(k)) /\ WF_vars(TimerFire(k))
       /\ WF_vars(KnativeReports(k))

FairSpec == Spec /\ Fairness

-----------------------------------------------------------------------------
(* Properties *)

TypeOK ==
  /\ app \in [Apps -> AppObject \cup {NoApp}]
  /\ cache \in [Apps -> AppObject \cup {NoApp}]
  /\ service \in [Apps -> Service \cup {NoService}]
  /\ mapping \in [Hosts -> Apps \cup {Nobody}]
  /\ tenantKnown \in BOOLEAN
  /\ stale \subseteq Apps /\ queue \subseteq Apps
  /\ delayed \subseteq Apps /\ lost \subseteq Apps
  /\ w \in Worker
  /\ edits \in 0 .. MaxEdits /\ faults \in 0 .. MaxFaults

Exists(k) == app[k] # NoApp
Holds(k) == service[k] # NoService \/ \E h \in Hosts : mapping[h] = k

\* What an app has outside its App object exists only while the finalizer
\* holds the object, unless a delete call of the operator failed and the error
\* was only logged: no order of reconciles on old copies, user edits, failing
\* calls and restarts leaves a Service or a DomainMapping without an owner.
NoOrphans ==
  \A k \in Apps :
    Holds(k) /\ k \notin lost => Exists(k) /\ app[k].finalizer

\* Nothing in the runtime will bring k back to the worker (but the resync).
Quiet(k) == k \notin queue \cup delayed /\ w.key # k /\ k \notin stale

\* An app the operator has stopped looking at is one it is done with: gone, or
\* paused with its Service deleted.  Services are not watched, so every other
\* app must come back through an event, an error or RequeueAfter.
NeverForgotten ==
  \A k \in Apps :
    Quiet(k) /\ Exists(k) =>
      /\ app[k].spec.paused /\ app[k].phase = "Paused" /\ ~app[k].deleting
      /\ service[k] = NoService \/ k \in lost

\* app_types.go on Paused: "scaled to zero and not accepting traffic".  An app that
\* says so of itself, and that the operator has stopped looking at, has no Service.
PausedIsStopped ==
  \A k \in Apps :
    Quiet(k) /\ Exists(k) /\ app[k].phase = "Paused" => service[k] = NoService

\* A DomainMapping changes hands only through its owner: reconciles of one app
\* neither take nor delete the mapping of another app of the namespace.
HostsStayWithOwner ==
  [][\A h \in Hosts :
       mapping'[h] # mapping[h] =>
         /\ w.key \in {mapping[h], mapping'[h]}
         /\ Nobody \in {mapping[h], mapping'[h]}]_vars

\* What the App's spec asks for is there, and the phase says so.
Converged(k) ==
  IF ~Exists(k) THEN Holds(k) => k \in lost
  ELSE LET spec == app[k].spec
           phase == app[k].phase
       IN \/ /\ spec.paused /\ phase = "Paused"
             /\ service[k] = NoService \/ k \in lost
          \/ ~spec.paused /\ ~tenantKnown /\ phase = "Failed"
          \/ /\ ~spec.paused /\ tenantKnown
             /\ service[k] # NoService /\ service[k].image = spec.image
             /\ \/ phase = "Ready" /\ Owned(k) = spec.hosts
                \/ /\ phase = "Failed"
                   /\ \E h \in spec.hosts : mapping[h] \notin {k, Nobody}

\* Ready is said of what was done: whatever users wrote while the reconcile made
\* its calls, the object that becomes Ready is one whose image the Service has,
\* and whose hosts, and no others, are mapped to it.
ReadyIsDeployed ==
  [][\A k \in Apps :
       /\ Exists(k)' /\ app'[k].phase = "Ready"
       /\ Exists(k) => app[k].phase # "Ready"
       => /\ service[k] # NoService /\ service[k].image = app'[k].spec.image
          /\ Owned(k) = app'[k].spec.hosts]_vars

Alive(k) == Exists(k) /\ app[k].finalizer /\ ~app[k].deleting

\* What an app comes to rest in, with a reconcile of it on its way or not:
\* served, without a Tenant, paused, or gone.
Serving(k) ==
  /\ Alive(k) /\ ~app[k].spec.paused /\ tenantKnown
  /\ app[k].phase = "Ready" /\ Owned(k) = app[k].spec.hosts
  /\ service[k] # NoService /\ service[k].image = app[k].spec.image
  /\ service[k].seen = service[k].image /\ service[k].ready
  /\ w.key = k =>
       \/ w.step \in {"tenant", "knative", "domainList", "getStatus"}
       \/ w.step = "putStatus" /\ w.ready

Unserved(k) ==
  /\ Alive(k) /\ ~app[k].spec.paused /\ ~tenantKnown /\ app[k].phase = "Failed"
  /\ w.key = k => w.step \in {"tenant", "setFailed"}

Resting(k) ==
  /\ Alive(k) /\ app[k].spec.paused
  /\ app[k].phase = "Paused" /\ service[k] = NoService
  /\ w.key = k => w.step \in {"pause", "pauseDelete"}

Gone(k) == ~Exists(k) /\ ~Holds(k) /\ w.key # k

\* And nobody has an old copy of it.
Settled(k) ==
  /\ k \notin stale /\ (w.key = k => w.fresh)
  /\ Serving(k) \/ Unserved(k) \/ Resting(k) \/ Gone(k)

\* A reconcile of a settled app changes nothing, at none of its calls, and no
\* reconcile of another app, event or resync unsettles it: only its users and
\* failing calls do.  That is why an app that has converged stays so although
\* Reconcile writes the status of every app every few minutes.
SettledStays ==
  [][\A k \in Apps :
       Settled(k) /\ faults' = faults /\ (edits' # edits => app'[k] = app[k])
         => Settled(k)' /\ app'[k] = app[k] /\ Owned(k)' = Owned(k)]_vars

\* Once users stop editing and calls stop failing, every app converges, also
\* when its last reconcile was cut short, worked on an old copy, or lost the
\* race for a host that has since been released.
Convergence == \A k \in Apps : <>[]Converged(k)

\* An order of the calls that every reconcile follows.
CallOrder ==
  [finalizer |-> 1, pending |-> 2, deploying |-> 3, pause |-> 4, pauseDelete |-> 5,
   tenant |-> 6, knative |-> 7, domainList |-> 8, domainDelete |-> 9,
   domainCreate |-> 10, getStatus |-> 11, putStatus |-> 12, setFailed |-> 13,
   deletionList |-> 14, deletionDomain |-> 15, deletionKnative |-> 16,
   removeFinalizer |-> 17]

\* No reconcile occupies the worker for ever, whatever the others do meanwhile:
\* a call ends it, or is followed by a later one, or leaves less for the same
\* loop over hosts.
ReconcileEnds ==
  [][Work =>
       \/ w'.step = "idle"
       \/ CallOrder[w.step] < CallOrder[w'.step]
       \/ /\ w'.step = w.step
          /\ w'.drop \subseteq w.drop /\ w'.add \subseteq w.add
          /\ <<w'.drop, w'.add>> # <<w.drop, w.add>>]_vars

\* And none is stuck: a loop over hosts is left when there is none to go on
\* with.  Every other call can be made whatever the state.
LoopsNotEmpty ==
  /\ w.step \in {"domainDelete", "deletionDomain"} => w.drop # {}
  /\ w.step = "domainCreate" => w.add # {}

\* The controller implements the finalizer protocol.
StageOf(k) ==
  CASE ~Exists(k) -> "none"
    [] Exists(k) /\ ~app[k].finalizer -> "open"
    [] Exists(k) /\ app[k].finalizer /\ ~app[k].deleting -> "guarded"
    [] OTHER -> "closing"

Protocol == INSTANCE FinalizerProtocol
  WITH Objects <- Apps, stage <- [k \in Apps |-> StageOf(k)],
       holding <- {k \in Apps : Holds(k)}, abandoned <- lost

\* Every step of the controller and its environment is a step of the protocol:
\* resources are acquired only under the finalizer, and the object finishes
\* only when they are released or given up.
ImplementsProtocol == Protocol!Spec

Contract == INSTANCE CustomResource
  WITH Objects <- Apps, NoSpec <- NoApp, stage <- [k \in Apps |-> StageOf(k)],
       spec <- [k \in Apps |-> IF Exists(k) THEN app[k].spec ELSE NoApp]

\* A reconcile writes whole objects that it read some time ago.  All the same it
\* does to an App only what the operator may, and users only what a client may:
\* no reconcile undoes a spec that was written in the meantime, brings an App
\* back, or takes it away before its deletion was asked for.
KeepsContract ==
  /\ Contract!Init
  /\ [][IF edits' # edits THEN \E k \in Apps : Contract!ClientStep(k)
        ELSE \E k \in Apps : Contract!OperatorStep(k)]_(Contract!vars)
=============================================================================
