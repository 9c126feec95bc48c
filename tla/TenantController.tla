--------------------------- MODULE TenantController ---------------------------
(***************************************************************************)
(* The Tenant controller of the operator: TenantReconciler.Reconcile       *)
(* (operator/controller/tenant_controller.go) with the namespace, Capsule, *)
(* Cilium and quota reconcilers it calls, for one tenant.                  *)
(*                                                                         *)
(* What the operator reads through the informer cache (the Tenant, its     *)
(* Namespace, its ResourceQuota, the list of Apps) may be out of date;     *)
(* what it reads as unstructured objects (Capsule, Cilium) is read from    *)
(* the API server.  The apps of the tenant are reduced to the stages of    *)
(* FinalizerProtocol, which the App controller implements.                 *)
(***************************************************************************)
EXTENDS Naturals, FiniteSets

CONSTANTS
  Apps,        \* apps of the tenant
  Plans,       \* billing plans, which determine the quota
  Specs,       \* the specs that users write
  NoTenant, NoPlan,
  MaxEdits,    \* bound on the steps of users
  MaxFaults    \* bound on failing calls and restarts

Phases == {"", "Pending", "Active", "Deleting", "Failed"}

TenantSpec == [plan : Plans, isolated : BOOLEAN]

Tenant == [spec : TenantSpec, finalizer : BOOLEAN, deleting : BOOLEAN,
           phase : Phases]

ASSUME BoundsAssumption == MaxEdits \in Nat /\ MaxFaults \in Nat

ASSUME SpecsAssumption == Specs \subseteq TenantSpec

ASSUME NoneAssumption == NoTenant \notin Tenant /\ NoPlan \notin Plans

VARIABLES
  tenant,          \* the Tenant object in the API server, or NoTenant
  cache, stale,    \* the informer's copy; was the object written since?
  ns, nsSeen,      \* the namespace; does the informer hold it?
  capsule, policy, \* do the Capsule tenant and the Cilium policy exist?
  quota,           \* the plan that the ResourceQuota has, or NoPlan
  quotaSeen, quotaStale,  \* its informer: does it hold a quota; an old one?
  stage, appsSeen, \* the apps, as in FinalizerProtocol; those in the informer
  queued, delayed, \* is the tenant in the work queue; waiting for a timer?
  w,               \* the worker
  lost,            \* history: a clean-up was given up or skipped
  edits, faults    \* what is used of MaxEdits and MaxFaults

tenantVars == <<tenant, cache, stale>>
nsVars == <<ns, nsSeen>>
partVars == <<capsule, policy>>
quotaVars == <<quota, quotaSeen, quotaStale>>
appVars == <<stage, appsSeen>>

vars == <<tenant, cache, stale, ns, nsSeen, capsule, policy, quota, quotaSeen,
          quotaStale, stage, appsSeen, queued, delayed, w, lost, edits, faults>>

Steps == {"idle", "finalizer", "pending", "namespace", "capsule", "policy",
          "quota", "active", "setFailed", "deleting", "listApps", "deleteApps",
          "deletePolicy", "deleteCapsule", "deleteNamespace", "removeFinalizer"}

Worker == [step : Steps, mem : Tenant \cup {NoTenant}, fresh : BOOLEAN,
           drop : SUBSET Apps]

Idle == [step |-> "idle", mem |-> NoTenant, fresh |-> FALSE, drop |-> {}]

\* Definitions called "Mistake..." are plausible bugs of the definition that
\* follows them.  The model does not use them; they show what a property notices.

\* The first call that Reconcile makes for the version m of the object.
Stage(m) ==
  CASE m.deleting -> "deleting"
    [] ~m.deleting /\ ~m.finalizer -> "finalizer"
    [] ~m.deleting /\ m.finalizer /\ m.phase = "" -> "pending"
    [] OTHER -> "namespace"

Init ==
  /\ tenant = NoTenant /\ cache = NoTenant /\ stale = FALSE
  /\ ns = "none" /\ nsSeen = FALSE
  /\ capsule = FALSE /\ policy = FALSE
  /\ quota = NoPlan /\ quotaSeen = FALSE /\ quotaStale = FALSE
  /\ stage = [a \in Apps |-> "none"] /\ appsSeen = {}
  /\ queued = FALSE /\ delayed = FALSE
  /\ w = Idle
  /\ lost = FALSE
  /\ edits = 0 /\ faults = 0

-----------------------------------------------------------------------------
(* How a call and how a reconcile can end *)

Fault == faults < MaxFaults /\ faults' = faults + 1
NoFault == UNCHANGED faults

GoTo(s) == w' = [w EXCEPT !.step = s] /\ UNCHANGED delayed
Done == w' = Idle /\ UNCHANGED delayed

\* An error, or a RequeueAfter.
MistakeRequeue == w' = Idle /\ UNCHANGED delayed
Requeue == w' = Idle /\ delayed' = TRUE

Store(new) == tenant' = new /\ stale' = (stale \/ new # tenant)

\* A write that does not look at the version of the copy.
MistakeWritten(new) == Store(new) /\ NoFault

\* r.Update and r.Status().Update: refused when the copy is old.
Written(new) == w.fresh /\ Store(new) /\ NoFault

Errored(new) ==
  \/ ~w.fresh /\ UNCHANGED <<tenant, stale>> /\ NoFault
  \/ Fault /\ UNCHANGED <<tenant, stale>>
  \/ Fault /\ w.fresh /\ Store(new)

\* A write of the Tenant; its error ends the reconcile.
WriteTenant(from, new, rest) ==
  /\ w.step = from
  /\ \/ Written(new) /\ rest
     \/ Errored(new) /\ Requeue
  /\ UNCHANGED <<cache, nsVars, partVars, quotaVars, appVars, queued, lost, edits>>

\* A phase that the API does not know.
MistakeInPhase(p) ==
  [w.mem EXCEPT !.phase = IF p = "Deleting" THEN "Terminating" ELSE p]

InPhase(p) == [w.mem EXCEPT !.phase = p]

Continue(new) ==
  /\ w' = [w EXCEPT !.mem = new, !.step = Stage(new)]
  /\ UNCHANGED delayed

-----------------------------------------------------------------------------
(* Reconcile *)

Pick ==
  /\ w.step = "idle" /\ queued
  /\ queued' = FALSE
  /\ w' = IF cache = NoTenant THEN Idle
          ELSE [Idle EXCEPT !.step = Stage(cache), !.mem = cache, !.fresh = ~stale]
  /\ UNCHANGED <<tenantVars, nsVars, partVars, quotaVars, appVars, delayed, lost,
                 edits, faults>>

AddFinalizer ==
  LET new == [w.mem EXCEPT !.finalizer = TRUE]
  IN WriteTenant("finalizer", new, Continue(new))

SetPending == WriteTenant("pending", InPhase("Pending"), Continue(InPhase("Pending")))

\* NamespaceReconciler.Reconcile: what the cache shows has its labels; what it
\* does not show is created, and may exist.
EnsureNamespace ==
  /\ w.step = "namespace"
  /\ \/ nsSeen /\ UNCHANGED ns /\ GoTo("capsule") /\ NoFault
     \/ ~nsSeen /\ ns = "none" /\ ns' = "active" /\ GoTo("capsule") /\ NoFault
     \/ ~nsSeen /\ ns # "none" /\ UNCHANGED ns /\ GoTo("setFailed") /\ NoFault
     \/ /\ ns' \in IF ns = "none" /\ ~nsSeen THEN {ns, "active"} ELSE {ns}
        /\ GoTo("setFailed") /\ Fault
  /\ UNCHANGED <<tenantVars, nsSeen, partVars, quotaVars, appVars, queued, lost, edits>>

EnsureCapsule ==
  /\ w.step = "capsule"
  /\ \/ capsule' = TRUE /\ GoTo("policy") /\ NoFault
     \/ capsule' \in {capsule, TRUE} /\ GoTo("setFailed") /\ Fault
  /\ UNCHANGED <<tenantVars, nsVars, policy, quotaVars, appVars, queued, lost, edits>>

\* CiliumReconciler.Reconcile does nothing when isolation is off, also when a
\* policy exists.  Nothing new can be created in a terminating namespace.
EnsurePolicy ==
  LET possible == policy \/ ns = "active"
  IN /\ w.step = "policy"
     /\ \/ ~w.mem.spec.isolated /\ UNCHANGED policy /\ GoTo("quota") /\ NoFault
        \/ /\ w.mem.spec.isolated /\ possible
           /\ policy' = TRUE /\ GoTo("quota") /\ NoFault
        \/ /\ w.mem.spec.isolated /\ ~possible
           /\ UNCHANGED policy /\ GoTo("setFailed") /\ NoFault
        \/ /\ w.mem.spec.isolated
           /\ policy' \in {policy, policy \/ possible}
           /\ GoTo("setFailed") /\ Fault
     /\ UNCHANGED <<tenantVars, nsVars, capsule, quotaVars, appVars, queued, lost,
                    edits>>

\* Only what does not exist yet is written.
MistakeQuotaPossible == ~quotaSeen /\ quota = NoPlan /\ ns = "active"

\* Can the quota be written?  Get reads the cache; an update needs the latest
\* version of it, a create a live namespace without one.
QuotaPossible ==
  IF quotaSeen THEN quota # NoPlan /\ ~quotaStale
  ELSE quota = NoPlan /\ ns = "active"

EnsureQuota ==
  LET plan == w.mem.spec.plan
  IN /\ w.step = "quota"
     /\ \/ QuotaPossible /\ quota' = plan /\ GoTo("active") /\ NoFault
        \/ ~QuotaPossible /\ UNCHANGED quota /\ GoTo("setFailed") /\ NoFault
        \/ /\ quota' \in IF QuotaPossible THEN {quota, plan} ELSE {quota}
           /\ GoTo("setFailed") /\ Fault
     /\ quotaStale' = (quotaStale \/ quota' # quota)
     /\ UNCHANGED <<tenantVars, nsVars, partVars, quotaSeen, appVars, queued, lost,
                    edits>>

\* The apps are counted, then the status is written; RequeueAfter 5min.
SetActive == WriteTenant("active", InPhase("Active"), Requeue)

\* The error of the status update is only logged; the first error is returned.
SetFailed == WriteTenant("setFailed", InPhase("Failed"), Requeue)

-----------------------------------------------------------------------------
(* reconcileDelete *)

SetDeleting ==
  WriteTenant("deleting", InPhase("Deleting"),
              w' = [w EXCEPT !.mem = InPhase("Deleting"), !.step = "listApps"]
                /\ UNCHANGED delayed)

\* An error of the list is passed over: then no app is deleted.
ListApps ==
  /\ w.step = "listApps"
  /\ \/ /\ w' = [w EXCEPT !.drop = appsSeen,
                          !.step = IF appsSeen = {} THEN "deletePolicy"
                                   ELSE "deleteApps"]
        /\ UNCHANGED delayed /\ NoFault
     \/ GoTo("deletePolicy") /\ Fault
  /\ UNCHANGED <<tenantVars, nsVars, partVars, quotaVars, appVars, queued, lost,
                 edits>>

\* A request to delete an app: the object stays for as long as its finalizer.
AfterRequest(s) ==
  CASE s = "open" -> "none" [] s = "guarded" -> "closing" [] OTHER -> s

\* After the last of the listed apps, the tenant comes back in 5 seconds.
DeleteApps ==
  /\ w.step = "deleteApps"
  /\ \E a \in w.drop :
       LET new == [stage EXCEPT ![a] = AfterRequest(@)]
       IN \/ /\ stage' = new /\ NoFault
             /\ IF w.drop = {a} THEN Requeue
                ELSE w' = [w EXCEPT !.drop = @ \ {a}] /\ UNCHANGED delayed
          \/ stage' \in {stage, new} /\ Requeue /\ Fault
  /\ UNCHANGED <<tenantVars, nsVars, partVars, quotaVars, appsSeen, queued, lost,
                 edits>>

\* The errors of these three are only logged.  The policy goes with its
\* namespace; a Capsule tenant or a namespace that stays is lost.
DeletePolicy ==
  /\ w.step = "deletePolicy"
  /\ \/ policy' = FALSE /\ NoFault
     \/ policy' \in {policy, FALSE} /\ Fault
  /\ GoTo("deleteCapsule")
  /\ UNCHANGED <<tenantVars, nsVars, capsule, quotaVars, appVars, queued, lost, edits>>

\* The Capsule tenant is left behind.
MistakeDeleteCapsule ==
  /\ w.step = "deleteCapsule"
  /\ GoTo("deleteNamespace") /\ NoFault
  /\ UNCHANGED <<tenantVars, nsVars, partVars, quotaVars, appVars, queued, lost, edits>>

DeleteCapsule ==
  /\ w.step = "deleteCapsule"
  /\ \/ capsule' = FALSE /\ NoFault /\ UNCHANGED lost
     \/ capsule' \in {capsule, FALSE} /\ Fault /\ lost' = TRUE
  /\ GoTo("deleteNamespace")
  /\ UNCHANGED <<tenantVars, nsVars, policy, quotaVars, appVars, queued, edits>>

Terminated == IF ns = "active" THEN "terminating" ELSE ns

\* NamespaceReconciler.Delete looks the namespace up in the cache first: one
\* that was created a moment ago may not be there, and is not deleted.
DeleteNamespace ==
  /\ w.step = "deleteNamespace"
  /\ \/ nsSeen /\ ns' = Terminated /\ NoFault /\ UNCHANGED lost
     \/ ~nsSeen /\ UNCHANGED ns /\ NoFault /\ lost' = (lost \/ ns = "active")
     \/ nsSeen /\ ns' \in {ns, Terminated} /\ Fault /\ lost' = TRUE
  /\ GoTo("removeFinalizer")
  /\ UNCHANGED <<tenantVars, nsSeen, partVars, quotaVars, appVars, queued, edits>>

RemoveFinalizer == WriteTenant("removeFinalizer", NoTenant, Done)

Work ==
  \/ AddFinalizer \/ SetPending
  \/ EnsureNamespace \/ EnsureCapsule \/ EnsurePolicy \/ EnsureQuota
  \/ SetActive \/ SetFailed
  \/ SetDeleting \/ ListApps \/ DeleteApps
  \/ DeletePolicy \/ DeleteCapsule \/ DeleteNamespace \/ RemoveFinalizer

-----------------------------------------------------------------------------
(* The controller runtime *)

CacheSync ==
  /\ stale
  /\ cache' = tenant /\ stale' = FALSE /\ queued' = TRUE
  /\ UNCHANGED <<tenant, nsVars, partVars, quotaVars, appVars, delayed, w, lost,
                 edits, faults>>

TimerFire ==
  /\ delayed
  /\ delayed' = FALSE /\ queued' = TRUE
  /\ UNCHANGED <<tenantVars, nsVars, partVars, quotaVars, appVars, w, lost, edits,
                 faults>>

\* The informers of the other kinds; their events queue nothing.
NamespaceSync ==
  /\ nsSeen # (ns # "none")
  /\ nsSeen' = ~nsSeen
  /\ UNCHANGED <<tenantVars, ns, partVars, quotaVars, appVars, queued, delayed, w,
                 lost, edits, faults>>

QuotaSync ==
  /\ quotaStale
  /\ quotaSeen' = (quota # NoPlan) /\ quotaStale' = FALSE
  /\ UNCHANGED <<tenantVars, nsVars, partVars, quota, appVars, queued, delayed, w,
                 lost, edits, faults>>

LiveApps == {a \in Apps : stage[a] # "none"}

AppsSync ==
  /\ appsSeen # LiveApps
  /\ appsSeen' = LiveApps
  /\ UNCHANGED <<tenantVars, nsVars, partVars, quotaVars, stage, queued, delayed, w,
                 lost, edits, faults>>

Restart ==
  /\ Fault
  /\ w' = Idle /\ delayed' = FALSE
  /\ cache' = tenant /\ stale' = FALSE /\ queued' = (tenant # NoTenant)
  /\ nsSeen' = (ns # "none")
  /\ quotaSeen' = (quota # NoPlan) /\ quotaStale' = FALSE
  /\ appsSeen' = LiveApps
  /\ UNCHANGED <<tenant, ns, partVars, quota, stage, lost, edits>>

-----------------------------------------------------------------------------
(* The environment: users, the App controller, the namespace controller *)

Edit == edits < MaxEdits /\ edits' = edits + 1

WriteByUser(new) ==
  /\ Edit
  /\ tenant' = new /\ stale' = TRUE
  /\ w' = [w EXCEPT !.fresh = FALSE]
  /\ UNCHANGED <<cache, nsVars, partVars, quotaVars, appVars, queued, delayed,
                 lost, faults>>

CreateTenant ==
  /\ tenant = NoTenant
  /\ \E s \in Specs :
       WriteByUser([spec |-> s, finalizer |-> FALSE, deleting |-> FALSE, phase |-> ""])

EditTenant ==
  /\ tenant # NoTenant
  /\ \E s \in Specs \ {tenant.spec} : WriteByUser([tenant EXCEPT !.spec = s])

DeleteTenant ==
  /\ tenant # NoTenant /\ ~tenant.deleting
  /\ WriteByUser(IF tenant.finalizer THEN [tenant EXCEPT !.deleting = TRUE]
                 ELSE NoTenant)

MoveApp(a, from, to) ==
  /\ stage[a] = from
  /\ stage' = [stage EXCEPT ![a] = to]
  /\ UNCHANGED <<tenantVars, nsVars, partVars, quotaVars, appsSeen, queued, delayed,
                 w, lost, faults>>

CreateApp(a) == Edit /\ ns = "active" /\ MoveApp(a, "none", "open")
GuardApp(a) == MoveApp(a, "open", "guarded") /\ UNCHANGED edits
FinishApp(a) == MoveApp(a, "closing", "none") /\ UNCHANGED edits

\* A namespace that terminates deletes what it holds, and goes when it is empty.
NamespaceDeletesApp(a) ==
  /\ ns = "terminating"
  /\ MoveApp(a, "open", "none") \/ MoveApp(a, "guarded", "closing")
  /\ UNCHANGED edits

NamespaceGone ==
  /\ ns = "terminating" /\ LiveApps = {}
  /\ ns' = "none" /\ policy' = FALSE
  /\ quota' = NoPlan /\ quotaStale' = (quotaStale \/ quota # NoPlan)
  /\ UNCHANGED <<tenantVars, nsSeen, capsule, quotaSeen, appVars, queued, delayed, w,
                 lost, edits, faults>>

Next ==
  \/ Pick \/ Work
  \/ CacheSync \/ TimerFire \/ NamespaceSync \/ QuotaSync \/ AppsSync \/ Restart
  \/ CreateTenant \/ EditTenant \/ DeleteTenant \/ NamespaceGone
  \/ \E a \in Apps :
       CreateApp(a) \/ GuardApp(a) \/ FinishApp(a) \/ NamespaceDeletesApp(a)

Spec == Init /\ [][Next]_vars

\* The worker runs, events arrive, timers fire, the namespace controller works,
\* and a deleted app's controller finishes it.
Fairness ==
  /\ WF_vars(Pick) /\ WF_vars(Work)
  /\ WF_vars(CacheSync) /\ WF_vars(TimerFire)
  /\ WF_vars(NamespaceSync) /\ WF_vars(QuotaSync) /\ WF_vars(AppsSync)
  /\ WF_vars(NamespaceGone)
  /\ \A a \in Apps : WF_vars(FinishApp(a)) /\ WF_vars(NamespaceDeletesApp(a))

FairSpec == Spec /\ Fairness

-----------------------------------------------------------------------------
(* Properties *)

TypeOK ==
  /\ tenant \in Tenant \cup {NoTenant} /\ cache \in Tenant \cup {NoTenant}
  /\ ns \in {"none", "active", "terminating"}
  /\ stale \in BOOLEAN /\ nsSeen \in BOOLEAN
  /\ capsule \in BOOLEAN /\ policy \in BOOLEAN
  /\ quotaSeen \in BOOLEAN /\ quotaStale \in BOOLEAN
  /\ queued \in BOOLEAN /\ delayed \in BOOLEAN /\ lost \in BOOLEAN
  /\ quota \in Plans \cup {NoPlan}
  /\ stage \in [Apps -> {"none", "open", "guarded", "closing"}]
  /\ appsSeen \subseteq Apps
  /\ w \in Worker
  /\ edits \in 0 .. MaxEdits /\ faults \in 0 .. MaxFaults

Exists == tenant # NoTenant
Holds == capsule \/ ns = "active"

\* The namespace and the Capsule tenant exist only while the finalizer holds
\* the Tenant, unless their clean-up was given up or skipped: no reconcile on an
\* old copy, and no restart, brings them back for a tenant that is gone.
NoOrphans == Holds /\ ~lost => Exists /\ tenant.finalizer

\* A tenant that no event, error or timer will bring back is gone: also one that
\* waits for its apps to be finished, or whose status could not be written.
NeverForgotten == ~queued /\ ~delayed /\ ~stale /\ w.step = "idle" => ~Exists

\* What the spec asks for is there, but for what went with its namespace.
Provisioned(spec) ==
  /\ capsule
  /\ ns = "active" => quota = spec.plan /\ (spec.isolated => policy)

\* Active is said of what was done, for the spec that the Tenant has when it is
\* written, whatever was terminating or edited while the reconcile made its calls.
ActiveIsProvisioned ==
  [][/\ Exists' /\ tenant'.phase = "Active"
     /\ Exists => tenant.phase # "Active"
     => Provisioned(tenant'.spec)]_vars

\* What a tenant comes to rest in, with a reconcile on its way or not.
Serving ==
  /\ Exists /\ tenant.finalizer /\ ~tenant.deleting /\ tenant.phase = "Active"
  /\ ns = "active" /\ nsSeen /\ capsule
  /\ quota = tenant.spec.plan /\ quotaSeen /\ ~quotaStale
  /\ tenant.spec.isolated => policy
  /\ w.step # "idle" =>
       w.fresh /\ w.step \in {"namespace", "capsule", "policy", "quota", "active"}

Gone == ~Exists /\ ~capsule /\ ns = "none" /\ w.step = "idle"

Settled == ~stale /\ (Serving \/ Gone)

\* A reconcile of a settled tenant changes none of its parts, at none of its
\* calls, nor does what its apps and the informers do: only users and failing
\* calls unsettle it.
SettledStays ==
  [][Settled /\ faults' = faults /\ (edits' # edits => tenant' = tenant)
       => Settled' /\ UNCHANGED <<tenant, ns, capsule, quota>>]_vars

\* What the spec asks for is there and the phase says so; the policy of a tenant
\* that is not isolated is not considered here.
Converged ==
  IF ~Exists THEN lost \/ (~capsule /\ ns = "none")
  ELSE /\ ~tenant.deleting /\ tenant.phase = "Active"
       /\ ns = "active" /\ capsule /\ quota = tenant.spec.plan
       /\ tenant.spec.isolated => policy

\* Once users stop and calls stop failing, a tenant is Active with all its parts
\* or gone with all of them: also one that is created again while its former
\* namespace, with its apps, still terminates.
Convergence == <>[]Converged

\* The order in which a reconcile makes its calls.
CallOrder ==
  [s \in Steps |->
     CASE s \in {"finalizer", "deleting"} -> 1
       [] s \in {"pending", "listApps"} -> 2
       [] s \in {"namespace", "deleteApps"} -> 3
       [] s \in {"capsule", "deletePolicy"} -> 4
       [] s \in {"policy", "deleteCapsule"} -> 5
       [] s \in {"quota", "deleteNamespace"} -> 6
       [] s \in {"active", "removeFinalizer"} -> 7
       [] s = "setFailed" -> 8
       [] OTHER -> 0]

\* Every call brings a reconcile nearer to its end, whatever it returns; the
\* deletion of apps has one app less to delete each time.
ReconcileEnds ==
  [][Work =>
       \/ w'.step = "idle"
       \/ CallOrder[w.step] < CallOrder[w'.step]
       \/ w'.step = w.step /\ w'.drop \subseteq w.drop /\ w'.drop # w.drop]_vars

\* The deletion of apps is left when there is none to go on with; every other
\* call can be made whatever the state.
LoopNotEmpty == w.step = "deleteApps" => w.drop # {}

\* namespace.go on Delete: it "removes the namespace for the tenant".  With no
\* call failing, a tenant that is gone has no live namespace.
NamespaceRemoved == ~Exists /\ faults = 0 => ns # "active"

StageOf ==
  CASE ~Exists -> "none"
    [] Exists /\ ~tenant.finalizer -> "open"
    [] Exists /\ tenant.finalizer /\ ~tenant.deleting -> "guarded"
    [] OTHER -> "closing"

Protocol == INSTANCE FinalizerProtocol
  WITH Objects <- {"tenant"}, stage <- [o \in {"tenant"} |-> StageOf],
       holding <- {o \in {"tenant"} : Holds},
       abandoned <- {o \in {"tenant"} : lost}

\* The Tenant controller implements the finalizer protocol as well.
ImplementsProtocol == Protocol!Spec

Contract == INSTANCE CustomResource
  WITH Objects <- {"tenant"}, NoSpec <- NoTenant,
       stage <- [o \in {"tenant"} |-> StageOf],
       spec <- [o \in {"tenant"} |-> IF Exists THEN tenant.spec ELSE NoTenant]

\* A reconcile writes the whole Tenant that it read some time ago.  All the same
\* it does to it only what the operator may, and users only what a client may:
\* no reconcile undoes a change of the spec, brings the Tenant back, or takes it
\* away before its deletion was asked for.
KeepsContract ==
  /\ Contract!Init
  /\ [][IF edits' # edits THEN Contract!ClientStep("tenant")
        ELSE Contract!OperatorStep("tenant")]_(Contract!vars)

AppProtocol == INSTANCE FinalizerProtocol
  WITH Objects <- Apps, holding <- {}, abandoned <- {}

\* What happens here to the tenant's apps is what AppController lets happen to
\* them: neither the deletion of the tenant nor that of its namespace takes an
\* app away while its finalizer holds it.
AppsKeepProtocol == AppProtocol!Spec
=============================================================================
