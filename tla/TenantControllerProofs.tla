------------------------ MODULE TenantControllerProofs ------------------------
(***************************************************************************)
(* Proofs about TenantController, for every set of apps, plans and specs   *)
(* and every bound on edits and faults: type correctness, the invariants   *)
(* of the runs, that the controller implements FinalizerProtocol and keeps *)
(* the contract of CustomResource, what Active says of the parts, the      *)
(* safety half of Convergence (a settled tenant stays settled), and that   *)
(* every reconcile ends.                                                   *)
(***************************************************************************)
EXTENDS TenantController, TLAPS

-----------------------------------------------------------------------------
(* Type correctness *)

\* The first call for a version of the object, and what it says of the version.
LEMMA StageFacts ==
  ASSUME NEW m \in Tenant
  PROVE  /\ Stage(m) \in {"deleting", "finalizer", "pending", "namespace"}
         /\ m.deleting <=> Stage(m) = "deleting"
         /\ ~m.deleting /\ ~m.finalizer <=> Stage(m) = "finalizer"
BY DEF Stage, Tenant

\* The worker is idle, or it works on a version of the object that it read.
WorkerOK ==
  /\ w \in Worker
  /\ \/ w = Idle
     \/ w.step # "idle" /\ w.mem \in Tenant

\* Ending a reconcile leaves a well-typed worker.
LEMMA IdleOK == w' = Idle => WorkerOK'
<1>1. Idle \in Worker
  <2>1. "idle" \in Steps
    BY DEF Steps
  <2> QED BY <2>1 DEF Worker, Idle
<1> QED BY <1>1 DEF WorkerOK

\* In the middle of a reconcile the worker has a copy of the object.
LEMMA AtWork ==
  ASSUME WorkerOK, w.step # "idle"
  PROVE  w \in Worker /\ w.mem \in Tenant
BY DEF WorkerOK, Idle

\* The ways in which a step of Reconcile moves the worker on.
LEMMA MoveOK ==
  ASSUME WorkerOK, w.step # "idle", NEW s \in Steps \ {"idle"},
         \/ w' = [w EXCEPT !.step = s]
         \/ \E m \in Tenant : w' = [w EXCEPT !.mem = m, !.step = s]
         \/ \E d \in SUBSET Apps : w' = [w EXCEPT !.drop = d, !.step = s]
         \/ \E d \in SUBSET Apps : w' = [w EXCEPT !.drop = d]
         \/ w' = [w EXCEPT !.fresh = FALSE]
  PROVE  WorkerOK'
<1>1. w \in Worker /\ w.mem \in Tenant
  BY AtWork
<1>2. w' \in Worker
  BY <1>1 DEF Worker
<1>3. w'.step # "idle" /\ w'.mem \in Tenant
  BY <1>1 DEF Worker
<1> QED BY <1>2, <1>3 DEF WorkerOK

\* Setting the phase of the copy in hand gives a Tenant.
LEMMA InPhaseType ==
  ASSUME w.mem \in Tenant, NEW p \in Phases
  PROVE  InPhase(p) \in Tenant
BY DEF InPhase, Tenant

\* The calls of Reconcile that write the Tenant, those that do not, and the
\* users' steps on it.
TenantWrites ==
  \/ AddFinalizer \/ SetPending \/ SetActive \/ SetFailed
  \/ SetDeleting \/ RemoveFinalizer

Ensures == EnsureNamespace \/ EnsureCapsule \/ EnsurePolicy \/ EnsureQuota

Deletes == ListApps \/ DeleteApps \/ DeletePolicy \/ DeleteCapsule \/ DeleteNamespace

UserWrites == CreateTenant \/ EditTenant \/ DeleteTenant

Syncs == CacheSync \/ TimerFire \/ NamespaceSync \/ QuotaSync \/ AppsSync

AppSteps ==
  \E a \in Apps : CreateApp(a) \/ GuardApp(a) \/ FinishApp(a) \/ NamespaceDeletesApp(a)

\* Every step is one of these.
LEMMA NextCases ==
  ASSUME [Next]_vars
  PROVE  \/ Pick \/ TenantWrites \/ Ensures \/ Deletes
         \/ Syncs \/ Restart \/ UserWrites \/ NamespaceGone \/ AppSteps
         \/ UNCHANGED vars
BY DEF Next, Work, TenantWrites, Ensures, Deletes, Syncs, UserWrites, AppSteps

\* What a write of the worker can store, by the step that makes it.
NewTenant(new) ==
  \/ w.step = "finalizer" /\ new = [w.mem EXCEPT !.finalizer = TRUE]
  \/ w.step \in {"pending", "active", "setFailed", "deleting"}
       /\ \E p \in Phases : new = InPhase(p)
  \/ w.step = "removeFinalizer" /\ new = NoTenant

\* What a reconcile's write does to the object: the API server takes it only
\* from the latest copy, and then stores that copy with one field changed.  The
\* reconcile goes on, with what it wrote, or ends.
LEMMA TenantWrite ==
  ASSUME WorkerOK, TenantWrites
  PROVE  /\ w.step # "idle" /\ w.mem \in Tenant
         /\ \E new \in Tenant \cup {NoTenant} :
              /\ NewTenant(new)
              /\ \/ UNCHANGED <<tenant, stale>> /\ w' = Idle
                 \/ /\ w.fresh
                    /\ tenant' = new /\ stale' = (stale \/ new # tenant)
                    /\ \/ w' = Idle
                       \/ /\ w.step \in {"finalizer", "pending"}
                          /\ new # NoTenant
                          /\ w' = [w EXCEPT !.mem = new, !.step = Stage(new)]
                       \/ /\ w.step = "deleting" /\ new # NoTenant
                          /\ w' = [w EXCEPT !.mem = new, !.step = "listApps"]
         /\ UNCHANGED <<cache, ns, nsSeen, capsule, policy, quota, quotaSeen,
                        quotaStale, stage, appsSeen, queued, lost, edits>>
         /\ delayed' \in {delayed, TRUE}
         /\ faults' = faults \/ (faults < MaxFaults /\ faults' = faults + 1)
<1>1. w.step # "idle" /\ w.mem \in Tenant
  BY AtWork DEF TenantWrites, WriteTenant, AddFinalizer, SetPending,
         SetActive, SetFailed, SetDeleting, RemoveFinalizer
<1>2. [w.mem EXCEPT !.finalizer = TRUE] \in Tenant
  BY <1>1 DEF Tenant
<1>3. \A p \in Phases : InPhase(p) \in Tenant
  BY <1>1, InPhaseType
<1>4. {"Pending", "Active", "Failed", "Deleting"} \subseteq Phases
  BY DEF Phases
<1>5. CASE AddFinalizer
  BY <1>1, <1>2, <1>5, NoneAssumption
  DEF AddFinalizer, WriteTenant, Written, Errored, Store, Continue, Requeue, Fault,
      NoFault, NewTenant, nsVars, partVars, quotaVars, appVars
<1>6. CASE SetPending
  BY <1>1, <1>3, <1>4, <1>6, NoneAssumption
  DEF SetPending, WriteTenant, Written, Errored, Store, Continue, Requeue, Fault,
      NoFault, NewTenant, nsVars, partVars, quotaVars, appVars
<1>7. CASE SetActive
  BY <1>1, <1>3, <1>4, <1>7
  DEF SetActive, WriteTenant, Written, Errored, Store, Requeue, Fault, NoFault,
      NewTenant, nsVars, partVars, quotaVars, appVars
<1>8. CASE SetFailed
  BY <1>1, <1>3, <1>4, <1>8
  DEF SetFailed, WriteTenant, Written, Errored, Store, Requeue, Fault, NoFault,
      NewTenant, nsVars, partVars, quotaVars, appVars
<1>9. CASE SetDeleting
  BY <1>1, <1>3, <1>4, <1>9, NoneAssumption
  DEF SetDeleting, WriteTenant, Written, Errored, Store, Requeue, Fault, NoFault,
      NewTenant, nsVars, partVars, quotaVars, appVars
<1>10. CASE RemoveFinalizer
  BY <1>1, <1>10
  DEF RemoveFinalizer, WriteTenant, Written, Errored, Store, Requeue, Done, Fault,
      NoFault, NewTenant, nsVars, partVars, quotaVars, appVars
<1> QED BY <1>5, <1>6, <1>7, <1>8, <1>9, <1>10 DEF TenantWrites

EnsureSteps == {"namespace", "capsule", "policy", "quota"}
CleanUpSteps == {"listApps", "deleteApps", "deletePolicy", "deleteCapsule",
                 "deleteNamespace"}

\* What the calls that ensure the tenant's parts leave alone, and where they
\* lead.
LEMMA EnsureCalls ==
  ASSUME TypeOK, WorkerOK, Ensures
  PROVE  /\ w.step \in EnsureSteps /\ w.mem \in Tenant
         /\ \/ w' = [w EXCEPT !.step = "setFailed"]
            \/ \E s \in (EnsureSteps \ {"namespace"}) \cup {"active"} :
                 w' = [w EXCEPT !.step = s]
         /\ ns' \in {ns, "active"} /\ capsule' \in {capsule, TRUE}
         /\ policy' \in {policy, TRUE} /\ quota' \in {quota, w.mem.spec.plan}
         /\ quotaStale' \in {quotaStale, TRUE}
         /\ faults' = faults \/ (faults < MaxFaults /\ faults' = faults + 1)
         /\ UNCHANGED <<tenant, cache, stale, nsSeen, quotaSeen, stage, appsSeen,
                        queued, delayed, lost, edits>>
<1>0. w.step # "idle" /\ w.mem \in Tenant
  BY AtWork DEF Ensures, EnsureNamespace, EnsureCapsule, EnsurePolicy, EnsureQuota
<1>1. CASE EnsureNamespace
  BY <1>0, <1>1 DEF EnsureNamespace, GoTo, Fault, NoFault, EnsureSteps,
              tenantVars, partVars, quotaVars, appVars
<1>2. CASE EnsureCapsule
  BY <1>0, <1>2 DEF EnsureCapsule, GoTo, Fault, NoFault, EnsureSteps,
              tenantVars, nsVars, quotaVars, appVars
<1>3. CASE EnsurePolicy
  <2>1. policy' \in {policy, TRUE}
    <3>1. policy' = policy \/ policy' = TRUE \/ policy' = (policy \/ ns = "active")
      BY <1>3 DEF EnsurePolicy
    <3>2. policy \in BOOLEAN
      BY DEF TypeOK
    <3> QED BY <3>1, <3>2
  <2>2. /\ w.step = "policy"
        /\ w' = [w EXCEPT !.step = "quota"] \/ w' = [w EXCEPT !.step = "setFailed"]
        /\ UNCHANGED delayed
        /\ faults' = faults \/ (faults < MaxFaults /\ faults' = faults + 1)
    BY <1>3 DEF EnsurePolicy, GoTo, Fault, NoFault
  <2> QED BY <1>0, <1>3, <2>1, <2>2 DEF EnsurePolicy, EnsureSteps,
              tenantVars, nsVars, quotaVars, appVars
<1>4. CASE EnsureQuota
  <2>1. quota' \in {quota, w.mem.spec.plan}
    BY <1>4 DEF EnsureQuota
  <2>2. quotaStale' \in {quotaStale, TRUE}
    <3>1. quotaStale' = (quotaStale \/ quota' # quota) /\ quotaStale \in BOOLEAN
      BY <1>4 DEF EnsureQuota, TypeOK
    <3> QED BY <3>1
  <2>3. /\ w.step = "quota"
        /\ w' = [w EXCEPT !.step = "active"] \/ w' = [w EXCEPT !.step = "setFailed"]
        /\ UNCHANGED delayed
        /\ faults' = faults \/ (faults < MaxFaults /\ faults' = faults + 1)
    BY <1>4 DEF EnsureQuota, GoTo, Fault, NoFault
  <2> QED BY <1>0, <1>4, <2>1, <2>2, <2>3
      DEF EnsureQuota, EnsureSteps, tenantVars, nsVars, partVars,
          appVars
<1> QED BY <1>1, <1>2, <1>3, <1>4 DEF Ensures

\* The same for the calls of the clean-up.  lost' says what one of them gave up.
LEMMA DeleteCalls ==
  ASSUME TypeOK, WorkerOK, Deletes
  PROVE  /\ w.step \in CleanUpSteps /\ w.mem \in Tenant
         /\ \/ /\ w.step \in {"listApps", "deleteApps"}
               /\ \/ w' = Idle
                  \/ \E d \in SUBSET Apps : w' = [w EXCEPT !.drop = d]
                  \/ \E d \in SUBSET Apps, s \in {"deletePolicy", "deleteApps"} :
                       w' = [w EXCEPT !.drop = d, !.step = s]
                  \/ w' = [w EXCEPT !.step = "deletePolicy"]
               /\ UNCHANGED <<ns, capsule, policy, lost>>
            \/ /\ w.step = "deletePolicy" /\ w' = [w EXCEPT !.step = "deleteCapsule"]
               /\ policy' \in {policy, FALSE} /\ UNCHANGED <<ns, capsule, lost>>
            \/ /\ w.step = "deleteCapsule"
               /\ w' = [w EXCEPT !.step = "deleteNamespace"]
               /\ \/ capsule' = FALSE /\ lost' = lost
                  \/ capsule' \in {capsule, FALSE} /\ lost' = TRUE
               /\ UNCHANGED <<ns, policy>>
            \/ /\ w.step = "deleteNamespace"
               /\ w' = [w EXCEPT !.step = "removeFinalizer"]
               /\ ns' \in {ns, Terminated} /\ lost' \in {lost, TRUE}
               /\ lost' \/ ns' # "active"
               /\ UNCHANGED <<capsule, policy>>
         /\ stage' \in [Apps -> {"none", "open", "guarded", "closing"}]
         /\ delayed' \in {delayed, TRUE}
         /\ faults' = faults \/ (faults < MaxFaults /\ faults' = faults + 1)
         /\ UNCHANGED <<tenant, cache, stale, nsSeen, quota, quotaSeen, quotaStale,
                        appsSeen, queued, edits>>
<1>0. w \in Worker /\ w.drop \subseteq Apps /\ appsSeen \subseteq Apps
      /\ stage \in [Apps -> {"none", "open", "guarded", "closing"}]
      /\ ns \in {"none", "active", "terminating"} /\ lost \in BOOLEAN
  BY DEF WorkerOK, Worker, TypeOK
<1>9. w.step # "idle" /\ w.mem \in Tenant
  BY AtWork
  DEF Deletes, ListApps, DeleteApps, DeletePolicy, DeleteCapsule, DeleteNamespace
<1>1. CASE ListApps
  BY <1>0, <1>1, <1>9 DEF ListApps, GoTo, Fault, NoFault, CleanUpSteps,
              tenantVars, nsVars, partVars, quotaVars, appVars
<1>2. CASE DeleteApps
  <2>1. PICK a \in w.drop :
          LET new == [stage EXCEPT ![a] = AfterRequest(@)]
          IN \/ /\ stage' = new /\ NoFault
                /\ IF w.drop = {a} THEN Requeue
                   ELSE w' = [w EXCEPT !.drop = @ \ {a}] /\ UNCHANGED delayed
             \/ stage' \in {stage, new} /\ Requeue /\ Fault
    BY <1>2 DEF DeleteApps
  <2>2. AfterRequest(stage[a]) \in {"none", "open", "guarded", "closing"}
    BY <1>0 DEF AfterRequest
  <2>3. stage' \in [Apps -> {"none", "open", "guarded", "closing"}]
    BY <1>0, <2>1, <2>2
  <2>4. w' = Idle \/ \E d \in SUBSET Apps : w' = [w EXCEPT !.drop = d]
    BY <1>0, <2>1 DEF Requeue
  <2>5. /\ delayed' \in {delayed, TRUE}
        /\ faults' = faults \/ (faults < MaxFaults /\ faults' = faults + 1)
    BY <2>1 DEF Requeue, Fault, NoFault
  <2> QED
    BY <1>2, <1>9, <2>3, <2>4, <2>5
    DEF DeleteApps, CleanUpSteps, tenantVars, nsVars, partVars,
        quotaVars
<1>3. CASE DeletePolicy
  BY <1>3, <1>9 DEF DeletePolicy, GoTo, Fault, NoFault, CleanUpSteps,
              tenantVars, nsVars, quotaVars, appVars, TypeOK
<1>4. CASE DeleteCapsule
  BY <1>4, <1>9 DEF DeleteCapsule, GoTo, Fault, NoFault, CleanUpSteps,
              tenantVars, nsVars, quotaVars, appVars, TypeOK
<1>5. CASE DeleteNamespace
  <2>1. Terminated # "active"
    BY <1>0 DEF Terminated
  <2>2. /\ ns' \in {ns, Terminated} /\ lost' \in {lost, TRUE}
        /\ lost' \/ ns' # "active"
    <3>1. CASE nsSeen /\ ns' = Terminated /\ UNCHANGED lost
      BY <2>1, <3>1
    <3>2. CASE UNCHANGED ns /\ lost' = (lost \/ ns = "active")
      BY <1>0, <3>2
    <3>3. CASE ns' \in {ns, Terminated} /\ lost' = TRUE
      BY <3>3
    <3> QED BY <1>5, <3>1, <3>2, <3>3 DEF DeleteNamespace
  <2> QED
    BY <1>0, <1>5, <1>9, <2>2
    DEF DeleteNamespace, GoTo, Fault, NoFault, CleanUpSteps,
        tenantVars, partVars, quotaVars, appVars
<1> QED BY <1>1, <1>2, <1>3, <1>4, <1>5 DEF Deletes

\* What a user's write does to the object: it keeps the finalizer of an object
\* that stays, and takes away only one without.
LEMMA UserWrite ==
  ASSUME TypeOK, WorkerOK, UserWrites
  PROVE  /\ \E new \in Tenant \cup {NoTenant} :
              /\ tenant' = new
              /\ \/ /\ tenant = NoTenant /\ new # NoTenant
                    /\ ~new.finalizer /\ ~new.deleting
                 \/ /\ tenant # NoTenant /\ new # NoTenant
                    /\ new.finalizer = tenant.finalizer
                    /\ new.deleting = tenant.deleting
                 \/ /\ tenant # NoTenant /\ tenant.finalizer /\ ~tenant.deleting
                    /\ new # NoTenant /\ new.finalizer /\ new.deleting
                    /\ new.spec = tenant.spec
                 \/ /\ tenant # NoTenant /\ ~tenant.finalizer /\ new = NoTenant
         /\ stale' = TRUE /\ w' = [w EXCEPT !.fresh = FALSE]
         /\ edits < MaxEdits /\ edits' = edits + 1
         /\ UNCHANGED <<cache, ns, nsSeen, capsule, policy, quota, quotaSeen,
                        quotaStale, stage, appsSeen, queued, delayed, lost, faults>>
<1>0. tenant \in Tenant \cup {NoTenant} /\ Specs \subseteq TenantSpec
  BY SpecsAssumption DEF TypeOK
<1>1. CASE CreateTenant
  <2> DEFINE New(s) ==
        [spec |-> s, finalizer |-> FALSE, deleting |-> FALSE, phase |-> ""]
  <2>1. PICK s \in Specs : WriteByUser(New(s))
    BY <1>1 DEF CreateTenant
  <2>2. New(s) \in Tenant /\ ~New(s).finalizer /\ ~New(s).deleting
    BY <1>0 DEF Tenant, Phases
  <2> HIDE DEF New
  <2> QED
    BY <1>1, <2>1, <2>2, NoneAssumption
    DEF CreateTenant, WriteByUser, Edit, nsVars, partVars, quotaVars, appVars
<1>2. CASE EditTenant
  <2>1. PICK s \in Specs : WriteByUser([tenant EXCEPT !.spec = s])
    BY <1>2 DEF EditTenant
  <2>2. /\ tenant \in Tenant
        /\ [tenant EXCEPT !.spec = s] \in Tenant
        /\ [tenant EXCEPT !.spec = s].finalizer = tenant.finalizer
        /\ [tenant EXCEPT !.spec = s].deleting = tenant.deleting
    BY <1>0, <1>2 DEF EditTenant, Tenant
  <2> QED
    BY <2>1, <2>2, NoneAssumption
    DEF WriteByUser, Edit, nsVars, partVars, quotaVars, appVars
<1>3. CASE DeleteTenant
  <2>1. tenant \in Tenant /\ ~tenant.deleting
    BY <1>0, <1>3 DEF DeleteTenant
  <2>2. /\ [tenant EXCEPT !.deleting = TRUE] \in Tenant
        /\ [tenant EXCEPT !.deleting = TRUE].finalizer = tenant.finalizer
        /\ [tenant EXCEPT !.deleting = TRUE].deleting
        /\ [tenant EXCEPT !.deleting = TRUE].spec = tenant.spec
    BY <2>1 DEF Tenant
  <2>3. CASE tenant.finalizer
    BY <1>3, <2>1, <2>2, <2>3, NoneAssumption
    DEF DeleteTenant, WriteByUser, Edit, nsVars, partVars, quotaVars, appVars
  <2>4. CASE ~tenant.finalizer
    BY <1>3, <2>1, <2>4, NoneAssumption
    DEF DeleteTenant, WriteByUser, Edit, nsVars, partVars, quotaVars, appVars
  <2> QED BY <2>3, <2>4
<1> QED BY <1>1, <1>2, <1>3 DEF UserWrites

\* The part of TypeOK that is about Booleans.
Flags ==
  /\ stale \in BOOLEAN /\ nsSeen \in BOOLEAN
  /\ capsule \in BOOLEAN /\ policy \in BOOLEAN
  /\ quotaSeen \in BOOLEAN /\ quotaStale \in BOOLEAN
  /\ queued \in BOOLEAN /\ delayed \in BOOLEAN /\ lost \in BOOLEAN

\* Every step keeps the types.
LEMMA TypeStep == TypeOK /\ WorkerOK /\ [Next]_vars => (TypeOK /\ WorkerOK)'
<1> SUFFICES ASSUME TypeOK, WorkerOK, [Next]_vars PROVE TypeOK' /\ WorkerOK'
  OBVIOUS
<1> USE BoundsAssumption
<1>0. WorkerOK' => w' \in Worker
  BY DEF WorkerOK
<1>11. Flags
  BY DEF Flags, TypeOK
<1>1. CASE Pick
  <2>0. Flags'
    BY <1>11, <1>1 DEF Pick, Flags, tenantVars, nsVars, partVars, quotaVars
  <2>1. CASE w' = Idle
    BY <1>0, <1>1, <2>0, <2>1, IdleOK
    DEF Pick, TypeOK, Flags, tenantVars, quotaVars, nsVars, appVars
  <2>2. CASE cache # NoTenant
    <3>1. cache \in Tenant /\ stale \in BOOLEAN
      BY <2>2 DEF TypeOK
    <3>2. Stage(cache) \in Steps \ {"idle"}
      BY <3>1, StageFacts DEF Steps
    <3>3. WorkerOK'
      BY <1>1, <2>2, <3>1, <3>2 DEF Pick, WorkerOK, Worker, Idle
    <3> QED BY <1>0, <1>1, <2>0, <3>3
            DEF Pick, TypeOK, Flags, tenantVars, quotaVars, nsVars, appVars
  <2> QED BY <1>1, <2>1, <2>2 DEF Pick
<1>2. CASE TenantWrites
  <2>1. WorkerOK'
    <3>1. /\ w.step # "idle"
          /\ \/ w' = Idle
             \/ \E m \in Tenant, s \in Steps \ {"idle"} :
                  w' = [w EXCEPT !.mem = m, !.step = s]
      <4>1. \A m \in Tenant : Stage(m) \in Steps \ {"idle"}
        BY StageFacts DEF Steps
      <4>2. "listApps" \in Steps \ {"idle"}
        BY DEF Steps
      <4> QED BY <1>2, <4>1, <4>2, TenantWrite
    <3> QED BY <3>1, IdleOK, MoveOK
  <2>2. UNCHANGED <<cache, ns, nsSeen, capsule, policy, quota, quotaSeen,
                    quotaStale, stage, appsSeen, queued, lost, edits>>
    BY <1>2, TenantWrite
  <2>3. PICK new \in Tenant \cup {NoTenant} :
          \/ UNCHANGED <<tenant, stale>>
          \/ tenant' = new /\ stale' = (stale \/ new # tenant)
    BY <1>2, TenantWrite
  <2>4. delayed' \in {delayed, TRUE}
    BY <1>2, TenantWrite
  <2>5. Flags'
    BY <1>11, <2>2, <2>3, <2>4 DEF Flags
  <2>6. faults' \in 0 .. MaxFaults
    <3>1. faults' = faults \/ (faults < MaxFaults /\ faults' = faults + 1)
      BY <1>2, TenantWrite
    <3> QED BY <3>1 DEF TypeOK
  <2>7. tenant' \in Tenant \cup {NoTenant}
    BY <2>3 DEF TypeOK
  <2> QED BY <1>0, <2>1, <2>2, <2>5, <2>6, <2>7 DEF TypeOK, Flags
<1>3. CASE Ensures
  <2>1. WorkerOK'
    <3>1. EnsureSteps \cup {"active", "setFailed"} \subseteq Steps \ {"idle"}
      BY DEF EnsureSteps, Steps
    <3>2. w.step # "idle"
      BY <1>3, <3>1, EnsureCalls
    <3> QED BY <1>3, <3>1, <3>2, EnsureCalls, MoveOK
  <2>2. w.mem.spec.plan \in Plans
    BY <1>3, EnsureCalls DEF Tenant, TenantSpec
  <2>3. UNCHANGED <<tenant, cache, stale, nsSeen, quotaSeen, stage, appsSeen,
                    queued, delayed, lost, edits>>
    BY <1>3, EnsureCalls
  <2>4. Flags'
    <3>1. /\ capsule' \in {capsule, TRUE} /\ policy' \in {policy, TRUE}
          /\ quotaStale' \in {quotaStale, TRUE}
      BY <1>3, EnsureCalls
    <3> QED BY <1>11, <2>3, <3>1 DEF Flags
  <2>5. /\ quota' \in Plans \cup {NoPlan} /\ faults' \in 0 .. MaxFaults
        /\ ns' \in {"none", "active", "terminating"}
    <3>1. /\ quota' \in {quota, w.mem.spec.plan} /\ ns' \in {ns, "active"}
          /\ faults' = faults \/ (faults < MaxFaults /\ faults' = faults + 1)
      BY <1>3, EnsureCalls
    <3> QED BY <2>2, <3>1 DEF TypeOK
  <2> QED BY <1>0, <2>1, <2>3, <2>4, <2>5 DEF TypeOK, Flags
<1>4. CASE Deletes
  <2>1. WorkerOK'
    <3>1. CleanUpSteps \cup {"removeFinalizer"} \subseteq Steps \ {"idle"}
      BY DEF CleanUpSteps, Steps
    <3>2. w.step # "idle"
      BY <1>4, <3>1, DeleteCalls
    <3>3. \/ w' = Idle
          \/ \E d \in SUBSET Apps : w' = [w EXCEPT !.drop = d]
          \/ \E s \in CleanUpSteps \cup {"removeFinalizer"} :
               \/ w' = [w EXCEPT !.step = s]
               \/ \E d \in SUBSET Apps : w' = [w EXCEPT !.drop = d, !.step = s]
      BY <1>4, DeleteCalls DEF CleanUpSteps
    <3>4. w.step \in Steps \ {"idle"}
      BY <3>2 DEF WorkerOK, Worker
    <3> QED BY <3>1, <3>2, <3>3, <3>4, IdleOK, MoveOK
  <2>2. UNCHANGED <<tenant, cache, stale, nsSeen, quota, quotaSeen, quotaStale,
                    appsSeen, queued, edits>>
    BY <1>4, DeleteCalls
  <2>3. Flags'
    <3>1. /\ capsule' \in {capsule, FALSE} /\ policy' \in {policy, FALSE}
          /\ lost' \in {lost, TRUE} /\ delayed' \in {delayed, TRUE}
      BY <1>4, DeleteCalls
    <3> QED BY <1>11, <2>2, <3>1 DEF Flags
  <2>4. /\ ns' \in {"none", "active", "terminating"}
        /\ stage' \in [Apps -> {"none", "open", "guarded", "closing"}]
        /\ faults' \in 0 .. MaxFaults
    <3>1. /\ ns' \in {ns, Terminated}
          /\ stage' \in [Apps -> {"none", "open", "guarded", "closing"}]
          /\ faults' = faults \/ (faults < MaxFaults /\ faults' = faults + 1)
      BY <1>4, DeleteCalls
    <3> QED BY <3>1 DEF TypeOK, Terminated
  <2> QED BY <1>0, <2>1, <2>2, <2>3, <2>4 DEF TypeOK, Flags
<1>5. CASE Syncs
  <2>1. WorkerOK'
    BY <1>5 DEF Syncs, CacheSync, TimerFire, NamespaceSync, QuotaSync, AppsSync,
                WorkerOK
  <2>2. Flags'
    BY <1>11, <1>5
    DEF Syncs, CacheSync, TimerFire, NamespaceSync, QuotaSync, AppsSync, Flags,
        tenantVars, nsVars, partVars, quotaVars
  <2>3. /\ UNCHANGED <<tenant, ns, quota, stage, edits, faults>>
        /\ cache' \in {cache, tenant} /\ appsSeen' \in {appsSeen, LiveApps}
    BY <1>5
    DEF Syncs, CacheSync, TimerFire, NamespaceSync, QuotaSync, AppsSync,
        tenantVars, nsVars, quotaVars, appVars
  <2> QED BY <1>0, <2>1, <2>2, <2>3 DEF TypeOK, Flags, LiveApps
<1>6. CASE Restart
  <2>1. Flags'
    BY <1>11, <1>6 DEF Restart, Flags, partVars
  <2>2. /\ UNCHANGED <<tenant, ns, quota, stage, edits>>
        /\ cache' = tenant /\ appsSeen' \subseteq Apps
        /\ faults' \in 0 .. MaxFaults
    BY <1>6 DEF Restart, Fault, TypeOK, LiveApps
  <2>3. WorkerOK'
    BY <1>6, IdleOK DEF Restart
  <2> QED BY <1>0, <2>1, <2>2, <2>3 DEF TypeOK, Flags
<1>7. CASE UserWrites
  <2>1. WorkerOK'
    <3>1. w' = [w EXCEPT !.fresh = FALSE]
      BY <1>7, UserWrite
    <3>2. CASE w = Idle
      <4>1. w' = Idle
        BY <3>1, <3>2 DEF Idle
      <4> QED BY <4>1, IdleOK
    <3>3. CASE w # Idle
      BY <3>1, <3>3 DEF WorkerOK, Worker
    <3> QED BY <3>2, <3>3
  <2>2. /\ tenant' \in Tenant \cup {NoTenant} /\ stale' = TRUE
        /\ UNCHANGED <<cache, ns, nsSeen, capsule, policy, quota, quotaSeen,
                       quotaStale, stage, appsSeen, queued, delayed, lost, faults>>
    BY <1>7, UserWrite
  <2>3. Flags'
    BY <1>11, <2>2 DEF Flags
  <2>4. edits' \in 0 .. MaxEdits
    <3>1. edits < MaxEdits /\ edits' = edits + 1
      BY <1>7, UserWrite
    <3> QED BY <3>1 DEF TypeOK
  <2> QED BY <1>0, <2>1, <2>2, <2>3, <2>4 DEF TypeOK, Flags
<1>8. CASE NamespaceGone
  <2>1. quotaStale' \in BOOLEAN /\ w' = w
    BY <1>8 DEF NamespaceGone, TypeOK
  <2> QED BY <1>8, <2>1 DEF NamespaceGone, TypeOK, WorkerOK, tenantVars, appVars
<1>9. CASE AppSteps
  <2>1. PICK a \in Apps, to \in {"none", "open", "guarded", "closing"} :
          stage' = [stage EXCEPT ![a] = to]
    BY <1>9 DEF AppSteps, CreateApp, GuardApp, FinishApp, NamespaceDeletesApp, MoveApp
  <2>2. /\ edits' \in 0 .. MaxEdits
        /\ UNCHANGED <<tenantVars, nsVars, partVars, quotaVars, appsSeen, queued,
                       delayed, w, lost, faults>>
    BY <1>9 DEF AppSteps, CreateApp, GuardApp, FinishApp, NamespaceDeletesApp,
                MoveApp, Edit, TypeOK
  <2>3. stage' \in [Apps -> {"none", "open", "guarded", "closing"}]
    BY <2>1 DEF TypeOK
  <2> QED BY <2>2, <2>3
      DEF TypeOK, WorkerOK, tenantVars, nsVars, partVars, quotaVars
<1>10. CASE UNCHANGED vars
  BY <1>10 DEF vars, TypeOK, WorkerOK
<1> QED
  BY <1>1, <1>2, <1>3, <1>4, <1>5, <1>6, <1>7, <1>8, <1>9, <1>10, NextCases

\* The types hold before there is a tenant.
LEMMA TypeInit == Init => TypeOK /\ WorkerOK
<1> SUFFICES ASSUME Init PROVE TypeOK /\ WorkerOK
  OBVIOUS
<1>1. w \in Worker
  <2>1. "idle" \in Steps
    BY DEF Steps
  <2> QED BY <2>1 DEF Init, Worker, Idle
<1>2. WorkerOK
  BY <1>1 DEF Init, WorkerOK
<1>3. Flags
  BY DEF Init, Flags
<1> QED BY <1>1, <1>2, <1>3, BoundsAssumption DEF Init, TypeOK, Flags

\* Every variable keeps its type: the worker holds a version of the tenant
\* whenever it is in the middle of a reconcile.
THEOREM TypeCorrect == Spec => []TypeOK
<1> QED BY TypeInit, TypeStep, PTL DEF Spec

-----------------------------------------------------------------------------
(* The inductive invariant *)

\* Kept by its finalizer; and a version that says nothing of that, because it
\* is absent, terminating or not yet protected.
GuardedBy(o) == o # NoTenant /\ o.finalizer
Leaving(o) == o = NoTenant \/ o.deleting \/ ~o.finalizer

\* What an old copy still says about the object: a copy that is protected and
\* not terminating is of an object that is still protected; a terminating copy
\* is of an object that no later reconcile has protected again.
CacheInv ==
  /\ ~stale => cache = tenant
  /\ ~Leaving(cache) => GuardedBy(tenant)
  /\ cache # NoTenant /\ cache.deleting => Leaving(tenant)
  /\ tenant # NoTenant /\ tenant.deleting => tenant.finalizer

\* The steps that only a reconcile of a protected tenant reaches, and those of
\* reconcileDelete.
GuardedSteps == EnsureSteps \cup {"pending", "active", "setFailed"}
DeletionSteps == CleanUpSteps \cup {"deleting", "removeFinalizer"}

\* What the worker may rely on at each step of its reconcile.
WorkInv ==
  /\ w.fresh => w.step # "idle" /\ w.mem = tenant
  /\ w.step = "finalizer" =>
       ~w.mem.deleting /\ ~w.mem.finalizer /\ (w.fresh => cache = w.mem)
  /\ w.step \in GuardedSteps =>
       ~w.mem.deleting /\ w.mem.finalizer /\ GuardedBy(tenant)
  /\ w.step \in DeletionSteps =>
       w.mem.deleting /\ Leaving(cache) /\ Leaving(tenant)

\* reconcileDelete has released, or given up, what it has gone past.
ReleaseInv ==
  ~lost =>
    /\ w.step \in {"deleteNamespace", "removeFinalizer"} => ~capsule
    /\ w.step = "removeFinalizer" => ns # "active"

IInv ==
  /\ TypeOK /\ WorkerOK
  /\ CacheInv /\ WorkInv /\ ReleaseInv
  /\ NoOrphans

\* Which steps are whose, and where a reconcile of a version starts.
LEMMA StepClasses ==
  /\ "idle" \notin GuardedSteps \cup DeletionSteps
  /\ "finalizer" \notin GuardedSteps \cup DeletionSteps
  /\ GuardedSteps \cap DeletionSteps = {}
  /\ \A m \in Tenant :
       /\ ~m.deleting /\ m.finalizer => Stage(m) \in GuardedSteps
       /\ m.deleting => Stage(m) = "deleting"
<1>1. \A m \in Tenant : /\ ~m.deleting /\ m.finalizer =>
                             Stage(m) \in {"pending", "namespace"}
                        /\ m.deleting => Stage(m) = "deleting"
  BY StageFacts
<1> QED BY <1>1 DEF GuardedSteps, DeletionSteps, EnsureSteps, CleanUpSteps

\* The steps that touch neither the tenant nor the informer's copy of it.
LEMMA TenantUnchanged ==
  ASSUME TypeOK, WorkerOK,
         \/ Pick \/ Ensures \/ Deletes \/ NamespaceGone \/ AppSteps
         \/ TimerFire \/ NamespaceSync \/ QuotaSync \/ AppsSync \/ UNCHANGED vars
  PROVE  UNCHANGED <<tenant, cache, stale>>
<1>1. CASE Ensures
  BY <1>1, EnsureCalls
<1>2. CASE Deletes
  BY <1>2, DeleteCalls
<1>3. CASE AppSteps
  BY <1>3 DEF AppSteps, CreateApp, GuardApp, FinishApp, NamespaceDeletesApp, MoveApp,
              tenantVars
<1>4. CASE \/ Pick \/ NamespaceGone \/ TimerFire \/ NamespaceSync \/ QuotaSync
           \/ AppsSync \/ UNCHANGED vars
  BY <1>4 DEF Pick, NamespaceGone, TimerFire, NamespaceSync, QuotaSync, AppsSync,
              vars, tenantVars
<1> QED BY <1>1, <1>2, <1>3, <1>4

\* A write of a reconcile that takes effect is of one of three kinds: it
\* protects the tenant, it changes its phase, or it lets go of a terminating one.
LEMMA WriteEffect ==
  ASSUME TypeOK, WorkerOK, CacheInv, WorkInv, TenantWrites, tenant' # tenant
  PROVE  /\ w.fresh /\ w.step # "idle" /\ w.mem = tenant /\ tenant \in Tenant
         /\ stale' = TRUE
         /\ \/ /\ w.step = "finalizer"
               /\ ~tenant.deleting /\ ~tenant.finalizer /\ cache = tenant
               /\ tenant' \in Tenant /\ tenant'.spec = tenant.spec
               /\ ~tenant'.deleting /\ tenant'.finalizer
            \/ /\ w.step \in {"pending", "active", "setFailed", "deleting"}
               /\ tenant' \in Tenant /\ tenant'.spec = tenant.spec
               /\ tenant'.deleting = tenant.deleting
               /\ tenant'.finalizer = tenant.finalizer
            \/ /\ w.step = "removeFinalizer"
               /\ tenant.deleting /\ tenant.finalizer /\ Leaving(cache)
               /\ tenant' = NoTenant
<1>1. PICK new \in Tenant \cup {NoTenant} :
        /\ NewTenant(new)
        /\ w.fresh /\ tenant' = new /\ stale' = (stale \/ new # tenant)
  BY TenantWrite
<1>2. w.step # "idle" /\ w.mem = tenant /\ tenant \in Tenant
  BY <1>1, TenantWrite DEF WorkInv
<1>3. stale' = TRUE
  BY <1>1
<1>4. CASE w.step = "finalizer" /\ new = [w.mem EXCEPT !.finalizer = TRUE]
  <2>1. ~tenant.deleting /\ ~tenant.finalizer /\ cache = tenant
    BY <1>1, <1>2, <1>4 DEF WorkInv
  <2>2. /\ new \in Tenant /\ new.spec = tenant.spec /\ ~new.deleting
        /\ new.finalizer
    BY <1>2, <1>4, <2>1 DEF Tenant
  <2> QED BY <1>1, <1>2, <1>3, <1>4, <2>1, <2>2
<1>5. CASE /\ w.step \in {"pending", "active", "setFailed", "deleting"}
           /\ \E p \in Phases : new = InPhase(p)
  <2>1. PICK p \in Phases : new = [tenant EXCEPT !.phase = p]
    BY <1>2, <1>5 DEF InPhase
  <2>2. /\ new \in Tenant /\ new.spec = tenant.spec
        /\ new.deleting = tenant.deleting /\ new.finalizer = tenant.finalizer
    BY <1>2, <2>1 DEF Tenant
  <2> QED BY <1>1, <1>2, <1>3, <1>5, <2>2
<1>6. CASE w.step = "removeFinalizer" /\ new = NoTenant
  <2>1. w.step \in DeletionSteps
    BY <1>6 DEF DeletionSteps
  <2>2. tenant.deleting /\ Leaving(cache)
    BY <1>2, <2>1 DEF WorkInv
  <2>3. tenant.finalizer
    BY <1>2, <2>2, NoneAssumption DEF CacheInv
  <2> QED BY <1>1, <1>2, <1>3, <1>6, <2>2, <2>3
<1> QED BY <1>1, <1>4, <1>5, <1>6 DEF NewTenant

\* A write that changes nothing leaves the informer as up to date as it was.
LEMMA WriteNothing ==
  ASSUME TypeOK, WorkerOK, TenantWrites, tenant' = tenant
  PROVE  UNCHANGED <<cache, stale>>
<1>1. stale \in BOOLEAN
  BY DEF TypeOK
<1>2. PICK new : \/ UNCHANGED <<tenant, stale>>
                 \/ tenant' = new /\ stale' = (stale \/ new # tenant)
  BY TenantWrite
<1>3. cache' = cache
  BY TenantWrite
<1> QED BY <1>1, <1>2, <1>3

\* The informer never shows a version that the history of the tenant excludes,
\* however late the watch events are.
LEMMA CacheStep ==
  ASSUME TypeOK, WorkerOK, CacheInv, WorkInv, [Next]_vars
  PROVE  CacheInv'
<1>1. CASE UNCHANGED <<tenant, cache, stale>>
  BY <1>1 DEF CacheInv, Leaving, GuardedBy
<1>2. CASE CacheSync \/ Restart
  <2>1. cache' = tenant /\ tenant' = tenant
    BY <1>2 DEF CacheSync, Restart
  <2> QED BY <2>1 DEF CacheInv, Leaving, GuardedBy
<1>3. CASE TenantWrites /\ tenant' # tenant
  <2>1. cache' = cache
    BY <1>3, TenantWrite
  <2> QED BY <1>3, <2>1, WriteEffect, NoneAssumption DEF CacheInv, Leaving, GuardedBy
<1>4. CASE TenantWrites /\ tenant' = tenant
  BY <1>1, <1>4, WriteNothing
<1>5. CASE UserWrites
  <2>1. stale' = TRUE /\ cache' = cache
    BY <1>5, UserWrite
  <2>2. PICK new \in Tenant \cup {NoTenant} :
          /\ tenant' = new
          /\ \/ /\ tenant = NoTenant /\ new # NoTenant
                /\ ~new.finalizer /\ ~new.deleting
             \/ /\ tenant # NoTenant /\ new # NoTenant
                /\ new.finalizer = tenant.finalizer
                /\ new.deleting = tenant.deleting
             \/ /\ tenant # NoTenant /\ tenant.finalizer /\ ~tenant.deleting
                /\ new # NoTenant /\ new.finalizer /\ new.deleting
             \/ /\ tenant # NoTenant /\ ~tenant.finalizer /\ new = NoTenant
    BY <1>5, UserWrite
  <2> QED BY <2>1, <2>2 DEF CacheInv, Leaving, GuardedBy
<1> QED
  BY <1>1, <1>2, <1>3, <1>4, <1>5, NextCases, TenantUnchanged DEF Syncs

\* Between reconciles WorkInv and ReleaseInv ask for nothing.
LEMMA WorkIdle == w' = Idle => WorkInv' /\ ReleaseInv'
BY StepClasses DEF WorkInv, ReleaseInv, Idle

\* The parts of the worker after a write of the tenant that is not its last.
LEMMA WriteMove ==
  ASSUME WorkerOK, TenantWrites, w' # Idle
  PROVE  \E new \in Tenant :
           /\ NewTenant(new) /\ w.fresh /\ tenant' = new
           /\ w'.mem = new /\ w'.fresh = w.fresh
           /\ \/ w.step \in {"finalizer", "pending"} /\ w'.step = Stage(new)
              \/ w.step = "deleting" /\ w'.step = "listApps"
<1>1. PICK new \in Tenant \cup {NoTenant} :
        /\ NewTenant(new)
        /\ w.fresh /\ tenant' = new
        /\ \/ /\ w.step \in {"finalizer", "pending"}
              /\ new # NoTenant
              /\ w' = [w EXCEPT !.mem = new, !.step = Stage(new)]
           \/ /\ w.step = "deleting" /\ new # NoTenant
              /\ w' = [w EXCEPT !.mem = new, !.step = "listApps"]
  BY TenantWrite
<1>2. w \in Worker
  BY DEF WorkerOK
<1>3. /\ w'.mem = new /\ w'.fresh = w.fresh
      /\ \/ w.step \in {"finalizer", "pending"} /\ w'.step = Stage(new)
         \/ w.step = "deleting" /\ w'.step = "listApps"
  BY <1>1, <1>2 DEF Worker
<1> QED BY <1>1, <1>3

\* The parts of the worker after a call that does not write the tenant.
LEMMA CallMove ==
  ASSUME TypeOK, WorkerOK, Ensures \/ Deletes, w' # Idle
  PROVE  /\ w'.mem = w.mem /\ w'.fresh = w.fresh
         /\ \/ w.step \in EnsureSteps /\ w'.step \in GuardedSteps
            \/ w.step \in CleanUpSteps /\ w'.step \in DeletionSteps
<1>1. w \in Worker
  BY DEF WorkerOK
<1>2. CASE Ensures
  <2>1. PICK s \in GuardedSteps : w' = [w EXCEPT !.step = s]
    BY <1>2, EnsureCalls DEF GuardedSteps
  <2>2. w'.mem = w.mem /\ w'.fresh = w.fresh /\ w'.step = s
    BY <1>1, <2>1 DEF Worker
  <2> QED BY <1>2, <2>2, EnsureCalls
<1>3. CASE Deletes
  <2>1. w.step \in CleanUpSteps
    BY <1>3, DeleteCalls
  <2>2. \/ \E d \in SUBSET Apps : w' = [w EXCEPT !.drop = d]
        \/ \E s \in CleanUpSteps \cup {"removeFinalizer"} :
             \/ w' = [w EXCEPT !.step = s]
             \/ \E d \in SUBSET Apps : w' = [w EXCEPT !.drop = d, !.step = s]
    BY <1>3, DeleteCalls DEF CleanUpSteps
  <2>3. /\ w'.mem = w.mem /\ w'.fresh = w.fresh
        /\ w'.step \in CleanUpSteps \cup {"removeFinalizer"}
    BY <1>1, <2>1, <2>2 DEF Worker
  <2> QED BY <2>1, <2>3 DEF DeletionSteps
<1> QED BY <1>2, <1>3

\* The part of Reconcile the worker is in fits the copy it works on, and the
\* copy fits the tenant.
LEMMA WorkStep ==
  ASSUME TypeOK, WorkerOK, CacheInv, WorkInv, [Next]_vars
  PROVE  WorkInv'
<1>1. CASE UNCHANGED <<tenant, cache, w>>
  BY <1>1 DEF WorkInv, GuardedBy, Leaving
<1>2. CASE w' = Idle
  BY <1>2, WorkIdle
<1>3. CASE TenantWrites /\ w' # Idle
  <2>1. PICK new \in Tenant :
          /\ NewTenant(new) /\ w.fresh /\ tenant' = new
          /\ w'.mem = new /\ w'.fresh = w.fresh
          /\ \/ w.step \in {"finalizer", "pending"} /\ w'.step = Stage(new)
             \/ w.step = "deleting" /\ w'.step = "listApps"
    BY <1>3, WriteMove
  <2>2. cache' = cache /\ new # NoTenant /\ w.mem \in Tenant
    BY <1>3, TenantWrite, NoneAssumption
  <2>3. CASE w.step = "finalizer" \/ w.step = "pending"
    <3>1. ~new.deleting /\ new.finalizer
      <4>1. ~w.mem.deleting /\ (w.step = "pending" => w.mem.finalizer)
        BY <2>3 DEF WorkInv, GuardedSteps
      <4>2. CASE w.step = "finalizer"
        BY <2>1, <2>2, <4>1, <4>2 DEF NewTenant, Tenant
      <4>3. CASE w.step = "pending"
        BY <2>1, <2>2, <4>1, <4>3 DEF NewTenant, InPhase, Tenant
      <4> QED BY <2>3, <4>2, <4>3
    <3>2. w'.step \in GuardedSteps
      BY <2>1, <2>3, <3>1, StepClasses
    <3> QED BY <2>1, <2>2, <3>1, <3>2, StepClasses DEF WorkInv, GuardedBy
  <2>4. CASE w.step = "deleting"
    <3>1. w.mem.deleting /\ Leaving(cache)
      BY <2>4 DEF WorkInv, DeletionSteps
    <3>2. new.deleting
      BY <2>1, <2>2, <2>4, <3>1 DEF NewTenant, InPhase, Tenant
    <3>3. w'.step = "listApps" /\ "listApps" \in DeletionSteps
      BY <2>1, <2>4 DEF DeletionSteps, CleanUpSteps
    <3>4. w'.step \in DeletionSteps \ (GuardedSteps \cup {"finalizer", "idle"})
      BY <3>3, StepClasses
    <3> QED BY <2>1, <2>2, <3>1, <3>2, <3>4 DEF WorkInv, Leaving
  <2> QED BY <2>1, <2>3, <2>4
<1>4. CASE (Ensures \/ Deletes) /\ w' # Idle
  <2>1. UNCHANGED <<tenant, cache>>
    BY <1>4, TenantUnchanged
  <2>2. EnsureSteps \subseteq GuardedSteps /\ CleanUpSteps \subseteq DeletionSteps
    BY DEF GuardedSteps, DeletionSteps
  <2> QED BY <1>4, <2>1, <2>2, CallMove, StepClasses DEF WorkInv, GuardedBy, Leaving
<1>5. CASE Pick /\ w' # Idle
  <2>1. /\ cache \in Tenant /\ UNCHANGED <<tenant, cache>>
        /\ w'.step = Stage(cache) /\ w'.mem = cache /\ w'.fresh = ~stale
    BY <1>5 DEF Pick, Idle, TypeOK, tenantVars
  <2>2. CASE cache.deleting
    <3>1. w'.step = "deleting" /\ "deleting" \in DeletionSteps
      BY <2>1, <2>2, StepClasses DEF DeletionSteps
    <3>2. w'.step \in DeletionSteps \ (GuardedSteps \cup {"finalizer", "idle"})
      BY <3>1, StepClasses
    <3> QED BY <2>1, <2>2, <3>2, NoneAssumption
            DEF WorkInv, CacheInv, GuardedBy, Leaving
  <2>3. CASE ~cache.deleting /\ cache.finalizer
    <3>1. w'.step \in GuardedSteps \ (DeletionSteps \cup {"finalizer", "idle"})
      BY <2>1, <2>3, StepClasses
    <3> QED BY <2>1, <2>3, <3>1, NoneAssumption
            DEF WorkInv, CacheInv, GuardedBy, Leaving
  <2>4. CASE ~cache.deleting /\ ~cache.finalizer
    <3>1. w'.step = "finalizer"
      BY <2>1, <2>4, StageFacts
    <3> QED BY <2>1, <2>4, <3>1, StepClasses DEF WorkInv, CacheInv
  <2> QED BY <2>2, <2>3, <2>4
<1>6. CASE UserWrites
  <2>1. cache' = cache /\ w' = [w EXCEPT !.fresh = FALSE]
    BY <1>6, UserWrite
  <2>2. w'.step = w.step /\ w'.mem = w.mem /\ ~w'.fresh
    BY <2>1 DEF WorkerOK, Worker
  <2>3. /\ GuardedBy(tenant) => GuardedBy(tenant')
        /\ Leaving(tenant) => Leaving(tenant')
    BY <1>6, UserWrite DEF GuardedBy, Leaving
  <2> QED BY <2>1, <2>2, <2>3 DEF WorkInv, GuardedBy, Leaving
<1>7. CASE CacheSync
  <2>1. tenant' = tenant /\ cache' = tenant /\ w' = w
    BY <1>7 DEF CacheSync
  <2> QED BY <2>1, StepClasses DEF WorkInv, GuardedBy, Leaving
<1>8. CASE \/ TimerFire \/ NamespaceSync \/ QuotaSync \/ AppsSync \/ NamespaceGone
           \/ AppSteps \/ UNCHANGED vars
  <2>1. w' = w
    BY <1>8 DEF TimerFire, NamespaceSync, QuotaSync, AppsSync, NamespaceGone, AppSteps,
                CreateApp, GuardApp, FinishApp, NamespaceDeletesApp, MoveApp, vars
  <2> QED BY <1>1, <1>8, <2>1, TenantUnchanged
<1>9. Restart => w' = Idle
  BY DEF Restart
<1> QED
  BY <1>2, <1>3, <1>4, <1>5, <1>6, <1>7, <1>8, <1>9, NextCases DEF Syncs

\* At every other step ReleaseInv asks for nothing.
LEMMA ReleaseElsewhere ==
  w'.step \notin {"deleteNamespace", "removeFinalizer"} => ReleaseInv'
BY DEF ReleaseInv

\* The clean-up of reconcileDelete goes through its resources in order, and what
\* it has passed is gone or given up.
LEMMA ReleaseStep ==
  ASSUME TypeOK, WorkerOK, ReleaseInv, [Next]_vars
  PROVE  ReleaseInv'
<1>1. CASE UNCHANGED <<capsule, lost>> /\ w'.step = w.step /\ ns' \in {ns, "none"}
  BY <1>1 DEF ReleaseInv
<1>2. CASE w' = Idle
  BY <1>2, WorkIdle
<1>3. \A m \in Tenant : Stage(m) \notin {"deleteNamespace", "removeFinalizer"}
  BY StageFacts
<1>4. CASE TenantWrites /\ w' # Idle
  <2>1. w'.step \notin {"deleteNamespace", "removeFinalizer"}
    BY <1>3, <1>4, WriteMove
  <2> QED BY <2>1, ReleaseElsewhere
<1>5. CASE Pick /\ w' # Idle
  <2>1. cache \in Tenant /\ w'.step = Stage(cache)
    BY <1>5 DEF Pick, Idle, TypeOK
  <2> QED BY <1>3, <2>1, ReleaseElsewhere
<1>6. CASE Ensures
  <2>1. w \in Worker
    BY DEF WorkerOK
  <2>2. \E t \in EnsureSteps \cup {"active", "setFailed"} :
          w' = [w EXCEPT !.step = t]
    BY <1>6, EnsureCalls
  <2>3. w'.step \notin {"deleteNamespace", "removeFinalizer"}
    BY <2>1, <2>2 DEF Worker, EnsureSteps
  <2> QED BY <2>3, ReleaseElsewhere
<1>7. CASE Deletes
  <2>0. w \in Worker
    BY DEF WorkerOK
  <2>1. CASE w.step \in {"listApps", "deleteApps"}
    <3>1. \/ w' = Idle
          \/ \E d \in SUBSET Apps : w' = [w EXCEPT !.drop = d]
          \/ \E d \in SUBSET Apps, t \in {"deletePolicy", "deleteApps"} :
               w' = [w EXCEPT !.drop = d, !.step = t]
          \/ w' = [w EXCEPT !.step = "deletePolicy"]
      BY <1>7, <2>1, DeleteCalls
    <3>2. w' = Idle \/ w'.step \notin {"deleteNamespace", "removeFinalizer"}
      BY <2>0, <2>1, <3>1 DEF Worker
    <3> QED BY <1>2, <3>2, ReleaseElsewhere
  <2>2. CASE w.step = "deletePolicy"
    <3>1. w' = [w EXCEPT !.step = "deleteCapsule"]
      BY <1>7, <2>2, DeleteCalls
    <3>2. w'.step = "deleteCapsule"
      BY <2>0, <3>1 DEF Worker
    <3> QED BY <3>2, ReleaseElsewhere
  <2>3. CASE w.step = "deleteCapsule"
    <3>1. /\ w' = [w EXCEPT !.step = "deleteNamespace"]
          /\ capsule' = FALSE \/ lost' = TRUE
      BY <1>7, <2>3, DeleteCalls
    <3>2. w'.step = "deleteNamespace"
      BY <2>0, <3>1 DEF Worker
    <3> QED BY <3>1, <3>2 DEF ReleaseInv
  <2>4. CASE w.step = "deleteNamespace"
    <3>1. /\ w' = [w EXCEPT !.step = "removeFinalizer"]
          /\ lost' \in {lost, TRUE} /\ (lost' \/ ns' # "active")
          /\ capsule' = capsule
      BY <1>7, <2>4, DeleteCalls
    <3>2. w'.step = "removeFinalizer"
      BY <2>0, <3>1 DEF Worker
    <3>3. ~lost' => ~lost
      BY <3>1
    <3> QED BY <2>4, <3>1, <3>2, <3>3 DEF ReleaseInv
  <2> QED BY <1>7, <2>1, <2>2, <2>3, <2>4, DeleteCalls
<1>8. CASE UserWrites
  <2>1. UNCHANGED <<capsule, lost, ns>> /\ w' = [w EXCEPT !.fresh = FALSE]
    BY <1>8, UserWrite
  <2>2. w'.step = w.step
    BY <2>1 DEF WorkerOK, Worker
  <2> QED BY <1>1, <2>1, <2>2
<1>9. CASE Syncs \/ NamespaceGone \/ AppSteps \/ UNCHANGED vars
  BY <1>1, <1>9
  DEF Syncs, CacheSync, TimerFire, NamespaceSync, QuotaSync, AppsSync, NamespaceGone,
      AppSteps, CreateApp, GuardApp, FinishApp, NamespaceDeletesApp, MoveApp, vars,
      nsVars, partVars
<1>10. Restart => w' = Idle
  BY DEF Restart
<1> QED
  BY <1>2, <1>4, <1>5, <1>6, <1>7, <1>8, <1>9, <1>10, NextCases

\* Only the calls that ensure the tenant's parts make what the tenant holds.
LEMMA AcquireOnly ==
  ASSUME TypeOK, WorkerOK, WorkInv, [Next]_vars, ~Holds, Holds'
  PROVE  Ensures /\ UNCHANGED <<tenant, lost>> /\ GuardedBy(tenant)
<1>1. CASE Ensures
  <2>1. w.step \in GuardedSteps /\ UNCHANGED <<tenant, lost>>
    BY <1>1, EnsureCalls DEF GuardedSteps
  <2> QED BY <1>1, <2>1 DEF WorkInv
<1>2. CASE UNCHANGED <<capsule, ns>>
  BY <1>2 DEF Holds
<1>3. CASE Deletes
  <2>1. ns \in {"none", "active", "terminating"}
    BY DEF TypeOK
  <2>2. /\ capsule' = capsule \/ capsule' = FALSE
        /\ ns' = ns \/ ns' = Terminated
    BY <1>3, DeleteCalls
  <2> QED BY <2>1, <2>2 DEF Holds, Terminated
<1>4. CASE NamespaceGone
  BY <1>4 DEF NamespaceGone, Holds
<1>5. CASE Pick \/ Syncs \/ Restart \/ AppSteps \/ UNCHANGED vars
  BY <1>2, <1>5
  DEF Pick, Syncs, CacheSync, TimerFire, NamespaceSync, QuotaSync, AppsSync, Restart,
      AppSteps, CreateApp, GuardApp, FinishApp, NamespaceDeletesApp, MoveApp, vars,
      nsVars, partVars
<1> QED
  BY <1>1, <1>2, <1>3, <1>4, <1>5, NextCases, TenantWrite, UserWrite

\* What is given up stays given up, and only the clean-up gives up.
LEMMA LostGrows ==
  ASSUME TypeOK, WorkerOK, [Next]_vars
  PROVE  /\ lost => lost'
         /\ tenant' # tenant => UNCHANGED <<capsule, ns, lost>>
<1>1. CASE TenantWrites
  <2>1. UNCHANGED <<capsule, ns, lost>>
    BY <1>1, TenantWrite
  <2> QED BY <2>1
<1>2. CASE UserWrites
  <2>1. UNCHANGED <<capsule, ns, lost>>
    BY <1>2, UserWrite
  <2> QED BY <2>1
<1>3. CASE Ensures
  <2>1. UNCHANGED <<tenant, lost>>
    BY <1>3, EnsureCalls
  <2> QED BY <2>1
<1>4. CASE Deletes
  <2>1. tenant' = tenant /\ (lost' = lost \/ lost' = TRUE)
    BY <1>4, DeleteCalls
  <2> QED BY <2>1
<1>5. CASE \/ Pick \/ Syncs \/ Restart \/ NamespaceGone \/ AppSteps \/ UNCHANGED vars
  BY <1>5
  DEF Pick, Syncs, CacheSync, TimerFire, NamespaceSync, QuotaSync, AppsSync, Restart,
      NamespaceGone, AppSteps, CreateApp, GuardApp, FinishApp, NamespaceDeletesApp,
      MoveApp, vars, tenantVars
<1> QED BY <1>1, <1>2, <1>3, <1>4, <1>5, NextCases

\* Who changes the tenant.
LEMMA Writers ==
  ASSUME TypeOK, WorkerOK, [Next]_vars, tenant' # tenant
  PROVE  TenantWrites \/ UserWrites
BY NextCases, TenantUnchanged DEF Syncs, CacheSync, Restart

\* What exists belongs to a protected tenant: it is made for one, and the
\* tenant is let go of only when it is gone or given up.
LEMMA OrphanStep ==
  ASSUME TypeOK, WorkerOK, CacheInv, WorkInv, ReleaseInv, NoOrphans, [Next]_vars
  PROVE  NoOrphans'
<1> SUFFICES ASSUME Holds', ~lost' PROVE GuardedBy(tenant')
  BY DEF NoOrphans, Exists, GuardedBy
<1>1. ~lost
  BY LostGrows
<1>2. CASE ~Holds
  BY <1>2, AcquireOnly
<1>3. CASE Holds
  <2>1. GuardedBy(tenant)
    BY <1>1, <1>3 DEF NoOrphans, Exists, GuardedBy
  <2>2. CASE tenant' = tenant
    BY <2>1, <2>2
  <2>3. CASE TenantWrites /\ tenant' # tenant
    <3>1. CASE w.step = "removeFinalizer"
      BY <1>1, <1>3, <3>1 DEF ReleaseInv, Holds
    <3>2. CASE w.step # "removeFinalizer"
      BY <2>1, <2>3, <3>2, WriteEffect, NoneAssumption DEF GuardedBy
    <3> QED BY <3>1, <3>2
  <2>4. CASE UserWrites
    BY <2>1, <2>4, UserWrite DEF GuardedBy
  <2> QED BY <2>2, <2>3, <2>4, Writers
<1> QED BY <1>2, <1>3

-----------------------------------------------------------------------------
(* Theorems *)

\* The inductive invariant holds, from a cluster without the tenant on.
THEOREM Invariance == Spec => []IInv
<1>1. Init => IInv
  <2> SUFFICES ASSUME Init PROVE IInv
    OBVIOUS
  <2>1. TypeOK /\ WorkerOK
    BY TypeInit
  <2>2. CacheInv
    BY DEF Init, CacheInv, Leaving
  <2>3. WorkInv
    <3>1. w.step = "idle" /\ w.fresh = FALSE
      BY DEF Init, Idle
    <3> QED BY <3>1, StepClasses DEF WorkInv
  <2>4. ReleaseInv
    BY DEF Init, Idle, ReleaseInv
  <2>5. NoOrphans
    BY DEF Init, NoOrphans, Holds
  <2> QED BY <2>1, <2>2, <2>3, <2>4, <2>5 DEF IInv
<1>2. IInv /\ [Next]_vars => IInv'
  BY TypeStep, CacheStep, WorkStep, ReleaseStep, OrphanStep DEF IInv
<1> QED BY <1>1, <1>2, PTL DEF Spec

\* The tenant's namespace and Capsule tenant exist only while the finalizer
\* holds the Tenant, unless their clean-up was given up: no order of stale
\* reads, conflicts, failing calls and restarts leaves them behind.
THEOREM NoOrphansSafe == Spec => []NoOrphans
<1>1. IInv => NoOrphans
  BY DEF IInv
<1> QED BY <1>1, Invariance, PTL

-----------------------------------------------------------------------------
(* The controller implements FinalizerProtocol *)

\* A step that leaves the tenant alone makes its parts, deletes them, gives
\* their clean-up up, or is not seen by the protocol.
LEMMA ResourceStep ==
  ASSUME IInv, [Next]_vars, UNCHANGED tenant
  PROVE  Protocol!Next \/ UNCHANGED Protocol!vars
<1> DEFINE phase == [o \in {"tenant"} |-> StageOf]
           holding == {o \in {"tenant"} : Holds}
           abandoned == {o \in {"tenant"} : lost}
<1> USE DEF IInv
<1>1. phase' = phase
  BY DEF StageOf, Exists
<1>2. CASE ~Holds /\ Holds'
  <2>1. lost' = lost /\ GuardedBy(tenant)
    BY <1>2, AcquireOnly
  <2>2. phase["tenant"] \in {"guarded", "closing"}
    BY <2>1 DEF StageOf, Exists, GuardedBy
  <2>3. holding' = holding \cup {"tenant"}
    BY <1>2
  <2>4. Protocol!Acquire("tenant")
    BY <1>1, <2>1, <2>2, <2>3 DEF Protocol!Acquire, Protocol!Guarded
  <2> QED BY <2>4 DEF Protocol!Next
<1>3. CASE Holds' => Holds
  <2>1. holding' \in {holding, holding \ {"tenant"}}
    BY <1>3
  <2>2. CASE lost' = lost
    <3>1. abandoned' = abandoned
      BY <2>2
    <3>2. CASE holding' = holding
      BY <1>1, <3>1, <3>2 DEF Protocol!vars
    <3>3. CASE holding' = holding \ {"tenant"}
      BY <1>1, <3>1, <3>3 DEF Protocol!Next, Protocol!Release
    <3> QED BY <2>1, <3>2, <3>3
  <2>3. CASE ~lost /\ lost'
    <3>1. abandoned' = abandoned \cup {"tenant"}
      BY <2>3
    <3> QED BY <1>1, <2>1, <3>1 DEF Protocol!Next, Protocol!Abandon
  <2>4. lost \in BOOLEAN /\ lost' \in BOOLEAN /\ (lost => lost')
    BY LostGrows, TypeStep DEF TypeOK
  <2> QED BY <2>2, <2>3, <2>4
<1> QED BY <1>2, <1>3

\* A write of the tenant is one of the protocol's moves.
LEMMA MoveStep ==
  ASSUME IInv, [Next]_vars,
         \/ StageOf' = StageOf
         \/ StageOf = "none" /\ StageOf' = "open"
         \/ StageOf = "open" /\ StageOf' \in {"guarded", "none"}
         \/ StageOf = "guarded" /\ StageOf' = "closing"
         \/ StageOf = "closing" /\ StageOf' = "none" /\ (~Holds \/ lost),
         UNCHANGED <<capsule, ns, lost>>
  PROVE  Protocol!Next \/ UNCHANGED Protocol!vars
<1> DEFINE phase == [o \in {"tenant"} |-> StageOf]
           holding == {o \in {"tenant"} : Holds}
           abandoned == {o \in {"tenant"} : lost}
<1>1. holding' = holding /\ abandoned' = abandoned
  BY DEF Holds
<1>2. /\ phase' = [phase EXCEPT !["tenant"] = StageOf'] /\ phase["tenant"] = StageOf
      /\ "tenant" \in holding <=> Holds
      /\ "tenant" \in abandoned <=> lost
  OBVIOUS
<1>3. ASSUME NEW from, NEW to, StageOf = from, StageOf' = to
      PROVE  Protocol!Move("tenant", from, to)
  BY <1>1, <1>2, <1>3 DEF Protocol!Move
<1>4. CASE StageOf' = StageOf
  BY <1>1, <1>4 DEF Protocol!vars
<1>5. CASE StageOf = "none" /\ StageOf' = "open"
  BY <1>3, <1>5 DEF Protocol!Next, Protocol!Create
<1>6. CASE StageOf = "open" /\ StageOf' \in {"guarded", "none"}
  BY <1>3, <1>6 DEF Protocol!Next, Protocol!Guard, Protocol!RequestDeletion
<1>7. CASE StageOf = "guarded" /\ StageOf' = "closing"
  BY <1>3, <1>7 DEF Protocol!Next, Protocol!RequestDeletion
<1>8. CASE StageOf = "closing" /\ StageOf' = "none" /\ (~Holds \/ lost)
  BY <1>2, <1>3, <1>8 DEF Protocol!Next, Protocol!Finish
<1> QED BY <1>4, <1>5, <1>6, <1>7, <1>8

\* Every behaviour of the controller, its runtime and its environment is one of
\* the finalizer protocol.
THEOREM Implements == Spec => ImplementsProtocol
<1>1. Init => Protocol!Init
  <2> SUFFICES ASSUME Init PROVE Protocol!Init
    OBVIOUS
  <2>1. /\ [o \in {"tenant"} |-> StageOf] = [o \in {"tenant"} |-> "none"]
        /\ {o \in {"tenant"} : Holds} = {} /\ {o \in {"tenant"} : lost} = {}
    BY DEF Init, StageOf, Exists, Holds
  <2> QED BY <2>1 DEF Protocol!Init
<1>2. IInv /\ [Next]_vars => [Protocol!Next]_(Protocol!vars)
  <2> SUFFICES ASSUME IInv, [Next]_vars
               PROVE  Protocol!Next \/ UNCHANGED Protocol!vars
    OBVIOUS
  <2> USE DEF IInv
  <2>1. CASE tenant' = tenant
    BY <2>1, ResourceStep
  <2>2. CASE TenantWrites /\ tenant' # tenant
    <3>1. \/ StageOf' = StageOf
          \/ StageOf = "open" /\ StageOf' = "guarded"
          \/ /\ w.step = "removeFinalizer"
             /\ StageOf = "closing" /\ StageOf' = "none"
      BY <2>2, WriteEffect, NoneAssumption DEF StageOf, Exists
    <3>2. w.step = "removeFinalizer" => ~Holds \/ lost
      BY DEF ReleaseInv, Holds
    <3> QED BY <2>2, <3>1, <3>2, LostGrows, MoveStep
  <2>3. CASE UserWrites /\ tenant' # tenant
    <3>1. \/ StageOf' = StageOf
          \/ StageOf = "none" /\ StageOf' = "open"
          \/ StageOf = "open" /\ StageOf' = "none"
          \/ StageOf = "guarded" /\ StageOf' = "closing"
      BY <2>3, UserWrite DEF StageOf, Exists
    <3> QED BY <2>3, <3>1, LostGrows, MoveStep
  <2> QED BY <2>1, <2>2, <2>3, Writers
<1> QED BY <1>1, <1>2, Invariance, PTL DEF Spec, ImplementsProtocol, Protocol!Spec

-----------------------------------------------------------------------------
(* The controller keeps the contract of CustomResource *)

SpecOf == IF Exists THEN tenant.spec ELSE NoTenant

\* A step of the contract, said of the one tenant.
LEMMA ContractMove ==
  ASSUME NEW from, NEW to, StageOf = from, StageOf' = to
  PROVE  /\ Contract!Move("tenant", from, to)
         /\ SpecOf' = SpecOf =>
              UNCHANGED [o \in {"tenant"} |-> IF Exists THEN tenant.spec ELSE NoTenant]
         /\ \A s : SpecOf' = s => Contract!Ask("tenant", s)
         /\ from = to => UNCHANGED [o \in {"tenant"} |-> StageOf]
BY DEF Contract!Move, Contract!Ask, SpecOf

\* A write of the worker protects the tenant, lets go of it, or is not seen.
LEMMA WorkerKeeps ==
  ASSUME IInv, TenantWrites, tenant' # tenant
  PROVE  Contract!OperatorStep("tenant") \/ UNCHANGED Contract!vars
<1> USE DEF IInv
<1>0. tenant \in Tenant /\ tenant # NoTenant /\ tenant' \in Tenant \cup {NoTenant}
  BY WriteEffect, NoneAssumption
<1>1. CASE w.step = "finalizer"
  <2>1. StageOf = "open" /\ StageOf' = "guarded" /\ SpecOf' = SpecOf
    BY <1>0, <1>1, WriteEffect, NoneAssumption DEF StageOf, Exists, SpecOf
  <2> QED BY <2>1, ContractMove DEF Contract!OperatorStep, Contract!Guard
<1>2. CASE w.step \in {"pending", "active", "setFailed", "deleting"}
  <2>1. StageOf' = StageOf /\ SpecOf' = SpecOf
    BY <1>0, <1>2, WriteEffect, NoneAssumption DEF StageOf, Exists, SpecOf
  <2>2. PICK t : StageOf = t /\ StageOf' = t
    BY <2>1
  <2> QED BY <2>1, <2>2, ContractMove DEF Contract!vars
<1>3. CASE w.step = "removeFinalizer"
  <2>1. StageOf = "closing" /\ StageOf' = "none" /\ SpecOf' = NoTenant
    BY <1>0, <1>3, WriteEffect DEF StageOf, Exists, SpecOf
  <2> QED BY <2>1, ContractMove DEF Contract!OperatorStep, Contract!Finish
<1> QED BY <1>1, <1>2, <1>3, WriteEffect

\* A user's step is one of a client.
LEMMA UserKeeps ==
  ASSUME IInv, UserWrites
  PROVE  Contract!ClientStep("tenant")
<1>0. tenant \in Tenant \cup {NoTenant}
  BY DEF IInv, TypeOK
<1>1. CASE CreateTenant
  <2> DEFINE New(s) ==
        [spec |-> s, finalizer |-> FALSE, deleting |-> FALSE, phase |-> ""]
  <2>1. PICK s \in Specs : tenant' = New(s)
    BY <1>1 DEF CreateTenant, WriteByUser
  <2>2. New(s) # NoTenant /\ New(s).spec = s /\ ~New(s).finalizer
    <3>1. s \in TenantSpec /\ "" \in Phases
      BY SpecsAssumption DEF Phases
    <3>2. New(s) \in Tenant
      BY <3>1 DEF Tenant
    <3> QED BY <3>2, NoneAssumption
  <2> HIDE DEF New
  <2>3. StageOf = "none" /\ StageOf' = "open" /\ SpecOf' = s
    BY <1>1, <2>1, <2>2 DEF CreateTenant, StageOf, Exists, SpecOf
  <2> QED BY <2>3, ContractMove DEF Contract!ClientStep, Contract!Create
<1>2. CASE EditTenant
  <2>1. PICK s \in Specs : tenant' = [tenant EXCEPT !.spec = s]
    BY <1>2 DEF EditTenant, WriteByUser
  <2> DEFINE new == [tenant EXCEPT !.spec = s]
  <2>2. /\ tenant # NoTenant /\ new # NoTenant /\ new.spec = s
        /\ new.finalizer = tenant.finalizer /\ new.deleting = tenant.deleting
    BY <1>0, <1>2, SpecsAssumption, NoneAssumption DEF EditTenant, Tenant
  <2>3. tenant' = new
    BY <2>1
  <2> HIDE DEF new
  <2>4. StageOf' = StageOf /\ StageOf # "none" /\ SpecOf' = s
    BY <2>2, <2>3 DEF StageOf, Exists, SpecOf
  <2>5. PICK t : StageOf = t /\ StageOf' = t
    BY <2>4
  <2>6. Contract!Ask("tenant", s) /\ UNCHANGED [o \in {"tenant"} |-> StageOf]
    BY <2>4, <2>5, ContractMove
  <2> QED BY <2>4, <2>6 DEF Contract!ClientStep, Contract!Edit
<1>3. CASE DeleteTenant
  <2>0. tenant \in Tenant /\ tenant # NoTenant /\ ~tenant.deleting
    BY <1>0, <1>3 DEF DeleteTenant
  <2>1. CASE tenant.finalizer
    <3> DEFINE new == [tenant EXCEPT !.deleting = TRUE]
    <3>1. tenant' = new
      BY <1>3, <2>1 DEF DeleteTenant, WriteByUser
    <3>2. /\ new # NoTenant /\ new.spec = tenant.spec /\ new.finalizer
          /\ new.deleting
      BY <2>0, <2>1, NoneAssumption DEF Tenant
    <3> HIDE DEF new
    <3>3. StageOf = "guarded" /\ StageOf' = "closing" /\ SpecOf' = SpecOf
      BY <2>0, <2>1, <3>1, <3>2 DEF StageOf, Exists, SpecOf
    <3> QED BY <3>3, ContractMove DEF Contract!ClientStep, Contract!Delete
  <2>2. CASE ~tenant.finalizer
    <3>1. tenant' = NoTenant
      BY <1>3, <2>2 DEF DeleteTenant, WriteByUser
    <3>2. StageOf = "open" /\ StageOf' = "none" /\ SpecOf' = NoTenant
      BY <2>0, <2>2, <3>1 DEF StageOf, Exists, SpecOf
    <3> QED BY <3>2, ContractMove DEF Contract!ClientStep, Contract!Delete
  <2> QED BY <2>1, <2>2
<1> QED BY <1>1, <1>2, <1>3 DEF UserWrites

\* To the Tenant the operator does only what the contract leaves to it, and users
\* do what it leaves to clients: a reconcile's write of the whole object, from a
\* copy that a user's change has overtaken, is refused.
THEOREM KeepsContractSafe == Spec => KeepsContract
<1> DEFINE Keeps == IF edits' # edits THEN Contract!ClientStep("tenant")
                   ELSE Contract!OperatorStep("tenant")
<1>1. Init => Contract!Init
  BY DEF Init, StageOf, Exists, Contract!Init
<1>2. IInv /\ [Next]_vars => [Keeps]_(Contract!vars)
  <2> SUFFICES ASSUME IInv, [Next]_vars PROVE Keeps \/ UNCHANGED Contract!vars
    OBVIOUS
  <2>1. CASE tenant' = tenant
    BY <2>1 DEF Contract!vars, StageOf, Exists
  <2>2. CASE TenantWrites /\ tenant' # tenant
    <3>1. edits' = edits
      BY <2>2, TenantWrite DEF IInv
    <3> QED BY <2>2, <3>1, WorkerKeeps
  <2>3. CASE UserWrites
    <3>1. edits' = edits + 1
      BY <2>3, UserWrite DEF IInv
    <3>2. edits \in Nat
      BY BoundsAssumption DEF IInv, TypeOK
    <3> QED BY <2>3, <3>1, <3>2, UserKeeps
  <2> QED BY <2>1, <2>2, <2>3, Writers DEF IInv
<1> QED BY <1>1, <1>2, Invariance, PTL DEF Spec, KeepsContract

-----------------------------------------------------------------------------
(* A tenant that is there will be looked at again *)

\* Something will bring the tenant back to a reconcile.
Remembered == Exists => queued \/ delayed \/ stale \/ w.step # "idle"

\* A reconcile that ends comes back, or the tenant is gone.
LEMMA EndsRemembered ==
  ASSUME TypeOK, WorkerOK, TenantWrites \/ Ensures \/ Deletes
  PROVE  w'.step # "idle" \/ delayed' \/ tenant' = NoTenant
<1>0. w \in Worker
  BY DEF WorkerOK
<1>1. CASE TenantWrites
  <2>1. CASE AddFinalizer \/ SetPending
    <3>1. delayed' \/ w' # Idle
      <4>1. \/ delayed'
            \/ w' = [w EXCEPT !.mem = [w.mem EXCEPT !.finalizer = TRUE],
                              !.step = Stage([w.mem EXCEPT !.finalizer = TRUE])]
            \/ w' = [w EXCEPT !.mem = InPhase("Pending"),
                              !.step = Stage(InPhase("Pending"))]
        BY <2>1 DEF AddFinalizer, SetPending, WriteTenant, Requeue, Continue
      <4>2. \A m \in Tenant : Stage(m) # "idle"
        BY StageFacts
      <4>3. [w.mem EXCEPT !.finalizer = TRUE] \in Tenant /\ InPhase("Pending") \in Tenant
        <5>1. w.mem \in Tenant /\ "Pending" \in Phases
          BY <1>1, TenantWrite DEF Phases
        <5> QED BY <5>1, InPhaseType DEF Tenant
      <4>4. delayed' \/ w'.step # "idle"
        BY <1>0, <4>1, <4>2, <4>3 DEF Worker
      <4> QED BY <4>4 DEF Idle
    <3>2. w' # Idle => w'.step # "idle"
      <4>1. WorkerOK'
        BY <1>1, TypeStep DEF Next, Work, TenantWrites
      <4> QED BY <4>1 DEF WorkerOK
    <3> QED BY <3>1, <3>2
  <2>2. CASE SetActive \/ SetFailed
    BY <2>2 DEF SetActive, SetFailed, WriteTenant, Requeue
  <2>3. CASE SetDeleting
    <3>1. delayed' \/ w' = [w EXCEPT !.mem = InPhase("Deleting"), !.step = "listApps"]
      BY <2>3 DEF SetDeleting, WriteTenant, Requeue
    <3> QED BY <1>0, <3>1 DEF Worker
  <2>4. CASE RemoveFinalizer
    BY <2>4 DEF RemoveFinalizer, WriteTenant, Written, Store, Requeue
  <2> QED BY <1>1, <2>1, <2>2, <2>3, <2>4 DEF TenantWrites
<1>2. CASE Ensures
  <2>1. PICK s \in EnsureSteps \cup {"active", "setFailed"} : w' = [w EXCEPT !.step = s]
    BY <1>2, EnsureCalls
  <2> QED BY <1>0, <2>1 DEF Worker, EnsureSteps
<1>3. CASE Deletes
  <2>1. CASE DeleteApps
    <3>1. w.step = "deleteApps"
      BY <2>1 DEF DeleteApps
    <3>2. delayed' \/ \E a \in w.drop : w' = [w EXCEPT !.drop = @ \ {a}]
      BY <2>1 DEF DeleteApps, Requeue
    <3> QED BY <1>0, <3>1, <3>2 DEF Worker
  <2>2. CASE ListApps
    <3>1. \/ w' = [w EXCEPT !.drop = appsSeen, !.step = "deletePolicy"]
          \/ w' = [w EXCEPT !.drop = appsSeen, !.step = "deleteApps"]
          \/ w' = [w EXCEPT !.step = "deletePolicy"]
      BY <2>2 DEF ListApps, GoTo
    <3> QED BY <1>0, <3>1 DEF Worker
  <2>3. CASE DeletePolicy \/ DeleteCapsule \/ DeleteNamespace
    <3>1. \E s \in {"deleteCapsule", "deleteNamespace", "removeFinalizer"} :
            w' = [w EXCEPT !.step = s]
      BY <2>3 DEF DeletePolicy, DeleteCapsule, DeleteNamespace, GoTo
    <3> QED BY <1>0, <3>1 DEF Worker
  <2> QED BY <1>3, <2>1, <2>2, <2>3 DEF Deletes
<1> QED BY <1>1, <1>2, <1>3

\* No step forgets a tenant.
LEMMA RememberedStep ==
  ASSUME IInv, Remembered, [Next]_vars
  PROVE  Remembered'
<1> USE DEF IInv
<1>1. CASE TenantWrites \/ Ensures \/ Deletes
  BY <1>1, EndsRemembered DEF Remembered, Exists
<1>2. CASE Pick
  <2>1. CASE cache = NoTenant
    BY <1>2, <2>1 DEF Pick, Remembered, Exists, CacheInv, tenantVars
  <2>2. CASE cache # NoTenant
    <3>1. /\ cache \in Tenant
          /\ w' = [Idle EXCEPT !.step = Stage(cache), !.mem = cache, !.fresh = ~stale]
      BY <1>2, <2>2 DEF Pick, TypeOK
    <3>2. w'.step = Stage(cache)
      BY <3>1 DEF Idle
    <3> QED BY <3>1, <3>2, StageFacts DEF Remembered
  <2> QED BY <2>1, <2>2
<1>3. CASE CacheSync \/ TimerFire \/ Restart
  BY <1>3 DEF CacheSync, TimerFire, Restart, Remembered, Exists
<1>4. CASE UserWrites
  <2>1. stale' = TRUE
    BY <1>4, UserWrite
  <2> QED BY <2>1 DEF Remembered
<1>5. CASE \/ NamespaceSync \/ QuotaSync \/ AppsSync \/ NamespaceGone \/ AppSteps
           \/ UNCHANGED vars
  <2>1. UNCHANGED <<tenant, stale, queued, delayed, w>>
    BY <1>5 DEF NamespaceSync, QuotaSync, AppsSync, NamespaceGone, AppSteps,
                CreateApp, GuardApp, FinishApp, NamespaceDeletesApp, MoveApp,
                tenantVars, vars
  <2> QED BY <2>1 DEF Remembered, Exists
<1> QED BY <1>1, <1>2, <1>3, <1>4, <1>5, NextCases DEF Syncs

\* No reconcile, however it ends, no lost write and no restart leaves a tenant
\* that nothing will bring back to the operator.
THEOREM NeverForgottenSafe == Spec => []NeverForgotten
<1>1. Init => Remembered
  BY DEF Init, Remembered, Exists
<1>2. IInv /\ Remembered /\ [Next]_vars => Remembered'
  BY RememberedStep
<1>3. Remembered => NeverForgotten
  BY DEF Remembered, NeverForgotten
<1> QED BY <1>1, <1>2, <1>3, Invariance, PTL DEF Spec

-----------------------------------------------------------------------------
(* What Active is said of *)

\* Behind each call stands what the calls before it made, unless the namespace
\* took it along.
ProvisionInv ==
  /\ w.step \in {"policy", "quota", "active"} => capsule
  /\ w.step \in {"quota", "active"} /\ ns = "active" /\ w.mem.spec.isolated => policy
  /\ w.step = "active" /\ ns = "active" => quota = w.mem.spec.plan

\* At every other step it asks for nothing.
LEMMA ProvisionElsewhere ==
  w'.step \notin {"policy", "quota", "active"} => ProvisionInv'
BY DEF ProvisionInv

\* A call that ensures a part leaves it there, or fails.
LEMMA ProvisionEnsures ==
  ASSUME TypeOK, WorkerOK, ProvisionInv, Ensures
  PROVE  ProvisionInv'
<1>0. w \in Worker /\ w.mem \in Tenant
  BY EnsureCalls DEF WorkerOK
<1>1. CASE w' = [w EXCEPT !.step = "setFailed"]
  <2>1. w'.step = "setFailed"
    BY <1>0, <1>1 DEF Worker
  <2> QED BY <2>1, ProvisionElsewhere
<1>2. CASE EnsureNamespace /\ w' # [w EXCEPT !.step = "setFailed"]
  <2>1. w' = [w EXCEPT !.step = "capsule"]
    BY <1>2 DEF EnsureNamespace, GoTo
  <2>2. w'.step = "capsule"
    BY <1>0, <2>1 DEF Worker
  <2> QED BY <2>2, ProvisionElsewhere
<1>3. CASE EnsureCapsule /\ w' # [w EXCEPT !.step = "setFailed"]
  <2>1. w' = [w EXCEPT !.step = "policy"] /\ capsule' = TRUE
    BY <1>3 DEF EnsureCapsule, GoTo
  <2>2. w'.step = "policy"
    BY <1>0, <2>1 DEF Worker
  <2> QED BY <2>1, <2>2 DEF ProvisionInv
<1>4. CASE EnsurePolicy /\ w' # [w EXCEPT !.step = "setFailed"]
  <2>1. /\ w.step = "policy" /\ w' = [w EXCEPT !.step = "quota"]
        /\ ~w.mem.spec.isolated \/ policy' = TRUE
        /\ UNCHANGED <<ns, capsule>>
    BY <1>4 DEF EnsurePolicy, GoTo, nsVars
  <2>2. w'.step = "quota" /\ w'.mem = w.mem
    BY <1>0, <2>1 DEF Worker
  <2> QED BY <2>1, <2>2 DEF ProvisionInv
<1>5. CASE EnsureQuota /\ w' # [w EXCEPT !.step = "setFailed"]
  <2>1. /\ w.step = "quota" /\ w' = [w EXCEPT !.step = "active"]
        /\ quota' = w.mem.spec.plan
        /\ UNCHANGED <<ns, capsule, policy>>
    BY <1>5 DEF EnsureQuota, GoTo, nsVars, partVars
  <2>2. w'.step = "active" /\ w'.mem = w.mem
    BY <1>0, <2>1 DEF Worker
  <2> QED BY <2>1, <2>2 DEF ProvisionInv
<1> QED BY <1>1, <1>2, <1>3, <1>4, <1>5 DEF Ensures

\* Nothing else takes a part away while the reconcile goes on, but with the
\* whole namespace.
LEMMA ProvisionStep ==
  ASSUME IInv, ProvisionInv, [Next]_vars
  PROVE  ProvisionInv'
<1> USE DEF IInv
<1>0. \A m \in Tenant : Stage(m) \notin {"policy", "quota", "active"}
  BY StageFacts
<1>1. CASE w' = Idle
  BY <1>1, ProvisionElsewhere DEF Idle
<1>2. CASE Pick /\ w' # Idle
  <2>1. cache \in Tenant /\ w'.step = Stage(cache)
    BY <1>2 DEF Pick, Idle, TypeOK
  <2> QED BY <1>0, <2>1, ProvisionElsewhere
<1>3. CASE TenantWrites /\ w' # Idle
  <2>1. w'.step \notin {"policy", "quota", "active"}
    BY <1>0, <1>3, WriteMove
  <2> QED BY <2>1, ProvisionElsewhere
<1>4. CASE Ensures
  BY <1>4, ProvisionEnsures
<1>5. CASE Deletes /\ w' # Idle
  <2>1. w.step \in CleanUpSteps /\ w'.step \in DeletionSteps
    BY <1>5, CallMove, DeleteCalls DEF CleanUpSteps, EnsureSteps
  <2>2. w'.step \notin {"policy", "quota", "active"}
    BY <2>1 DEF DeletionSteps, CleanUpSteps
  <2> QED BY <2>2, ProvisionElsewhere
<1>6. CASE UserWrites
  <2>1. /\ UNCHANGED <<capsule, policy, ns, quota>> /\ w' = [w EXCEPT !.fresh = FALSE]
    BY <1>6, UserWrite
  <2>2. w'.step = w.step /\ w'.mem = w.mem
    BY <2>1 DEF WorkerOK, Worker
  <2> QED BY <2>1, <2>2 DEF ProvisionInv
<1>7. CASE NamespaceGone
  BY <1>7 DEF NamespaceGone, ProvisionInv
<1>8. CASE Syncs \/ AppSteps \/ UNCHANGED vars
  <2>1. UNCHANGED <<w, capsule, policy, ns, quota>>
    BY <1>8 DEF Syncs, CacheSync, TimerFire, NamespaceSync, QuotaSync, AppsSync,
                AppSteps, CreateApp, GuardApp, FinishApp, NamespaceDeletesApp, MoveApp,
                nsVars, partVars, quotaVars, vars
  <2> QED BY <2>1 DEF ProvisionInv
<1>9. Restart => w' = Idle
  BY DEF Restart
<1> QED BY <1>1, <1>2, <1>3, <1>4, <1>5, <1>6, <1>7, <1>8, <1>9, NextCases

\* Only the last call of a reconcile writes Active, for the spec it worked with.
LEMMA ActiveWrite ==
  ASSUME IInv, TenantWrites, tenant' # tenant,
         Exists', tenant'.phase = "Active", tenant.phase # "Active"
  PROVE  /\ w.step = "active" /\ tenant'.spec = w.mem.spec
         /\ UNCHANGED <<capsule, ns, policy, quota>>
<1> USE DEF IInv
<1>1. /\ w.mem = tenant /\ tenant \in Tenant
      /\ UNCHANGED <<capsule, ns, policy, quota>>
  BY WriteEffect, TenantWrite
<1>2. \A p \in Phases : InPhase(p) = [tenant EXCEPT !.phase = p]
                        /\ InPhase(p).phase = p
  BY <1>1 DEF InPhase, Tenant
<1>3. CASE AddFinalizer
  <2>1. tenant' = [tenant EXCEPT !.finalizer = TRUE]
    BY <1>1, <1>3 DEF AddFinalizer, WriteTenant, Written, Errored, Store
  <2> QED BY <1>1, <2>1 DEF Tenant
<1>4. CASE SetPending \/ SetFailed \/ SetDeleting
  <2>1. tenant' \in {InPhase("Pending"), InPhase("Failed"), InPhase("Deleting")}
    BY <1>4 DEF SetPending, SetFailed, SetDeleting, WriteTenant, Written, Errored, Store
  <2> QED BY <1>2, <2>1 DEF Phases
<1>5. CASE SetActive
  <2>1. w.step = "active"
    BY <1>5 DEF SetActive, WriteTenant
  <2> QED BY <1>1, <2>1, WriteEffect
<1>6. CASE RemoveFinalizer
  BY <1>6 DEF RemoveFinalizer, WriteTenant, Written, Errored, Store, Exists
<1> QED BY <1>3, <1>4, <1>5, <1>6 DEF TenantWrites

\* No user writes Active.
LEMMA UserPhase ==
  ASSUME IInv, UserWrites, Exists', tenant'.phase = "Active"
  PROVE  Exists /\ tenant.phase = "Active"
<1>0. tenant \in Tenant \cup {NoTenant}
  BY DEF IInv, TypeOK
<1>1. CASE CreateTenant
  <2>1. PICK s \in Specs :
          tenant' = [spec |-> s, finalizer |-> FALSE, deleting |-> FALSE, phase |-> ""]
    BY <1>1 DEF CreateTenant, WriteByUser
  <2>2. tenant'.phase = ""
    BY <2>1
  <2> QED BY <2>2
<1>2. CASE EditTenant
  BY <1>0, <1>2 DEF EditTenant, WriteByUser, Exists, Tenant
<1>3. CASE DeleteTenant
  BY <1>0, <1>3 DEF DeleteTenant, WriteByUser, Exists, Tenant
<1> QED BY <1>1, <1>2, <1>3 DEF UserWrites

\* A tenant becomes Active only when what its spec asks for at that moment is
\* there, for every order of edits, restarts and terminating namespaces.
THEOREM ActiveIsProvisionedSafe == Spec => ActiveIsProvisioned
<1> DEFINE Becomes == /\ Exists' /\ tenant'.phase = "Active"
                      /\ Exists => tenant.phase # "Active"
                      => Provisioned(tenant'.spec)
<1>1. Init => ProvisionInv
  BY DEF Init, Idle, ProvisionInv
<1>2. IInv /\ ProvisionInv /\ [Next]_vars => ProvisionInv'
  BY ProvisionStep
<1>3. IInv /\ ProvisionInv /\ [Next]_vars => [Becomes]_vars
  <2> SUFFICES ASSUME IInv, ProvisionInv, [Next]_vars,
                      Exists', tenant'.phase = "Active",
                      Exists => tenant.phase # "Active"
               PROVE  Provisioned(tenant'.spec)
    OBVIOUS
  <2>1. tenant' # tenant
    BY DEF Exists
  <2>2. CASE UserWrites
    BY <2>2, UserPhase
  <2>3. CASE TenantWrites
    <3>1. Exists
      BY <2>1, <2>3, WriteEffect, NoneAssumption DEF IInv, Exists
    <3> QED BY <2>1, <2>3, <3>1, ActiveWrite DEF ProvisionInv, Provisioned
  <2> QED BY <2>1, <2>2, <2>3, Writers DEF IInv
<1> QED BY <1>1, <1>2, <1>3, Invariance, PTL DEF Spec, ActiveIsProvisioned

-----------------------------------------------------------------------------
(* The safety half of Convergence *)

\* A reconcile of a settled tenant has it as it is, and leaves its parts be.
LEMMA SettledAtWork ==
  ASSUME IInv, Settled, w.step # "idle"
  PROVE  /\ Serving /\ w.fresh /\ w.mem = tenant /\ tenant \in Tenant
         /\ tenant.phase = "Active"
         /\ w.step \in {"namespace", "capsule", "policy", "quota", "active"}
<1>1. Serving
  BY DEF Settled, Gone
<1>2. w.fresh /\ w.step \in {"namespace", "capsule", "policy", "quota", "active"}
  BY <1>1 DEF Serving
<1>3. tenant \in Tenant /\ tenant.phase = "Active"
  BY <1>1 DEF Serving, Exists, IInv, TypeOK
<1>4. w.mem = tenant
  BY <1>2 DEF IInv, WorkInv
<1> QED BY <1>1, <1>2, <1>3, <1>4

\* Without a failing call nothing fails.
LEMMA NoFaults ==
  ASSUME TypeOK, faults' = faults
  PROVE  ~Fault
<1>1. faults \in Nat
  BY BoundsAssumption DEF TypeOK
<1> QED BY <1>1 DEF Fault

\* A reconcile of a settled tenant writes what is there already.
LEMMA SettledWrite ==
  ASSUME IInv, Settled, TenantWrites, faults' = faults
  PROVE  w' = Idle /\ UNCHANGED <<tenant, stale>>
<1> USE DEF IInv
<1>0. w.step # "idle"
  BY TenantWrite
<1>1. /\ Serving /\ w.fresh /\ w.mem = tenant /\ tenant \in Tenant
      /\ tenant.phase = "Active"
      /\ w.step \in {"namespace", "capsule", "policy", "quota", "active"}
  BY <1>0, SettledAtWork
<1>2. SetActive /\ w.step = "active"
  BY <1>1 DEF TenantWrites, WriteTenant, AddFinalizer, SetPending, SetActive, SetFailed,
              SetDeleting, RemoveFinalizer
<1>3. InPhase("Active") = tenant
  BY <1>1 DEF InPhase, Tenant
<1>4. ~Fault
  BY NoFaults
<1>5. /\ tenant' = tenant /\ stale' = (stale \/ tenant # tenant)
      /\ w' = Idle
  BY <1>1, <1>2, <1>3, <1>4
  DEF SetActive, WriteTenant, Written, Errored, Store, Requeue
<1>6. stale \in BOOLEAN
  BY DEF TypeOK
<1> QED BY <1>5, <1>6

\* What its calls find is what they would make.
LEMMA SettledEnsures ==
  ASSUME IInv, Settled, Ensures, faults' = faults
  PROVE  /\ UNCHANGED <<tenant, stale, ns, nsSeen, capsule, policy, quota, quotaSeen,
                        quotaStale>>
         /\ w'.fresh = w.fresh
         /\ w'.step \in {"capsule", "policy", "quota", "active"}
<1> USE DEF IInv
<1>0. /\ w \in Worker /\ w.mem \in Tenant
      /\ UNCHANGED <<tenant, stale, nsSeen, quotaSeen>>
  BY EnsureCalls DEF WorkerOK
<1>7. capsule \in BOOLEAN /\ policy \in BOOLEAN /\ quotaStale \in BOOLEAN
  BY DEF TypeOK
<1>8. w.step # "idle"
  BY EnsureCalls DEF EnsureSteps
<1>1. Serving /\ w.fresh /\ w.mem = tenant
  BY <1>8, SettledAtWork
<1>2. ~Fault
  BY NoFaults
<1>3. CASE EnsureNamespace
  <2>1. UNCHANGED ns /\ w' = [w EXCEPT !.step = "capsule"]
    BY <1>1, <1>2, <1>3 DEF EnsureNamespace, Serving, GoTo
  <2> QED BY <1>0, <1>3, <2>1
          DEF EnsureNamespace, partVars, quotaVars, Worker
<1>4. CASE EnsureCapsule
  <2>1. capsule' = TRUE /\ w' = [w EXCEPT !.step = "policy"]
    BY <1>2, <1>4 DEF EnsureCapsule, GoTo
  <2>2. capsule
    BY <1>1 DEF Serving
  <2> QED BY <1>0, <1>4, <1>7, <2>1, <2>2
          DEF EnsureCapsule, nsVars, quotaVars, Worker
<1>5. CASE EnsurePolicy
  <2>1. ns = "active" /\ (w.mem.spec.isolated => policy)
    BY <1>1 DEF Serving
  <2>2. w' = [w EXCEPT !.step = "quota"]
    BY <1>2, <1>5, <2>1 DEF EnsurePolicy, GoTo
  <2>3. policy' = policy
    BY <1>2, <1>5, <1>7, <2>1 DEF EnsurePolicy
  <2> QED BY <1>0, <1>5, <2>2, <2>3 DEF EnsurePolicy, nsVars, quotaVars, Worker
<1>6. CASE EnsureQuota
  <2>1. quota = w.mem.spec.plan /\ quotaSeen /\ ~quotaStale /\ quota # NoPlan
    <3>1. w.mem.spec.plan \in Plans
      BY <1>0 DEF Tenant, TenantSpec
    <3> QED BY <1>1, <3>1, NoneAssumption DEF Serving
  <2>2. QuotaPossible
    BY <2>1 DEF QuotaPossible
  <2>3. quota' = w.mem.spec.plan /\ w' = [w EXCEPT !.step = "active"]
    BY <1>2, <1>6, <2>2 DEF EnsureQuota, GoTo
  <2>4. quotaStale' = (quotaStale \/ quota' # quota)
    BY <1>6 DEF EnsureQuota
  <2> QED BY <1>0, <1>6, <1>7, <2>1, <2>3, <2>4 DEF EnsureQuota, nsVars, partVars, Worker
<1> QED BY <1>3, <1>4, <1>5, <1>6 DEF Ensures

\* A user's step changes the tenant.
LEMMA UserChanges ==
  ASSUME IInv, UserWrites
  PROVE  tenant' # tenant
<1>0. tenant \in Tenant \cup {NoTenant}
  BY DEF IInv, TypeOK
<1>1. CASE CreateTenant
  <2>1. tenant' \in Tenant \cup {NoTenant} /\ tenant' # NoTenant /\ tenant = NoTenant
    BY <1>1, UserWrite DEF IInv, UserWrites, CreateTenant
  <2> QED BY <2>1
<1>2. CASE EditTenant
  BY <1>0, <1>2 DEF EditTenant, WriteByUser, Tenant
<1>3. CASE DeleteTenant
  BY <1>0, <1>3, NoneAssumption DEF DeleteTenant, WriteByUser, Tenant
<1> QED BY <1>1, <1>2, <1>3 DEF UserWrites

\* Only users and failing calls unsettle a tenant.
LEMMA SettledStep ==
  ASSUME IInv, Settled, [Next]_vars, faults' = faults,
         edits' # edits => tenant' = tenant
  PROVE  Settled' /\ UNCHANGED <<tenant, ns, capsule, quota>>
<1> USE DEF IInv
<1>0. edits \in Nat /\ tenant \in Tenant \cup {NoTenant}
  BY BoundsAssumption DEF TypeOK
<1>1. CASE Pick
  <2>1. UNCHANGED <<tenant, stale, ns, nsSeen, capsule, policy, quota, quotaSeen,
                    quotaStale>>
    BY <1>1 DEF Pick, tenantVars, nsVars, partVars, quotaVars
  <2>2. cache = tenant /\ ~stale
    BY DEF Settled, CacheInv
  <2>3. CASE ~Exists
    <3>1. w' = Idle
      BY <1>1, <2>2, <2>3 DEF Pick, Exists
    <3> QED BY <2>1, <2>2, <2>3, <3>1 DEF Settled, Serving, Gone, Exists, Idle
  <2>4. CASE Exists
    <3>1. Serving /\ tenant \in Tenant
      BY <1>0, <2>4 DEF Settled, Gone, Exists
    <3>2. w' = [Idle EXCEPT !.step = Stage(tenant), !.mem = tenant, !.fresh = ~stale]
      BY <1>1, <2>2, <2>4 DEF Pick, Exists
    <3>3. Stage(tenant) = "namespace"
      BY <3>1 DEF Stage, Serving, Tenant
    <3>4. w'.step = "namespace" /\ w'.fresh
      BY <2>2, <3>2, <3>3 DEF Idle
    <3> QED BY <2>1, <2>2, <3>1, <3>4 DEF Settled, Serving, Exists
  <2> QED BY <2>3, <2>4
<1>2. CASE TenantWrites
  <2>1. w'.step = "idle" /\ UNCHANGED <<tenant, stale>>
    BY <1>2, SettledWrite DEF Idle
  <2>2. UNCHANGED <<ns, nsSeen, capsule, policy, quota, quotaSeen, quotaStale>>
    BY <1>2, TenantWrite
  <2> QED BY <2>1, <2>2 DEF Settled, Serving, Gone, Exists
<1>3. CASE Ensures
  <2>0. w.step # "idle"
    BY <1>3, EnsureCalls DEF EnsureSteps
  <2>1. Serving /\ w.fresh
    BY <2>0, SettledAtWork
  <2>2. /\ UNCHANGED <<tenant, stale, ns, nsSeen, capsule, policy, quota, quotaSeen,
                       quotaStale>>
        /\ w'.fresh = w.fresh
        /\ w'.step \in {"capsule", "policy", "quota", "active"}
    BY <1>3, SettledEnsures
  <2>3. w'.fresh /\ w'.step \in {"namespace", "capsule", "policy", "quota", "active"}
    BY <2>1, <2>2
  <2>4. Serving'
    BY <2>1, <2>2, <2>3 DEF Serving, Exists
  <2> QED BY <2>2, <2>4 DEF Settled
<1>4. ~Deletes
  <2>1. Deletes => w.step \in CleanUpSteps
    BY DeleteCalls
  <2> QED BY <2>1, SettledAtWork DEF CleanUpSteps
<1>5. CASE Syncs
  <2>1. ~CacheSync
    BY DEF CacheSync, Settled
  <2>2. CASE TimerFire \/ AppsSync
    BY <2>2 DEF TimerFire, AppsSync, tenantVars, nsVars, partVars, quotaVars,
                Settled, Serving, Gone, Exists
  <2>3. CASE NamespaceSync
    <3>1. Gone
      BY <2>3 DEF NamespaceSync, Settled, Serving
    <3> QED BY <2>3, <3>1
            DEF NamespaceSync, tenantVars, partVars, quotaVars, Settled, Gone, Exists
  <2>4. CASE QuotaSync
    <3>1. Gone
      BY <2>4 DEF QuotaSync, Settled, Serving
    <3> QED BY <2>4, <3>1
            DEF QuotaSync, tenantVars, nsVars, partVars, Settled, Gone, Exists
  <2> QED BY <1>5, <2>1, <2>2, <2>3, <2>4 DEF Syncs
<1>6. ~Restart
  BY NoFaults DEF Restart
<1>7. ~UserWrites
  <2> SUFFICES ASSUME UserWrites PROVE FALSE
    OBVIOUS
  <2>1. tenant' # tenant /\ edits' = edits + 1
    BY UserChanges, UserWrite
  <2> QED BY <1>0, <2>1
<1>8. ~NamespaceGone
  BY DEF NamespaceGone, Settled, Serving, Gone
<1>9. CASE AppSteps \/ UNCHANGED vars
  <2>1. UNCHANGED <<tenant, stale, ns, nsSeen, capsule, policy, quota, quotaSeen,
                    quotaStale, w>>
    BY <1>9 DEF AppSteps, CreateApp, GuardApp, FinishApp, NamespaceDeletesApp, MoveApp,
                tenantVars, nsVars, partVars, quotaVars, vars
  <2> QED BY <2>1 DEF Settled, Serving, Gone, Exists
<1> QED BY <1>1, <1>2, <1>3, <1>4, <1>5, <1>6, <1>7, <1>8, <1>9, NextCases

\* Once settled a tenant stays so until a user changes it or a call fails: no
\* reconcile, however old what it reads of the tenant's parts, undoes one.
THEOREM SettledStaysSafe == Spec => SettledStays
<1> DEFINE Stays ==
      Settled /\ faults' = faults /\ (edits' # edits => tenant' = tenant)
        => Settled' /\ UNCHANGED <<tenant, ns, capsule, quota>>
<1>1. IInv /\ [Next]_vars => [Stays]_vars
  BY SettledStep
<1> QED BY <1>1, Invariance, PTL DEF Spec, SettledStays

\* A settled tenant has converged, so SettledStays is about the right states.
THEOREM SettledIsConverged == Spec => [](Settled => Converged)
<1>1. Settled => Converged
  BY DEF Settled, Serving, Gone, Converged, Exists
<1> QED BY <1>1, PTL

-----------------------------------------------------------------------------
(* The tenant's apps keep FinalizerProtocol *)

\* A stage that is set as the protocol allows.
LEMMA AppMove ==
  ASSUME NEW a \in Apps, NEW from, NEW to, stage[a] = from,
         stage' = [stage EXCEPT ![a] = to],
         \/ from = to /\ stage \in [Apps -> {"none", "open", "guarded", "closing"}]
         \/ <<from, to>> \in {<<"none", "open">>, <<"open", "guarded">>,
                              <<"open", "none">>, <<"guarded", "closing">>,
                              <<"closing", "none">>}
  PROVE  AppProtocol!Next \/ UNCHANGED AppProtocol!vars
<1>1. CASE from = to /\ stage \in [Apps -> {"none", "open", "guarded", "closing"}]
  BY <1>1 DEF AppProtocol!vars
<1>2. CASE from # to
  <2>1. AppProtocol!Move(a, from, to)
    BY DEF AppProtocol!Move
  <2>2. CASE from = "none" /\ to = "open"
    BY <2>1, <2>2 DEF AppProtocol!Next, AppProtocol!Create
  <2>3. CASE from = "open" /\ to = "guarded"
    BY <2>1, <2>3 DEF AppProtocol!Next, AppProtocol!Guard
  <2>4. CASE \/ from = "open" /\ to = "none"
             \/ from = "guarded" /\ to = "closing"
    BY <2>1, <2>4 DEF AppProtocol!Next, AppProtocol!RequestDeletion
  <2>5. CASE from = "closing" /\ to = "none"
    BY <2>1, <2>5 DEF AppProtocol!Next, AppProtocol!Finish
  <2> QED BY <1>2, <2>2, <2>3, <2>4, <2>5
<1> QED BY <1>1, <1>2

\* Nothing that happens to an app here is more than its controller lets happen
\* to it, whatever the deletions of tenant and namespace ask for.
THEOREM AppsKeepProtocolSafe == Spec => AppsKeepProtocol
<1>1. Init => AppProtocol!Init
  BY DEF Init, AppProtocol!Init
<1>2. IInv /\ [Next]_vars => [AppProtocol!Next]_(AppProtocol!vars)
  <2> SUFFICES ASSUME IInv, [Next]_vars
               PROVE  AppProtocol!Next \/ UNCHANGED AppProtocol!vars
    OBVIOUS
  <2> USE DEF IInv
  <2>0. stage \in [Apps -> {"none", "open", "guarded", "closing"}]
    BY DEF TypeOK
  <2>1. CASE stage' = stage
    BY <2>1 DEF AppProtocol!vars
  <2>2. CASE AppSteps
    <3>1. PICK a \in Apps :
            CreateApp(a) \/ GuardApp(a) \/ FinishApp(a) \/ NamespaceDeletesApp(a)
      BY <2>2 DEF AppSteps
    <3>2. PICK from \in {"none", "open", "guarded", "closing"},
               to \in {"none", "open", "guarded", "closing"} :
            /\ MoveApp(a, from, to)
            /\ <<from, to>> \in {<<"none", "open">>, <<"open", "guarded">>,
                                 <<"open", "none">>, <<"guarded", "closing">>,
                                 <<"closing", "none">>}
      BY <3>1 DEF CreateApp, GuardApp, FinishApp, NamespaceDeletesApp
    <3>3. stage[a] = from /\ stage' = [stage EXCEPT ![a] = to]
      BY <3>2 DEF MoveApp
    <3> QED BY <3>2, <3>3, AppMove
  <2>3. CASE DeleteApps /\ stage' # stage
    <3>1. PICK a \in w.drop : stage' = [stage EXCEPT ![a] = AfterRequest(@)]
      BY <2>3 DEF DeleteApps
    <3>2. a \in Apps
      BY DEF WorkerOK, Worker
    <3>3. AfterRequest(stage[a]) = stage[a]
          \/ <<stage[a], AfterRequest(stage[a])>> \in
               {<<"open", "none">>, <<"guarded", "closing">>}
      BY <2>0, <3>2 DEF AfterRequest
    <3>4. stage' = [stage EXCEPT ![a] = AfterRequest(stage[a])]
      BY <3>1
    <3> QED BY <2>0, <3>2, <3>3, <3>4, AppMove
  <2>4. CASE Deletes /\ ~DeleteApps
    <3>1. stage' = stage
      BY <2>4 DEF Deletes, ListApps, DeletePolicy, DeleteCapsule, DeleteNamespace, appVars
    <3> QED BY <2>1, <3>1
  <2>5. CASE TenantWrites \/ Ensures \/ UserWrites
    <3>1. stage' = stage
      BY <2>5, TenantWrite, EnsureCalls, UserWrite
    <3> QED BY <2>1, <3>1
  <2>6. CASE Pick \/ Syncs \/ Restart \/ NamespaceGone \/ UNCHANGED vars
    <3>1. stage' = stage
      BY <2>6 DEF Pick, Syncs, CacheSync, TimerFire, NamespaceSync, QuotaSync, AppsSync,
                  Restart, NamespaceGone, appVars, vars
    <3> QED BY <2>1, <3>1
  <2> QED BY <2>1, <2>2, <2>3, <2>4, <2>5, <2>6, NextCases
<1> QED BY <1>1, <1>2, Invariance, PTL DEF Spec, AppsKeepProtocol, AppProtocol!Spec

-----------------------------------------------------------------------------
(* Every reconcile ends *)

\* The place of each call in a reconcile.
LEMMA Orders ==
  /\ CallOrder["finalizer"] = 1 /\ CallOrder["pending"] = 2
  /\ CallOrder["namespace"] = 3 /\ CallOrder["capsule"] = 4
  /\ CallOrder["policy"] = 5 /\ CallOrder["quota"] = 6 /\ CallOrder["active"] = 7
  /\ CallOrder["deleting"] = 1 /\ CallOrder["listApps"] = 2
  /\ CallOrder["deleteApps"] = 3 /\ CallOrder["deletePolicy"] = 4
  /\ CallOrder["deleteCapsule"] = 5 /\ CallOrder["deleteNamespace"] = 6
  /\ CallOrder["removeFinalizer"] = 7 /\ CallOrder["setFailed"] = 8
<1>1. /\ CallOrder["finalizer"] = 1 /\ CallOrder["pending"] = 2
      /\ CallOrder["namespace"] = 3 /\ CallOrder["capsule"] = 4
      /\ CallOrder["policy"] = 5 /\ CallOrder["quota"] = 6 /\ CallOrder["active"] = 7
  BY DEF CallOrder, Steps
<1>2. /\ CallOrder["deleting"] = 1 /\ CallOrder["listApps"] = 2
      /\ CallOrder["deleteApps"] = 3 /\ CallOrder["deletePolicy"] = 4
      /\ CallOrder["deleteCapsule"] = 5 /\ CallOrder["deleteNamespace"] = 6
      /\ CallOrder["removeFinalizer"] = 7 /\ CallOrder["setFailed"] = 8
  BY DEF CallOrder, Steps
<1> QED BY <1>1, <1>2

\* A write of the tenant ends the reconcile or goes on to a later call.
LEMMA WriteEnds ==
  ASSUME IInv, TenantWrites
  PROVE  w'.step = "idle" \/ CallOrder[w.step] < CallOrder[w'.step]
<1> USE DEF IInv
<1>0. w \in Worker /\ w.mem \in Tenant /\ Idle.step = "idle"
  BY TenantWrite DEF WorkerOK, Idle
<1>1. CASE AddFinalizer
  <2> DEFINE new == [w.mem EXCEPT !.finalizer = TRUE]
  <2>1. w.step = "finalizer" /\ (w' = Idle \/ w' = [w EXCEPT !.mem = new, !.step = Stage(new)])
    BY <1>1 DEF AddFinalizer, WriteTenant, Requeue, Continue
  <2>2. new \in Tenant /\ ~new.deleting /\ new.finalizer
    BY <1>0, <2>1 DEF WorkInv, Tenant
  <2>3. Stage(new) \in {"pending", "namespace"}
    BY <2>2, StageFacts
  <2> HIDE DEF new
  <2>4. w'.step \in {"idle", "pending", "namespace"}
    BY <1>0, <2>1, <2>3 DEF Worker
  <2> QED BY <2>1, <2>4, Orders
<1>2. CASE SetPending
  <2> DEFINE new == InPhase("Pending")
  <2>1. w.step = "pending" /\ (w' = Idle \/ w' = [w EXCEPT !.mem = new, !.step = Stage(new)])
    BY <1>2 DEF SetPending, WriteTenant, Requeue, Continue
  <2>2. ~w.mem.deleting /\ w.mem.finalizer
    BY <2>1 DEF WorkInv, GuardedSteps
  <2>3. ~new.deleting /\ new.finalizer /\ new.phase = "Pending"
    BY <1>0, <2>2 DEF InPhase, Tenant
  <2>4. Stage(new) = "namespace"
    BY <2>3 DEF Stage
  <2> HIDE DEF new
  <2>5. w'.step \in {"idle", "namespace"}
    BY <1>0, <2>1, <2>4 DEF Worker
  <2> QED BY <2>1, <2>5, Orders
<1>3. CASE SetDeleting
  <2>1. /\ w.step = "deleting"
        /\ \/ w' = Idle
           \/ w' = [w EXCEPT !.mem = InPhase("Deleting"), !.step = "listApps"]
    BY <1>3 DEF SetDeleting, WriteTenant, Requeue
  <2>2. w'.step \in {"idle", "listApps"}
    BY <1>0, <2>1 DEF Worker
  <2> QED BY <2>1, <2>2, Orders
<1>4. CASE SetActive \/ SetFailed \/ RemoveFinalizer
  BY <1>0, <1>4 DEF SetActive, SetFailed, RemoveFinalizer, WriteTenant, Requeue, Done
<1> QED BY <1>1, <1>2, <1>3, <1>4 DEF TenantWrites

\* So does a call that makes a part.
LEMMA EnsureEnds ==
  ASSUME IInv, Ensures
  PROVE  CallOrder[w.step] < CallOrder[w'.step]
<1>0. w \in Worker
  BY DEF IInv, WorkerOK
<1>1. \E f, t \in Steps :
        /\ <<f, t>> \in {<<"namespace", "capsule">>, <<"capsule", "policy">>,
                         <<"policy", "quota">>, <<"quota", "active">>}
        /\ w.step = f
        /\ w' = [w EXCEPT !.step = t] \/ w' = [w EXCEPT !.step = "setFailed"]
  BY DEF Ensures, EnsureNamespace, EnsureCapsule, EnsurePolicy, EnsureQuota, GoTo, Steps
<1>2. PICK f, t \in Steps :
        /\ <<f, t>> \in {<<"namespace", "capsule">>, <<"capsule", "policy">>,
                         <<"policy", "quota">>, <<"quota", "active">>}
        /\ w.step = f
        /\ w' = [w EXCEPT !.step = t] \/ w' = [w EXCEPT !.step = "setFailed"]
  BY <1>1
<1>3. w'.step \in {t, "setFailed"}
  BY <1>0, <1>2 DEF Worker
<1>4. CallOrder[f] < CallOrder[t] /\ CallOrder[f] < CallOrder["setFailed"]
  BY <1>2, Orders
<1> QED BY <1>2, <1>3, <1>4

\* So does one that takes a part away; of the apps, one less is left to delete.
LEMMA DeleteEnds ==
  ASSUME IInv, LoopNotEmpty, Deletes
  PROVE  /\ \/ w'.step = "idle"
            \/ CallOrder[w.step] < CallOrder[w'.step]
            \/ w'.step = w.step /\ w'.drop \subseteq w.drop /\ w'.drop # w.drop
         /\ LoopNotEmpty'
<1>0. w \in Worker /\ Idle.step = "idle"
  BY DEF IInv, WorkerOK, Idle
<1>1. CASE ListApps
  <2>1. /\ w.step = "listApps"
        /\ \/ /\ w' = [w EXCEPT !.drop = appsSeen, !.step = "deletePolicy"]
           \/ /\ w' = [w EXCEPT !.drop = appsSeen, !.step = "deleteApps"]
              /\ appsSeen # {}
           \/ w' = [w EXCEPT !.step = "deletePolicy"]
    BY <1>1 DEF ListApps, GoTo
  <2>2. \/ w'.step = "deletePolicy"
        \/ w'.step = "deleteApps" /\ w'.drop # {}
    BY <1>0, <2>1 DEF Worker
  <2> QED BY <2>1, <2>2, Orders DEF LoopNotEmpty
<1>2. CASE DeleteApps
  <2>1. PICK a \in w.drop :
          \/ w' = Idle
          \/ w.drop # {a} /\ w' = [w EXCEPT !.drop = @ \ {a}]
    BY <1>2 DEF DeleteApps, Requeue
  <2>2. CASE w' = Idle
    BY <1>0, <2>2 DEF LoopNotEmpty
  <2>3. CASE w.drop # {a} /\ w' = [w EXCEPT !.drop = @ \ {a}]
    <3>1. w'.step = w.step /\ w'.drop = w.drop \ {a}
      BY <1>0, <2>3 DEF Worker
    <3> QED BY <2>3, <3>1 DEF LoopNotEmpty
  <2> QED BY <2>1, <2>2, <2>3
<1>3. CASE DeletePolicy \/ DeleteCapsule \/ DeleteNamespace
  <2>1. \E f, t \in Steps :
          /\ <<f, t>> \in {<<"deletePolicy", "deleteCapsule">>,
                           <<"deleteCapsule", "deleteNamespace">>,
                           <<"deleteNamespace", "removeFinalizer">>}
          /\ w.step = f /\ w' = [w EXCEPT !.step = t]
    BY <1>3 DEF DeletePolicy, DeleteCapsule, DeleteNamespace, GoTo, Steps
  <2>2. PICK f, t \in Steps :
          /\ <<f, t>> \in {<<"deletePolicy", "deleteCapsule">>,
                           <<"deleteCapsule", "deleteNamespace">>,
                           <<"deleteNamespace", "removeFinalizer">>}
          /\ w.step = f /\ w' = [w EXCEPT !.step = t]
    BY <2>1
  <2>3. w'.step = t
    BY <1>0, <2>2 DEF Worker
  <2>4. CallOrder[f] < CallOrder[t] /\ t # "deleteApps"
    BY <2>2, Orders
  <2> QED BY <2>2, <2>3, <2>4 DEF LoopNotEmpty
<1> QED BY <1>1, <1>2, <1>3 DEF Deletes

\* Nothing empties the list of a reconcile that is deleting apps.
LEMMA LoopStep ==
  ASSUME IInv, LoopNotEmpty, [Next]_vars
  PROVE  LoopNotEmpty'
<1> USE DEF IInv
<1>0. \A m \in Tenant : Stage(m) # "deleteApps"
  BY StageFacts
<1>1. CASE w' = Idle
  BY <1>1 DEF LoopNotEmpty, Idle
<1>2. CASE Pick /\ w' # Idle
  <2>1. cache \in Tenant /\ w'.step = Stage(cache)
    BY <1>2 DEF Pick, Idle, TypeOK
  <2> QED BY <1>0, <2>1 DEF LoopNotEmpty
<1>3. CASE TenantWrites /\ w' # Idle
  <2>1. w'.step # "deleteApps"
    BY <1>0, <1>3, WriteMove
  <2> QED BY <2>1 DEF LoopNotEmpty
<1>4. CASE Ensures /\ w' # Idle
  <2>1. w.step \in EnsureSteps
    BY <1>4, EnsureCalls
  <2>2. w'.step \in GuardedSteps
    BY <1>4, <2>1, CallMove DEF EnsureSteps, CleanUpSteps
  <2> QED BY <2>2 DEF GuardedSteps, EnsureSteps, LoopNotEmpty
<1>5. CASE Deletes
  BY <1>5, DeleteEnds
<1>6. CASE UserWrites
  <2>1. w' = [w EXCEPT !.fresh = FALSE]
    BY <1>6, UserWrite
  <2>2. w'.step = w.step /\ w'.drop = w.drop
    BY <2>1 DEF WorkerOK, Worker
  <2> QED BY <2>2 DEF LoopNotEmpty
<1>7. CASE Syncs \/ NamespaceGone \/ AppSteps \/ UNCHANGED vars
  <2>1. w' = w
    BY <1>7 DEF Syncs, CacheSync, TimerFire, NamespaceSync, QuotaSync, AppsSync,
                NamespaceGone, AppSteps, CreateApp, GuardApp, FinishApp,
                NamespaceDeletesApp, MoveApp, vars
  <2> QED BY <2>1 DEF LoopNotEmpty
<1>8. Restart => w' = Idle
  BY DEF Restart
<1> QED BY <1>1, <1>2, <1>3, <1>4, <1>5, <1>6, <1>7, <1>8, NextCases

\* The list of apps to delete is never empty while the tenant's reconcile is at
\* it, so that a call can always be made.
THEOREM LoopNotEmptySafe == Spec => []LoopNotEmpty
<1>1. Init => LoopNotEmpty
  BY DEF Init, Idle, LoopNotEmpty
<1>2. IInv /\ LoopNotEmpty /\ [Next]_vars => LoopNotEmpty'
  BY LoopStep
<1> QED BY <1>1, <1>2, Invariance, PTL DEF Spec

\* A reconcile of the tenant makes at most eight calls and one for each app it
\* has listed, whatever they return and whatever happens in between.
THEOREM ReconcileEndsSafe == Spec => ReconcileEnds
<1> DEFINE Ends ==
      Work =>
       \/ w'.step = "idle"
       \/ CallOrder[w.step] < CallOrder[w'.step]
       \/ w'.step = w.step /\ w'.drop \subseteq w.drop /\ w'.drop # w.drop
<1>1. IInv /\ LoopNotEmpty /\ [Next]_vars => [Ends]_vars
  <2> SUFFICES ASSUME IInv, LoopNotEmpty, Work PROVE Ends
    OBVIOUS
  <2> QED BY WriteEnds, EnsureEnds, DeleteEnds DEF Work, TenantWrites, Ensures, Deletes
<1> QED BY <1>1, Invariance, LoopNotEmptySafe, PTL DEF Spec, ReconcileEnds
=============================================================================
