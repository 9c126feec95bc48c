---------------------------- MODULE TenantService ----------------------------
(***************************************************************************)
(* The API server's TenantService (apiserver/service/tenant.go) with the   *)
(* access check before it (apiserver/middleware/tenant_context.go):        *)
(* concurrent requests on one tenant name, each a sequence of calls to     *)
(* Postgres and Kubernetes.                                                *)
(*                                                                         *)
(* A tenant is a row, the membership of its owner and the Tenant custom    *)
(* resource (CR).  They are written one after the other without a          *)
(* transaction, and errors of the last are dropped.                        *)
(***************************************************************************)
EXTENDS Naturals, FiniteSets

CONSTANTS
  Clients,      \* handler goroutines
  Users,
  Ids,          \* UUIDs
  Plans,        \* stands for all that an update changes
  NoRow, NoCR, Nobody,
  MaxRequests,  \* bound on the requests sent
  MaxFaults     \* bound on failing calls and restarts

Tenant == [id : Ids, plan : Plans]

CR == [tenantId : Ids, plan : Plans, finalizer : BOOLEAN, deleting : BOOLEAN]

ASSUME BoundsAssumption == MaxRequests \in Nat /\ MaxFaults \in Nat

ASSUME NoneAssumption ==
  NoRow \notin Tenant \cup Ids /\ NoCR \notin CR /\ Nobody \notin Users

ASSUME PlansAssumption == Plans # {}

VARIABLES
  row,       \* the row of the tenant with the name in question, or NoRow
  members,   \* tenant_members: pairs of a tenant's id and a user
  issued,    \* the ids given out so far
  cr,        \* the Tenant custom resource, or NoCR
  current,   \* clients whose copy of the CR has the latest resource version
  job,       \* job[c]: where client c's request is, with its local variables
  excuses,   \* history: what may keep row, owner and CR apart
  sent, faults

vars == <<row, members, issued, cr, current, job, excuses, sent, faults>>

Ops == {"create", "update", "delete"}

Steps == {"idle", "insertRow", "addMember", "createCR", "access", "read",
          "updateRow", "getCR", "updateCR", "deleteRow", "deleteCR"}

\* id: the tenant in the URL, or the new one; plan: what is asked for; mem: the
\* handler's copy of the tenant.
Job == [step : Steps, op : Ops, user : Users \cup {Nobody}, id : Ids \cup {NoRow},
        plan : Plans, mem : Tenant \cup {NoRow}]

Idle == [step |-> "idle", op |-> "create", user |-> Nobody, id |-> NoRow,
         plan |-> CHOOSE p \in Plans : TRUE, mem |-> NoRow]

Excuses == {"overlap", "fault", "conflict", "terminating"}

Init ==
  /\ row = NoRow /\ members = {} /\ issued = {}
  /\ cr = NoCR /\ current = {}
  /\ job = [c \in Clients |-> Idle]
  /\ excuses = {}
  /\ sent = 0 /\ faults = 0

-----------------------------------------------------------------------------
(* How a call can end *)

Fault == faults < MaxFaults /\ faults' = faults + 1
NoFault == UNCHANGED faults

Excuse(e) == excuses' = excuses \cup {e}

GoTo(c, s) == job' = [job EXCEPT ![c].step = s]
Done(c) == job' = [job EXCEPT ![c] = Idle]

Mine(c) == row # NoRow /\ row.id = job[c].id

-----------------------------------------------------------------------------
(* The steps of a request.  Each is one call to Postgres or Kubernetes. *)

\* A request reaches its handler, or the access check before it.
Start(c) ==
  /\ job[c].step = "idle" /\ sent < MaxRequests
  /\ sent' = sent + 1
  /\ \E u \in Users, p \in Plans :
       \/ \E id \in Ids \ issued :
            /\ issued' = issued \cup {id}
            /\ job' = [job EXCEPT ![c] =
                 [step |-> "insertRow", op |-> "create", user |-> u, id |-> id,
                  plan |-> p, mem |-> [id |-> id, plan |-> p]]]
       \/ \E id \in issued, op \in {"update", "delete"} :
            /\ job' = [job EXCEPT ![c] =
                 [step |-> "access", op |-> op, user |-> u, id |-> id,
                  plan |-> p, mem |-> NoRow]]
            /\ UNCHANGED issued
  /\ excuses' = excuses \cup
       {e \in {"overlap"} : \E d \in Clients : job[d].step # "idle"}
  /\ UNCHANGED <<row, members, cr, current, faults>>

\* The definitions called "Mistake..." are plausible bugs of the definition that
\* follows them.  The model does not use them; they show what a property notices.

\* Any user will do.
MistakeHasAccess(c) == \E u \in Users : <<job[c].id, u>> \in members

HasAccess(c) == <<job[c].id, job[c].user>> \in members

\* TenantContext.
Access(c) ==
  /\ job[c].step = "access"
  /\ \/ HasAccess(c) /\ GoTo(c, "read") /\ NoFault
     \/ ~HasAccess(c) /\ Done(c) /\ NoFault
     \/ Done(c) /\ Fault
  /\ UNCHANGED <<row, members, issued, cr, current, excuses, sent>>

\* GetTenantByID and the change of the copy.
Read(c) ==
  /\ job[c].step = "read"
  /\ \/ /\ Mine(c)
        /\ job' = IF job[c].op = "delete"
                  THEN [job EXCEPT ![c].mem = row, ![c].step = "deleteRow"]
                  ELSE [job EXCEPT ![c].mem = [row EXCEPT !.plan = job[c].plan],
                                   ![c].step = "updateRow"]
        /\ NoFault
     \/ ~Mine(c) /\ Done(c) /\ NoFault
     \/ Done(c) /\ Fault
  /\ UNCHANGED <<row, members, issued, cr, current, excuses, sent>>

\* A statement that takes the tables to the given contents, if it is possible.  A
\* failing one may have been applied all the same; the request then ends.
Statement(c, from, possible, newRow, newMembers, next) ==
  /\ job[c].step = from
  /\ \/ /\ possible /\ row' = newRow /\ members' = newMembers
        /\ GoTo(c, next) /\ NoFault /\ UNCHANGED excuses
     \/ /\ ~possible /\ UNCHANGED <<row, members>>
        /\ Done(c) /\ NoFault /\ UNCHANGED excuses
     \/ /\ \/ UNCHANGED <<row, members>>
           \/ possible /\ row' = newRow /\ members' = newMembers
        /\ Done(c) /\ Fault /\ Excuse("fault")
  /\ UNCHANGED <<issued, cr, current, sent>>

\* The owner's membership is forgotten.
MistakeInsertRow(c) ==
  Statement(c, "insertRow", row = NoRow, job[c].mem, members, "createCR")

\* The name is unique.
InsertRow(c) ==
  Statement(c, "insertRow", row = NoRow, job[c].mem, members, "addMember")

\* A member refers to an existing tenant.
AddMember(c) ==
  Statement(c, "addMember", Mine(c), row,
            members \cup {<<job[c].id, job[c].user>>}, "createCR")

UpdateRow(c) == Statement(c, "updateRow", Mine(c), job[c].mem, members, "getCR")

\* Members stay: their key has no cascade.
MistakeDeleteRow(c) ==
  Statement(c, "deleteRow", Mine(c), NoRow,
            members, "deleteCR")

\* Members go with their tenant.
DeleteRow(c) ==
  Statement(c, "deleteRow", Mine(c), NoRow,
            {m \in members : m[1] # job[c].id}, "deleteCR")

\* UpdateTenantCRD takes every error of Get for "does not exist".
GetCR(c) ==
  /\ job[c].step = "getCR"
  /\ \/ /\ cr # NoCR
        /\ GoTo(c, "updateCR") /\ current' = current \cup {c}
        /\ excuses' = excuses \cup {e \in {"terminating"} : cr.deleting}
        /\ NoFault
     \/ cr = NoCR /\ GoTo(c, "createCR") /\ NoFault /\ UNCHANGED <<current, excuses>>
     \/ GoTo(c, "createCR") /\ Fault /\ Excuse("fault") /\ UNCHANGED current
  /\ UNCHANGED <<row, members, issued, cr, sent>>

\* The last call of a request; its error is dropped.
LastCall(c, from, possible, new) ==
  /\ job[c].step = from
  /\ Done(c)
  /\ \/ possible /\ cr' = new /\ NoFault /\ UNCHANGED excuses
     \/ /\ ~possible /\ UNCHANGED cr /\ NoFault
        /\ Excuse(IF cr # NoCR /\ cr.deleting THEN "terminating" ELSE "conflict")
     \/ cr' \in (IF possible THEN {cr, new} ELSE {cr}) /\ Fault /\ Excuse("fault")
  /\ current' = IF cr' = cr THEN current \ {c} ELSE {}
  /\ UNCHANGED <<row, members, issued, sent>>

\* The label is taken from the wrong field.
MistakeBuildTenantCR(t) ==
  [tenantId |-> t.plan, plan |-> t.plan, finalizer |-> FALSE, deleting |-> FALSE]

buildTenantCR(t) ==
  [tenantId |-> t.id, plan |-> t.plan, finalizer |-> FALSE, deleting |-> FALSE]

CreateCR(c) == LastCall(c, "createCR", cr = NoCR, buildTenantCR(job[c].mem))

\* The label with the tenant's id is left as it is.
UpdateCR(c) ==
  LastCall(c, "updateCR", c \in current, [cr EXCEPT !.plan = job[c].mem.plan])

DeleteCR(c) ==
  LastCall(c, "deleteCR", TRUE,
           IF cr # NoCR /\ cr.finalizer THEN [cr EXCEPT !.deleting = TRUE] ELSE NoCR)

\* The API server dies: its requests end where they are.
Restart ==
  /\ Fault /\ Excuse("fault")
  /\ \E c \in Clients : job[c].step # "idle"
  /\ job' = [c \in Clients |-> Idle] /\ current' = {}
  /\ UNCHANGED <<row, members, issued, cr, sent>>

-----------------------------------------------------------------------------
(* The Tenant controller, as these requests see it *)

OperatorWrites(new) ==
  /\ cr # NoCR
  /\ cr' = new /\ current' = {}
  /\ UNCHANGED <<row, members, issued, job, excuses, sent, faults>>

\* Status and finalizer; the finalizer is never added to a terminating CR.
Reconcile == OperatorWrites([cr EXCEPT !.finalizer = @ \/ ~cr.deleting])

Finish == cr # NoCR /\ cr.deleting /\ OperatorWrites(NoCR)

Next ==
  \/ Restart \/ Reconcile \/ Finish
  \/ \E c \in Clients :
       \/ Start(c) \/ Access(c) \/ Read(c)
       \/ InsertRow(c) \/ AddMember(c) \/ UpdateRow(c) \/ DeleteRow(c)
       \/ GetCR(c) \/ CreateCR(c) \/ UpdateCR(c) \/ DeleteCR(c)

Spec == Init /\ [][Next]_vars

-----------------------------------------------------------------------------
(* Properties *)

TypeOK ==
  /\ row \in Tenant \cup {NoRow}
  /\ members \subseteq Ids \X Users /\ issued \subseteq Ids
  /\ cr \in CR \cup {NoCR}
  /\ current \subseteq Clients
  /\ job \in [Clients -> Job]
  /\ excuses \subseteq Excuses
  /\ sent \in 0 .. MaxRequests /\ faults \in 0 .. MaxFaults

Quiet == \A c \in Clients : job[c].step = "idle"

Owned == \E u \in Users : <<row.id, u>> \in members

\* A tenant has an owner and a CR of its own that shows its row, or nothing.
InSync ==
  IF row = NoRow THEN cr = NoCR \/ cr.deleting
  ELSE /\ Owned
       /\ cr # NoCR /\ ~cr.deleting
       /\ cr.plan = row.plan /\ cr.tenantId = row.id

\* Nothing repairs a tenant of which one part was not written; this names all
\* that can part them: requests that overlap, a failed call or a crash, a write of
\* the operator between Get and Update, and a name used again while its CR
\* terminates.
InSyncUnlessExcused == Quiet /\ excuses = {} => InSync

\* A tenant is changed and deleted by its members only, although the check is
\* made some calls earlier and the tenant may be gone, and its name taken by
\* another, since.
ChangedByMembers ==
  [][\A c \in Clients :
       row # NoRow /\ row' # row /\ job'[c] # job[c] =>
         <<row.id, job[c].user>> \in members]_vars

\* No access outlives its tenant, whatever overlaps with the deletion.
AccessEndsWithTenant == \A m \in members : row # NoRow /\ m[1] = row.id

StageOf ==
  CASE cr = NoCR -> "none"
    [] cr # NoCR /\ ~cr.finalizer -> "open"
    [] cr # NoCR /\ cr.finalizer /\ ~cr.deleting -> "guarded"
    [] OTHER -> "closing"

Contract == INSTANCE CustomResource
  WITH Objects <- {"tenant"}, NoSpec <- NoCR, Specs <- Plans,
       stage <- [o \in {"tenant"} |-> StageOf],
       spec <- [o \in {"tenant"} |-> IF cr = NoCR THEN NoCR ELSE cr.plan]

\* To the CR the requests do only what a client may, however they overlap, fail
\* or are cut short: it goes through its finalizer, and none of them writes back
\* a CR that was deleted, or the finalizer of an older one, since it was read.
KeepsContract ==
  /\ Contract!Init
  /\ [][IF job' # job THEN Contract!ClientStep("tenant")
        ELSE Contract!OperatorStep("tenant")]_(Contract!vars)
=============================================================================
