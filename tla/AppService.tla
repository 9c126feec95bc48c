------------------------------ MODULE AppService ------------------------------
(***************************************************************************)
(* The API server's AppService (apiserver/service/app.go): requests on one *)
(* app name of one tenant, each a sequence of calls to Postgres and to the *)
(* Kubernetes API, running concurrently in the handler goroutines.         *)
(*                                                                         *)
(* A request reads the whole row, changes its copy, writes the whole copy  *)
(* back and then copies it to the App custom resource (CR).  There is no   *)
(* transaction and no version check on the row, and an error of the second *)
(* half is only logged.  The operator (AppController) is reduced to what   *)
(* these requests can tell: it writes the CR, and the CR of a deleted app  *)
(* stays for as long as it holds its finalizer.                            *)
(*                                                                         *)
(* The domains of an app are kept as one of its environment variables.     *)
(* The CR has a field for them, customDomains, which is what the operator  *)
(* makes DomainMappings from; buildAppSpec leaves it empty.                *)
(***************************************************************************)
EXTENDS Naturals, FiniteSets

CONSTANTS
  Clients,      \* handler goroutines
  Ids,          \* UUIDs
  Images,       \* images: stands for the scalar fields of an app but paused
  Keys,         \* names of environment variables
  Values,       \* their values
  Empty,        \* the empty string
  Hosts,        \* host names; none contains a comma
  Requests,     \* the requests that clients send
  NoRow, NoCR, NoRequest, NoDomains, Unchanged,
  MaxRequests,  \* bound on the requests sent
  MaxFaults     \* bound on failing calls and restarts

Vars == UNION {[D -> Values \cup {Empty}] : D \in SUBSET Keys}

\* An app's environment variables.  The one named "_domains" is kept in the same
\* map: NoDomains if it is not there, otherwise the hosts that it lists.
EnvVars == [vars : Vars, domains : {NoDomains} \cup SUBSET Hosts]

App == [id : Ids, image : Images, paused : BOOLEAN, env : EnvVars]

AppSpec == [image : Images, paused : BOOLEAN, env : EnvVars,
            customDomains : SUBSET Hosts]

CR == [spec : AppSpec, finalizer : BOOLEAN, deleting : BOOLEAN]

Request ==
  [op : {"create"}, image : Images, env : EnvVars]
    \cup [op : {"update"}, image : Images \cup {Unchanged},
          paused : BOOLEAN \cup {Unchanged}]
    \cup [op : {"delete", "redeploy"}]
    \cup [op : {"updateEnv"}, env : EnvVars]
    \cup [op : {"patchEnv"}, patch : Vars, domains : {Unchanged} \cup SUBSET Hosts]
    \cup [op : {"addDomain", "removeDomain"}, host : Hosts]

ASSUME RequestsAssumption == Requests \subseteq Request

ASSUME BoundsAssumption == MaxRequests \in Nat /\ MaxFaults \in Nat

ASSUME NoneAssumption ==
  /\ NoRow \notin App /\ NoCR \notin CR /\ NoRequest \notin Request
  /\ \A hosts \in SUBSET Hosts : hosts # NoDomains

VARIABLES
  row,       \* the app's row in Postgres, or NoRow
  issued,    \* the ids given out so far
  cr,        \* the App custom resource, or NoCR
  current,   \* clients whose copy of the CR has the latest resource version
  job,       \* job[c]: where client c's request is, with its local variables
  stored,    \* history: every content that the row has had
  alone,     \* history: clients whose request nothing has disturbed so far
  excuses,   \* history: what has come between row and CR since such a request
             \* last copied the one to the other
  sent, faults

vars == <<row, issued, cr, current, job, stored, alone, excuses, sent, faults>>

Steps == {"idle", "read", "insert", "updateRow", "deleteRow", "getCR",
          "createCR", "updateCR", "deleteCR"}

\* req: the request; id: the app in its URL; mem: the handler's copy of the app.
Job == [step : Steps, req : Requests \cup {NoRequest}, id : Ids \cup {NoRow},
        mem : App \cup {NoRow}]

Idle == [step |-> "idle", req |-> NoRequest, id |-> NoRow, mem |-> NoRow]

Excuses == {"overlap", "fault", "conflict", "terminating"}

Init ==
  /\ row = NoRow /\ issued = {}
  /\ cr = NoCR /\ current = {}
  /\ job = [c \in Clients |-> Idle]
  /\ stored = {} /\ alone = {} /\ excuses = {}
  /\ sent = 0 /\ faults = 0

-----------------------------------------------------------------------------
(* What a request does to the handler's copy of the app *)

\* Definitions called "Mistake..." are plausible bugs of the definition that
\* follows them.  The model does not use them; they show what a property notices.

Or(new, old) == IF new = Unchanged THEN old ELSE new

Removed(patch) == {k \in DOMAIN patch : patch[k] = Empty}

\* The patch replaces the variables.
MistakePatched(env, patch) ==
  [k \in DOMAIN patch \ Removed(patch) |-> patch[k]]

\* PatchEnv: a variable given the empty string is deleted.
Patched(env, patch) ==
  [k \in (DOMAIN env \cup DOMAIN patch) \ Removed(patch)
     |-> IF k \in DOMAIN patch THEN patch[k] ELSE env[k]]

\* parseDomains.
Domains(env) == IF env.domains = NoDomains THEN {} ELSE env.domains

\* AddDomain and RemoveDomain refuse what is already so.
Refused(r, app) ==
  \/ r.op = "addDomain" /\ r.host \in Domains(app.env)
  \/ r.op = "removeDomain" /\ r.host \notin Domains(app.env)

NewApp(r, id) == [id |-> id, image |-> r.image, paused |-> FALSE, env |-> r.env]

Updated(r, app) == [app EXCEPT !.image = Or(r.image, @),
                               !.paused = Or(r.paused, @)]

EnvReplaced(r, app) == [app EXCEPT !.env = r.env]

\* The rule for empty strings holds for "_domains" like for any other variable.
EnvPatched(r, app) ==
  [app EXCEPT !.env.vars = Patched(@, r.patch),
              !.env.domains = IF r.domains = {} THEN NoDomains ELSE Or(r.domains, @)]

DomainAdded(r, app) == [app EXCEPT !.env.domains = Domains(app.env) \cup {r.host}]

\* The variable of an app without domains stays, empty.
DomainRemoved(r, app) == [app EXCEPT !.env.domains = Domains(app.env) \ {r.host}]

\* A redeploy changes only updated_at, which no CR shows.
Applied(r, app) ==
  CASE r.op = "update" -> Updated(r, app)
    [] r.op = "updateEnv" -> EnvReplaced(r, app)
    [] r.op = "patchEnv" -> EnvPatched(r, app)
    [] r.op = "addDomain" -> DomainAdded(r, app)
    [] r.op = "removeDomain" -> DomainRemoved(r, app)
    [] OTHER -> app

\* The row as it is, with its id.
MistakeExported(app) == app

\* buildAppSpec: every environment variable, "_domains" among them, and no
\* customDomains.
Exported(app) == [image |-> app.image, paused |-> app.paused, env |-> app.env,
                  customDomains |-> {}]

-----------------------------------------------------------------------------
(* Steps of a request.  Each is one call to Postgres or Kubernetes. *)

Fault == faults < MaxFaults /\ faults' = faults + 1
NoFault == UNCHANGED faults

Excuse(e) == excuses' = excuses \cup {e}

Quiet == \A c \in Clients : job[c].step = "idle"

GoTo(c, s) == job' = [job EXCEPT ![c].step = s]
Done(c) == job' = [job EXCEPT ![c] = Idle]

\* The request reaches its handler, whatever the other handlers are doing.
Start(c) ==
  /\ job[c].step = "idle" /\ sent < MaxRequests
  /\ sent' = sent + 1
  /\ \E r \in Requests :
       \/ /\ r.op = "create"
          /\ \E id \in Ids \ issued :
               /\ issued' = issued \cup {id}
               /\ job' = [job EXCEPT ![c] =
                    [step |-> "insert", req |-> r, id |-> id, mem |-> NewApp(r, id)]]
       \/ /\ r.op # "create"
          /\ \E id \in issued :
               job' = [job EXCEPT ![c] =
                 [step |-> "read", req |-> r, id |-> id, mem |-> NoRow]]
          /\ UNCHANGED issued
  /\ IF Quiet THEN alone' = {c} /\ UNCHANGED excuses
              ELSE alone' = {} /\ Excuse("overlap")
  /\ UNCHANGED <<row, cr, current, stored, faults>>

Mine(c) == row # NoRow /\ row.id = job[c].id

Accepted(c) == Mine(c) /\ ~Refused(job[c].req, row)

\* GetAppByID and the change of the copy; not found and refusals end here.
Read(c) ==
  /\ job[c].step = "read"
  /\ \/ /\ Accepted(c)
        /\ job' = [job EXCEPT ![c].mem = Applied(job[c].req, row),
                              ![c].step = IF job[c].req.op = "delete"
                                          THEN "deleteRow" ELSE "updateRow"]
        /\ NoFault
     \/ ~Accepted(c) /\ Done(c) /\ NoFault
     \/ Done(c) /\ Fault
  /\ UNCHANGED <<row, issued, cr, current, stored, alone, excuses, sent>>

\* A write of the row as the SQL statement has it: INSERT under the unique
\* (tenant_id, name), UPDATE and DELETE by id.  A failing call may have been
\* applied all the same; then nothing is copied to the CR.
WriteRow(c, from, possible, new, next) ==
  /\ job[c].step = from
  /\ \/ possible /\ row' = new /\ GoTo(c, next) /\ NoFault /\ UNCHANGED excuses
     \/ ~possible /\ UNCHANGED row /\ Done(c) /\ NoFault /\ UNCHANGED excuses
     \/ /\ row' \in IF possible THEN {row, new} ELSE {row}
        /\ Done(c) /\ Fault /\ Excuse("fault")
  /\ stored' = stored \cup ({row'} \ {NoRow})
  /\ UNCHANGED <<issued, cr, current, alone, sent>>

InsertRow(c) == WriteRow(c, "insert", row = NoRow, job[c].mem, "getCR")

\* An upsert.
MistakeUpdateRow(c) == WriteRow(c, "updateRow", TRUE, job[c].mem, "getCR")

UpdateRow(c) == WriteRow(c, "updateRow", Mine(c), job[c].mem, "getCR")

DeleteRow(c) == WriteRow(c, "deleteRow", Mine(c), NoRow, "deleteCR")

\* syncAppToK8s looks up the tenant, then UpdateAppCRD gets the CR; it takes
\* every error of that call for "does not exist".
GetCR(c) ==
  /\ job[c].step = "getCR"
  /\ \/ /\ cr # NoCR
        /\ GoTo(c, "updateCR") /\ current' = current \cup {c} /\ NoFault
        /\ IF cr.deleting THEN alone' = {} /\ Excuse("terminating")
                          ELSE UNCHANGED <<alone, excuses>>
     \/ /\ cr = NoCR
        /\ GoTo(c, "createCR") /\ NoFault /\ UNCHANGED <<current, alone, excuses>>
     \/ /\ GoTo(c, "createCR") \/ Done(c)
        /\ Fault /\ Excuse("fault") /\ alone' = {} /\ UNCHANGED current
  /\ UNCHANGED <<row, issued, cr, stored, sent>>

\* The end of a request: a call on the CR that takes effect, is refused, or
\* fails; the client is answered as if it had succeeded.
LastCall(c, from, possible, new, refusal) ==
  /\ job[c].step = from
  /\ Done(c)
  /\ \/ /\ possible /\ cr' = new
        /\ NoFault /\ excuses' = IF c \in alone THEN {} ELSE excuses
     \/ /\ ~possible /\ UNCHANGED cr
        /\ NoFault /\ Excuse(refusal)
     \/ /\ cr' \in IF possible THEN {cr, new} ELSE {cr}
        /\ Fault /\ Excuse("fault")
  /\ UNCHANGED <<row, issued, stored, alone, sent>>

CreateCR(c) ==
  /\ LastCall(c, "createCR", cr = NoCR,
              [spec |-> Exported(job[c].mem), finalizer |-> FALSE,
               deleting |-> FALSE], "conflict")
  /\ current' = IF cr' = cr THEN current ELSE {}

\* The CR gets the fields of the request, not of the row that was written.
MistakeUpdateCR(c) ==
  /\ LastCall(c, "updateCR", c \in current,
              [cr EXCEPT !.spec.env = Exported(job[c].mem).env], "conflict")
  /\ current' = current \ {c}

\* How many entries buildAppSpec lists, in the random order of a Go map.
Variables(app) ==
  Cardinality(DOMAIN app.env.vars) + (IF app.env.domains = NoDomains THEN 0 ELSE 1)

\* The spec is replaced.  An equal spec changes no resource version, unless
\* buildAppSpec listed the variables in another order.
UpdateCR(c) ==
  /\ LastCall(c, "updateCR", c \in current,
              [cr EXCEPT !.spec = Exported(job[c].mem)], "conflict")
  /\ current' \in IF cr' # cr THEN {{}}
                  ELSE {current \ {c}}
                         \cup {s \in {{}} : /\ c \in current
                                          /\ Variables(job[c].mem) > 1}

\* Deleting what is not there succeeds; so does deleting it again.
DeleteCR(c) ==
  /\ LastCall(c, "deleteCR", TRUE,
              IF cr # NoCR /\ cr.finalizer THEN [cr EXCEPT !.deleting = TRUE]
              ELSE NoCR, "conflict")
  /\ current' = IF cr' = cr THEN current ELSE {}

\* The API server dies: its requests end where they are.
Restart ==
  /\ Fault /\ Excuse("fault")
  /\ \E c \in Clients : job[c].step # "idle"
  /\ job' = [c \in Clients |-> Idle] /\ current' = {}
  /\ UNCHANGED <<row, issued, cr, stored, alone, sent>>

-----------------------------------------------------------------------------
(* The operator, as these requests see it *)

OperatorWrites(new) ==
  /\ cr # NoCR
  /\ cr' = new /\ current' = {}
  /\ UNCHANGED <<row, issued, job, stored, alone, excuses, sent, faults>>

\* Status and finalizer; the finalizer is never added to a terminating CR.
Reconcile == OperatorWrites([cr EXCEPT !.finalizer = @ \/ ~cr.deleting])

Finish == cr # NoCR /\ cr.deleting /\ OperatorWrites(NoCR)

Next ==
  \/ Restart \/ Reconcile \/ Finish
  \/ \E c \in Clients :
       \/ Start(c) \/ Read(c)
       \/ InsertRow(c) \/ UpdateRow(c) \/ DeleteRow(c)
       \/ GetCR(c) \/ CreateCR(c) \/ UpdateCR(c) \/ DeleteCR(c)

Spec == Init /\ [][Next]_vars

-----------------------------------------------------------------------------
(* Properties *)

TypeOK ==
  /\ row \in App \cup {NoRow}
  /\ issued \subseteq Ids
  /\ cr \in CR \cup {NoCR}
  /\ current \subseteq Clients
  /\ job \in [Clients -> Job]
  /\ stored \subseteq App
  /\ alone \subseteq Clients /\ excuses \subseteq Excuses
  /\ sent \in 0 .. MaxRequests /\ faults \in 0 .. MaxFaults

\* A spec shows an app: the image and other fields, whether it is paused, and the
\* environment.  Domains are shown only as one of the variables; that they are
\* missing from customDomains is what DomainsAttached is about.
Shows(spec, app) ==
  spec.image = app.image /\ spec.paused = app.paused /\ spec.env = app.env

InSync ==
  IF row = NoRow THEN cr = NoCR \/ cr.deleting
  ELSE cr # NoCR /\ ~cr.deleting /\ Shows(cr.spec, row)

\* At rest the CR shows the row.  What can make it miss a change is named, and
\* nothing else can: requests that overlap, a call that failed or a crash, a
\* status write of the operator between the Get and the Update, and a new app
\* under the name of one whose CR is still terminating.  And no such accident
\* lasts beyond the next request that gets as far as the CR without one of its
\* own: whatever row and CR were left in, it brings them together again.
InSyncUnlessExcused == Quiet /\ excuses = {} => InSync

\* service/app.go on syncAppToK8s: it "synchronises the app state to Kubernetes.
\* Errors are logged but not propagated".  Where there were no errors, and no
\* app was terminating, it should have done so, also for two requests at once.
OverlapsSync == Quiet /\ excuses \subseteq {"overlap"} => InSync

\* The same for requests one after another, of which one deletes the app and the
\* next, service/app.go on Create, "creates a new app".
ReusedNameSyncs == Quiet /\ excuses \subseteq {"terminating"} => InSync

\* service/app.go on AddDomain: it "adds a custom domain to the app"; and
\* app_types.go on customDomains, from which the operator makes DomainMappings:
\* "Custom domain hostnames for this app".
DomainsAttached ==
  Quiet /\ excuses = {} /\ row # NoRow => cr.spec.customDomains = Domains(row.env)

\* Whatever overlaps or fails, the CR never shows a mixture of two requests or
\* a state that was not committed to Postgres first.
CRWasCommitted == cr # NoCR => \E app \in stored : Shows(cr.spec, app)

\* The row of a deleted app does not come back through a request that read it
\* before the deletion.
DeletedForGood ==
  [][row' # NoRow /\ row' # row =>
       (row # NoRow /\ row.id = row'.id) \/ \A app \in stored : app.id # row'.id]_vars

\* When client c writes the row that it has patched, every variable that the
\* patch does not name is kept, and those that it names with an empty value, and
\* no others of it, are removed.
Merges(c) ==
  LET old == row.env.vars  new == row'.env.vars  patch == job[c].req.patch
  IN /\ \A k \in DOMAIN old \ DOMAIN patch : k \in DOMAIN new /\ new[k] = old[k]
     /\ \A k \in DOMAIN patch : k \in DOMAIN new <=> patch[k] # Empty

Patches(c) == /\ job[c].step = "updateRow" /\ job[c].req.op = "patchEnv"
              /\ row' # row

\* service/app.go on PatchEnv: it "merges the provided environment variables
\* into the existing set".  It does when no other request runs at the same
\* time, whatever has happened to row and CR before.
PatchMerges == [][\A c \in alone : Patches(c) => Merges(c)]_vars

\* The same without the condition: two patches at once add up.
PatchesAddUp ==
  [][\A c \in Clients : Patches(c) /\ job'[c] # job[c] => Merges(c)]_vars

StageOf ==
  CASE cr = NoCR -> "none"
    [] cr # NoCR /\ ~cr.finalizer -> "open"
    [] cr # NoCR /\ cr.finalizer /\ ~cr.deleting -> "guarded"
    [] OTHER -> "closing"

Contract == INSTANCE CustomResource
  WITH Objects <- {"app"}, NoSpec <- NoCR, Specs <- AppSpec,
       stage <- [o \in {"app"} |-> StageOf],
       spec <- [o \in {"app"} |-> IF cr = NoCR THEN NoCR ELSE cr.spec]

\* To the CR the requests do only what a client may, however they overlap, fail
\* or are cut short: it goes through its finalizer, and none of them writes back
\* a CR that was deleted, or the finalizer of an older one, since it was read.
KeepsContract ==
  /\ Contract!Init
  /\ [][IF job' # job THEN Contract!ClientStep("app")
        ELSE Contract!OperatorStep("app")]_(Contract!vars)

\* service/app.go on Delete: it "removes an app from the database and
\* Kubernetes".  With no call failing, an app without a row is not left with a
\* CR that nobody is about to delete.
DeleteRemovesBoth ==
  Quiet /\ faults = 0 /\ row = NoRow => cr = NoCR \/ cr.deleting
=============================================================================
