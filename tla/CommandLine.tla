----------------------------- MODULE CommandLine -----------------------------
(***************************************************************************)
(* The commands of the kuberless client that change an app (cli/cmd), run  *)
(* in several terminals on one app name, and what they meet: the API       *)
(* server, the operator and Knative.                                       *)
(*                                                                         *)
(* A command is a sequence of HTTP requests, each of them one step here:   *)
(* what requests do to each other inside the server is told in AppService, *)
(* the calls of a reconcile in AppController.  A request may be applied    *)
(* and its answer lost, for instance to the client's timeout.              *)
(***************************************************************************)
EXTENDS Naturals

CONSTANTS
  Clients,     \* terminals
  Ids,         \* UUIDs
  Images,
  Names,       \* of environment variables
  Commands,    \* the commands that are run
  NoApp, NoCR, NoService, NoCommand, NoId,
  MaxCommands, \* bound on the commands run
  MaxFaults    \* bound on failing calls

App == [id : Ids, image : Images, paused : BOOLEAN, env : SUBSET Names]

Command == [op : {"deploy"}, image : Images, env : SUBSET Names]
             \cup [op : {"setEnv", "unsetEnv"}, env : SUBSET Names]
             \cup [op : {"pause", "resume", "delete"}]

ASSUME CommandsAssumption == Commands \subseteq Command

ASSUME BoundsAssumption == MaxCommands \in Nat /\ MaxFaults \in Nat

ASSUME NoneAssumption ==
  /\ NoApp \notin App /\ NoId \notin Ids /\ NoCommand \notin Command
  /\ "envVars" \notin Names

VARIABLES
  app,       \* the app's row, or NoApp
  issued,    \* the ids given out so far
  cr,        \* the App custom resource, or NoCR
  service,   \* the Knative Service, or NoService
  job,       \* job[c]: the command in terminal c
  excuses,   \* history: why c's verdict may be about something else
  run, faults

vars == <<app, issued, cr, service, job, excuses, run, faults>>

CR == [image : Images, paused : BOOLEAN, deleting : BOOLEAN,
       phase : {"", "Deploying", "Ready", "Paused", "Failed"}]

\* ready: its Ready condition.  served: history: images it has been ready with.
Service == [image : Images, ready : BOOLEAN, served : SUBSET Images]

Verdicts == {"ready", "failed", "timeout"}

\* id: of the app that the command found; written: history: the server has
\* stored what it asked for.
Job == [step : {"idle", "create", "list", "act", "poll"},
        command : Commands \cup {NoCommand}, id : Ids \cup {NoId},
        written : BOOLEAN, result : {"none", "ok", "error"} \cup Verdicts]

Idle == [step |-> "idle", command |-> NoCommand, id |-> NoId,
         written |-> FALSE, result |-> "none"]

Init ==
  /\ app = NoApp /\ issued = {} /\ cr = NoCR /\ service = NoService
  /\ job = [c \in Clients |-> Idle]
  /\ excuses = [c \in Clients |-> {}]
  /\ run = 0 /\ faults = 0

Fault == faults < MaxFaults /\ faults' = faults + 1
NoFault == UNCHANGED faults

Ends(c, r) == job' = [job EXCEPT ![c].step = "idle", ![c].result = r]

-----------------------------------------------------------------------------
(* What is sent, and what the server makes of it *)

\* The body of CreateApp, with the fields' JSON names, and that of PatchEnv: the
\* map itself, in which an unset variable has the empty string.
CreateBody(m) == [image |-> m.image, env |-> [n \in m.env |-> "value"]]
PatchBody(m) == [n \in m.env |-> IF m.op = "setEnv" THEN "value" ELSE ""]

\* CreateAppRequest and PatchEnvRequest have the variables in "envVars"; a field
\* that the body lacks is left empty, one that the type lacks is passed over.
EnvVars(body) == IF "envVars" \in DOMAIN body THEN body["envVars"] ELSE <<>>

Patched(env, patch) ==
  (env \cup {n \in DOMAIN patch : patch[n] # ""})
    \ {n \in DOMAIN patch : patch[n] = ""}

Created(id, m) == [id |-> id, image |-> m.image, paused |-> FALSE,
                   env |-> DOMAIN EnvVars(CreateBody(m))]

\* deploy's update has the image, and neither the variables nor paused.
Applied(m, a) ==
  CASE m.op = "deploy" -> [a EXCEPT !.image = m.image]
    [] m.op = "pause" -> [a EXCEPT !.paused = TRUE]
    [] m.op = "resume" -> [a EXCEPT !.paused = FALSE]
    [] m.op = "delete" -> NoApp
    [] OTHER -> [a EXCEPT !.env = Patched(@, EnvVars(PatchBody(m)))]

\* syncAppToK8s and DeleteAppCRD.  A CR without a phase has no finalizer yet.
Synced(new) ==
  CASE new # NoApp /\ cr = NoCR -> [image |-> new.image, paused |-> new.paused,
                                    deleting |-> FALSE, phase |-> ""]
    [] new # NoApp /\ cr # NoCR -> [cr EXCEPT !.image = new.image,
                                              !.paused = new.paused]
    [] new = NoApp /\ cr # NoCR /\ cr.phase # "" -> [cr EXCEPT !.deleting = TRUE]
    [] OTHER -> NoCR

\* Whoever polls now may be told of another command's version; whoever writes
\* now, of the version, or of an earlier app of the name, that is there already.
Disturb(c) ==
  excuses' = [d \in Clients |->
    excuses[d] \cup
      IF d = c
      THEN {e \in {"previous"} : cr # NoCR \/ service # NoService}
      ELSE {e \in {"overlap"} : job[d].step = "poll"}]

\* A request of c that makes the row new: it succeeds, is refused, or fails.  The
\* copy to the CR may fail without the client being told; a failing request may
\* have been applied.
Request(c, possible, new, success, failure) ==
  \/ /\ possible /\ success
     /\ app' = new /\ Disturb(c)
     /\ \/ cr' = Synced(new) /\ NoFault
        \/ cr' = cr /\ Fault
  \/ /\ possible /\ failure /\ Fault
     /\ app' = new /\ cr' = Synced(new) /\ Disturb(c)
  \/ /\ failure
     /\ IF possible THEN Fault ELSE NoFault
     /\ UNCHANGED <<app, cr, excuses>>

-----------------------------------------------------------------------------
(* The commands *)

Start(c) ==
  /\ job[c].step = "idle" /\ run < MaxCommands
  /\ run' = run + 1
  /\ \E m \in Commands :
       job' = [job EXCEPT ![c] = [Idle EXCEPT !.command = m,
                 !.step = IF m.op = "deploy" THEN "create" ELSE "list"]]
  /\ excuses' = [excuses EXCEPT ![c] = {}]
  /\ UNCHANGED <<app, issued, cr, service, faults>>

\* deploy updates an app without having looked for it.
MistakeCreate(c) ==
  /\ job[c].step = "create"
  /\ \E id \in Ids \ issued :
       /\ issued' = issued \cup {id}
       /\ Request(c, app = NoApp, Created(id, job[c].command),
            job' = [job EXCEPT ![c].step = "poll", ![c].id = id,
                               ![c].written = TRUE],
            job' = [job EXCEPT ![c].step = "act"])
  /\ UNCHANGED <<service, run>>

\* deploy: whatever the error is, an app of that name is looked for.
Create(c) ==
  /\ job[c].step = "create"
  /\ \E id \in Ids \ issued :
       /\ issued' = issued \cup {id}
       /\ Request(c, app = NoApp, Created(id, job[c].command),
            job' = [job EXCEPT ![c].step = "poll", ![c].id = id,
                               ![c].written = TRUE],
            job' = [job EXCEPT ![c].step = "list"])
  /\ UNCHANGED <<service, run>>

\* deploy is content to find the app.
MistakeGetAppByName(c) ==
  /\ job[c].step = "list"
  /\ \/ /\ app # NoApp /\ NoFault
        /\ job' = [job EXCEPT ![c].id = app.id, ![c].step =
             IF job[c].command.op = "deploy" THEN "poll" ELSE "act"]
     \/ app = NoApp /\ NoFault /\ Ends(c, "error")
     \/ Fault /\ Ends(c, "error")
  /\ UNCHANGED <<app, issued, cr, service, excuses, run>>

\* No app of that name in the list: the name is taken for an id, which it is not.
GetAppByName(c) ==
  /\ job[c].step = "list"
  /\ \/ /\ app # NoApp /\ NoFault
        /\ job' = [job EXCEPT ![c].id = app.id, ![c].step = "act"]
     \/ app = NoApp /\ NoFault /\ Ends(c, "error")
     \/ Fault /\ Ends(c, "error")
  /\ UNCHANGED <<app, issued, cr, service, excuses, run>>

\* The app is addressed by its name.
MistakeFound(c) == app # NoApp

Found(c) == app # NoApp /\ app.id = job[c].id

\* UpdateApp, DeleteApp or PatchEnv, by id.
Act(c) ==
  /\ job[c].step = "act"
  /\ Request(c, Found(c), Applied(job[c].command, app),
       job' = [job EXCEPT ![c].written = TRUE,
                 ![c].step = IF job[c].command.op = "deploy" THEN "poll" ELSE "idle",
                 ![c].result = IF job[c].command.op = "deploy" THEN @ ELSE "ok"],
       Ends(c, "error"))
  /\ UNCHANGED <<issued, service, run>>

\* GetApp's phase is that of the CR; it is empty if either cannot be read.
Phase(c) == IF Found(c) /\ cr # NoCR THEN cr.phase ELSE ""

\* Everything but Failed is taken for progress, and a service that has one for up.
MistakePoll(c) ==
  /\ job[c].step = "poll"
  /\ \/ Phase(c) \in {"Ready", "Deploying"} /\ Ends(c, "ready")
     \/ Phase(c) = "Failed" /\ Ends(c, "failed")
  /\ UNCHANGED <<app, issued, cr, service, excuses, run, faults>>

\* Errors and all other phases: ask again in 3 seconds.
Poll(c) ==
  /\ job[c].step = "poll"
  /\ \/ Phase(c) = "Ready" /\ Ends(c, "ready")
     \/ Phase(c) = "Failed" /\ Ends(c, "failed")
  /\ UNCHANGED <<app, issued, cr, service, excuses, run, faults>>

\* After 5 minutes; the command ends without an error.
TimeOut(c) ==
  /\ job[c].step = "poll"
  /\ Ends(c, "timeout")
  /\ UNCHANGED <<app, issued, cr, service, excuses, run, faults>>

-----------------------------------------------------------------------------
(* The operator and Knative *)

cluster == <<app, issued, job, excuses, run>>

\* A paused app's Service is deleted; should that fail, it stays.
ReconcilePaused ==
  /\ cr # NoCR /\ ~cr.deleting /\ cr.paused
  /\ cr' = [cr EXCEPT !.phase = "Paused"]
  /\ \/ service' = NoService /\ NoFault
     \/ service' = service /\ Fault
  /\ UNCHANGED cluster

\* The Service gets the CR's image; the phase is read off its Ready condition,
\* which Knative may not have brought up to date.
Reconcile ==
  /\ cr # NoCR /\ ~cr.deleting /\ ~cr.paused
  /\ service' = IF service = NoService
                THEN [image |-> cr.image, ready |-> FALSE, served |-> {}]
                ELSE [service EXCEPT !.image = cr.image]
  /\ cr' = [cr EXCEPT !.phase = IF service'.ready THEN "Ready" ELSE "Deploying"]
  /\ NoFault /\ UNCHANGED cluster

\* setFailed
ReconcileFails ==
  /\ cr # NoCR /\ ~cr.deleting /\ ~cr.paused
  /\ cr' = [cr EXCEPT !.phase = "Failed"]
  /\ Fault /\ UNCHANGED <<service, cluster>>

\* reconcileDelete; an error of the Service's deletion is passed over.
Finalize ==
  /\ cr # NoCR /\ cr.deleting
  /\ cr' = NoCR
  /\ \/ service' = NoService /\ NoFault
     \/ service' = service /\ Fault
  /\ UNCHANGED cluster

Knative ==
  /\ service # NoService
  /\ \/ service' = [service EXCEPT !.ready = TRUE,
                                   !.served = @ \cup {service.image}]
     \/ service' = [service EXCEPT !.ready = FALSE]
  /\ UNCHANGED <<cr, cluster, faults>>

Next ==
  \/ \E c \in Clients : \/ Start(c) \/ Create(c) \/ GetAppByName(c) \/ Act(c)
                        \/ Poll(c) \/ TimeOut(c)
  \/ ReconcilePaused \/ Reconcile \/ ReconcileFails \/ Finalize \/ Knative

Spec == Init /\ [][Next]_vars

-----------------------------------------------------------------------------
(* Properties *)

\* Types; and a command that addresses an app has the id of one there has been.
TypeOK ==
  /\ app \in App \cup {NoApp} /\ issued \subseteq Ids
  /\ cr = NoCR \/ cr \in CR
  /\ service = NoService \/ service \in Service
  /\ job \in [Clients -> Job]
  /\ \A c \in Clients : job[c].step \in {"act", "poll"} => job[c].id \in issued
  /\ excuses \in [Clients -> SUBSET {"previous", "overlap"}]
  /\ run \in 0 .. MaxCommands /\ faults \in 0 .. MaxFaults

\* A deploy that goes on to wait for the app has had its image stored, be it by
\* an update after a create whose answer was lost.
Stored ==
  \A c \in Clients : job[c].step = "poll" \/ job[c].result \in Verdicts
                       => job[c].written

\* A deploy that found nothing of an earlier version or app of that name, and
\* that nobody disturbed, says "App is ready!" only when Knative has been ready
\* with its image, and "deployment failed" only after a reconcile that failed.
VerdictIsOwn ==
  [][\A c \in Clients :
       job'[c].result # job[c].result /\ excuses[c] = {} =>
         /\ job'[c].result = "ready" => job[c].command.image \in service.served
         /\ job'[c].result = "failed" => faults > 0]_vars

\* A command changes the app that it found by name, or none: not one that was
\* made under that name since.
ChangesWhatItFound ==
  [][\A c \in Clients :
       job'[c] # job[c] /\ app' # app /\ app # NoApp => app.id = job[c].id]_vars

\* cli/cmd/env.go: env set sets variables, as the flag --env of deploy does.  A
\* command that ends well has its variables stored, unless another command
\* disturbed it.
EnvStored ==
  [][\A c \in Clients :
       /\ job[c].step # "idle" /\ job'[c].step = "idle"
       /\ job'[c].result \in {"ok", "ready"} /\ "overlap" \notin excuses[c]
       /\ job[c].command.op \in {"deploy", "setEnv"} /\ app' # NoApp
       => job[c].command.env \subseteq app'.env]_vars
=============================================================================
