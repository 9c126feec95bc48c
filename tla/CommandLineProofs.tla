-------------------------- MODULE CommandLineProofs --------------------------
(***************************************************************************)
(* Theorems about CommandLine for any number of terminals, of commands run *)
(* in them and of failing calls.                                           *)
(***************************************************************************)
EXTENDS CommandLine, TLAPS

\* A job is that of one of the commands; only a deploy creates and waits.
JobInv ==
  /\ app # NoApp => app.id \in issued
  /\ \A c \in Clients :
       /\ job[c].step # "idle" => job[c].command \in Commands
       /\ job[c].step \in {"create", "poll"} => job[c].command.op = "deploy"
       /\ job[c].step # "idle" => job[c].result = "none"

\* What a deploy that is not excused finds while it waits is its own: its image
\* in the CR and the Service, and a phase read off that Service.
Own(c) ==
  job[c].step = "poll" /\ excuses[c] = {} =>
    /\ cr # NoCR => cr.image = job[c].command.image
    /\ service # NoService => service.image = job[c].command.image
    /\ service # NoService /\ service.ready =>
         job[c].command.image \in service.served
    /\ cr # NoCR /\ cr.phase = "Ready" => job[c].command.image \in service.served

OwnInv ==
  /\ cr # NoCR /\ cr.phase = "Failed" => faults > 0
  /\ \A c \in Clients : Own(c)

TypeInv == TypeOK /\ JobInv /\ Stored

IInv == TypeInv /\ OwnInv

-----------------------------------------------------------------------------
(* Lemmas about what is sent and what the server makes of it *)

\* The fields of a command.
LEMMA CommandFacts ==
  ASSUME NEW m \in Commands
  PROVE  /\ m.op \in {"deploy", "setEnv", "unsetEnv", "pause", "resume", "delete"}
         /\ m.op = "deploy" => m.image \in Images
         /\ m.op \in {"setEnv", "unsetEnv"} => m.env \in SUBSET Names
<1>1. m \in Command
  BY CommandsAssumption
<1>2. CASE m \in [op : {"deploy"}, image : Images, env : SUBSET Names]
  BY <1>2
<1>3. CASE m \in [op : {"setEnv", "unsetEnv"}, env : SUBSET Names]
  BY <1>3
<1>4. CASE m \in [op : {"pause", "resume", "delete"}]
  BY <1>4
<1> QED BY <1>1, <1>2, <1>3, <1>4 DEF Command

\* None of the variables that the client sends reaches an app: CreateApp's body
\* has them in another field, and PatchEnv's is the map itself.
LEMMA EnvFacts ==
  /\ \A m : DOMAIN EnvVars(CreateBody(m)) = {}
  /\ \A m : m.env \in SUBSET Names => DOMAIN EnvVars(PatchBody(m)) = {}
<1>0. DOMAIN <<>> = {}
  OBVIOUS
<1>1. ASSUME NEW m PROVE DOMAIN EnvVars(CreateBody(m)) = {}
  <2>1. "envVars" \notin DOMAIN CreateBody(m)
    BY DEF CreateBody
  <2> QED BY <1>0, <2>1, Zenon DEF EnvVars
<1>2. ASSUME NEW m, m.env \in SUBSET Names PROVE DOMAIN EnvVars(PatchBody(m)) = {}
  <2>1. DOMAIN PatchBody(m) = m.env
    BY DEF PatchBody
  <2>2. "envVars" \notin DOMAIN PatchBody(m)
    BY <1>2, <2>1, NoneAssumption
  <2> QED BY <1>0, <2>2, Zenon DEF EnvVars
<1> QED BY <1>1, <1>2

\* The row that a deploy creates.
LEMMA CreatedFacts ==
  ASSUME NEW id \in Ids, NEW m \in Commands, m.op = "deploy"
  PROVE  /\ Created(id, m) \in App /\ Created(id, m) # NoApp
         /\ Created(id, m).id = id /\ Created(id, m).image = m.image
<1>1. Created(id, m) \in App
  BY CommandFacts, EnvFacts DEF Created, App
<1> QED BY <1>1, NoneAssumption DEF Created

\* An update keeps the app's id, and deploy's has the image.
LEMMA AppliedFacts ==
  ASSUME NEW m \in Commands, NEW a \in App
  PROVE  /\ Applied(m, a) \in App \cup {NoApp}
         /\ Applied(m, a) # NoApp => Applied(m, a).id = a.id
         /\ m.op = "deploy" => Applied(m, a) # NoApp /\ Applied(m, a).image = m.image
<1>1. CASE m.op = "deploy"
  <2>1. Applied(m, a) = [a EXCEPT !.image = m.image]
    BY <1>1 DEF Applied
  <2>2. Applied(m, a) \in App
    BY <1>1, <2>1, CommandFacts DEF App
  <2> QED BY <1>1, <2>1, <2>2, NoneAssumption DEF App
<1>2. CASE m.op = "pause"
  <2>1. Applied(m, a) = [a EXCEPT !.paused = TRUE]
    BY <1>2 DEF Applied
  <2> QED BY <1>2, <2>1 DEF App
<1>3. CASE m.op = "resume"
  <2>1. Applied(m, a) = [a EXCEPT !.paused = FALSE]
    BY <1>3 DEF Applied
  <2> QED BY <1>3, <2>1 DEF App
<1>4. CASE m.op = "delete"
  <2>1. Applied(m, a) = NoApp
    BY <1>4 DEF Applied
  <2> QED BY <1>4, <2>1
<1>5. CASE m.op \in {"setEnv", "unsetEnv"}
  <2> DEFINE patch == EnvVars(PatchBody(m))
             env == Patched(a.env, patch)
  <2>1. Applied(m, a) = [a EXCEPT !.env = env]
    BY <1>5 DEF Applied
  <2>2. DOMAIN patch = {}
    BY <1>5, CommandFacts, EnvFacts
  <2> HIDE DEF patch
  <2>3. env = a.env
    BY <2>2 DEF Patched
  <2>4. env \in SUBSET Names
    BY <2>3 DEF App
  <2> HIDE DEF env
  <2> QED BY <1>5, <2>1, <2>4 DEF App
<1> QED BY <1>1, <1>2, <1>3, <1>4, <1>5, CommandFacts

\* The CR has the image of the row, and keeps its phase.
LEMMA SyncedFacts ==
  ASSUME TypeOK, NEW new \in App \cup {NoApp}
  PROVE  /\ Synced(new) = NoCR \/ Synced(new) \in CR
         /\ Synced(new) # NoCR /\ new # NoApp => Synced(new).image = new.image
         /\ Synced(new) # NoCR /\ Synced(new).phase # "" =>
              cr # NoCR /\ Synced(new).phase = cr.phase
<1>0. cr = NoCR \/ cr \in CR
  BY DEF TypeOK
<1>1. CASE new # NoApp /\ cr = NoCR
  <2>1. Synced(new) = [image |-> new.image, paused |-> new.paused,
                       deleting |-> FALSE, phase |-> ""]
    BY <1>1 DEF Synced
  <2>2. new.image \in Images /\ new.paused \in BOOLEAN /\ FALSE \in BOOLEAN
    BY <1>1 DEF App
  <2>3. \A i \in Images, p \in BOOLEAN :
          /\ [image |-> i, paused |-> p, deleting |-> FALSE, phase |-> ""] \in CR
          /\ [image |-> i, paused |-> p, deleting |-> FALSE, phase |-> ""].image = i
          /\ [image |-> i, paused |-> p, deleting |-> FALSE,
              phase |-> ""].phase = ""
    BY DEF CR
  <2> QED BY <1>1, <2>1, <2>2, <2>3, Zenon
<1>2. CASE new # NoApp /\ cr # NoCR
  <2>1. Synced(new) = [cr EXCEPT !.image = new.image, !.paused = new.paused]
    BY <1>2 DEF Synced
  <2>2. new \in App
    BY <1>2
  <2> QED BY <1>0, <1>2, <2>1, <2>2 DEF App, CR
<1>3. CASE new = NoApp /\ cr # NoCR /\ cr.phase # ""
  <2>1. Synced(new) = [cr EXCEPT !.deleting = TRUE]
    BY <1>3 DEF Synced
  <2> QED BY <1>0, <1>3, <2>1 DEF CR
<1>4. CASE new = NoApp /\ (cr = NoCR \/ cr.phase = "")
  <2>1. Synced(new) = NoCR
    BY <1>4 DEF Synced
  <2> QED BY <2>1
<1> QED BY <1>1, <1>2, <1>3, <1>4

-----------------------------------------------------------------------------
(* Lemmas about the steps of a command *)

\* The command ends.
LEMMA EndsFacts ==
  ASSUME TypeOK, NEW c \in Clients,
         NEW r \in {"ok", "error", "ready", "failed", "timeout"}, Ends(c, r)
  PROVE  /\ job' \in [Clients -> Job]
         /\ job'[c].step = "idle" /\ job'[c].result = r
         /\ job'[c].written = job[c].written /\ job'[c].command = job[c].command
         /\ \A d \in Clients \ {c} : job'[d] = job[d]
BY DEF TypeOK, Job, Ends, Verdicts

\* Another step of the same command, of which some fields are known.
Moves(c, s) ==
  /\ job' \in [Clients -> Job]
  /\ job'[c].step = s /\ job'[c].command = job[c].command
  /\ \A d \in Clients \ {c} : job'[d] = job[d]

\* A deploy after its create: it waits for the app, or looks for it.
LEMMA CreateJob ==
  ASSUME TypeOK, NEW c \in Clients, NEW id \in Ids
  PROVE  /\ job' = [job EXCEPT ![c].step = "poll", ![c].id = id, ![c].written = TRUE]
              => /\ Moves(c, "poll") /\ job'[c].id = id /\ job'[c].written
                 /\ job'[c].result = job[c].result
         /\ job' = [job EXCEPT ![c].step = "list"]
              => Moves(c, "list") /\ job'[c].result = job[c].result
BY DEF TypeOK, Job, Moves

\* A command that found its app.
LEMMA FoundJob ==
  ASSUME TypeOK, NEW c \in Clients, NEW id \in Ids,
         job' = [job EXCEPT ![c].id = id, ![c].step = "act"]
  PROVE  /\ Moves(c, "act") /\ job'[c].id = id /\ job'[c].result = job[c].result
BY DEF TypeOK, Job, Moves

\* A command after its update: a deploy goes on to wait, others end.
LEMMA ActJob ==
  ASSUME TypeOK, NEW c \in Clients,
         NEW s \in {"poll", "idle"}, NEW r \in {job[c].result, "ok"},
         job' = [job EXCEPT ![c].written = TRUE, ![c].step = s, ![c].result = r]
  PROVE  /\ Moves(c, s) /\ job'[c].id = job[c].id /\ job'[c].written
         /\ job'[c].result = r
BY DEF TypeOK, Job, Moves

\* What a request changes besides the job.
Effect(c, possible, new) ==
  /\ \/ UNCHANGED <<app, cr, excuses>>
     \/ possible /\ app' = new /\ Disturb(c) /\ cr' \in {cr, Synced(new)}
  /\ faults' = faults \/ Fault

\* What a request does to row and CR keeps their types.
LEMMA EffectType ==
  ASSUME TypeOK, NEW c \in Clients, NEW possible, NEW new,
         possible => new \in App \cup {NoApp}, Effect(c, possible, new)
  PROVE  /\ app' \in App \cup {NoApp}
         /\ cr' = NoCR \/ cr' \in CR
         /\ excuses' \in [Clients -> SUBSET {"previous", "overlap"}]
         /\ faults' \in 0 .. MaxFaults /\ faults' >= faults
<1>1. /\ app \in App \cup {NoApp} /\ (cr = NoCR \/ cr \in CR)
      /\ excuses \in [Clients -> SUBSET {"previous", "overlap"}]
      /\ faults \in 0 .. MaxFaults
  BY DEF TypeOK
<1>2. faults' \in 0 .. MaxFaults /\ faults' >= faults
  BY <1>1, BoundsAssumption DEF Effect, Fault
<1>3. CASE UNCHANGED <<app, cr, excuses>>
  BY <1>1, <1>2, <1>3
<1>4. CASE possible /\ app' = new /\ Disturb(c) /\ cr' \in {cr, Synced(new)}
  <2>1. excuses' \in [Clients -> SUBSET {"previous", "overlap"}]
    BY <1>1, <1>4 DEF Disturb
  <2>2. cr' = NoCR \/ cr' \in CR
    BY <1>1, <1>4, SyncedFacts
  <2> QED BY <1>2, <1>4, <2>1, <2>2
<1> QED BY <1>3, <1>4 DEF Effect

\* What a create leaves of the row and who is disturbed by it.
LEMMA CreateEffect ==
  ASSUME TypeOK, NEW c \in Clients, Create(c)
  PROVE  \E id \in Ids \ issued :
           /\ issued' = issued \cup {id}
           /\ Effect(c, app = NoApp, Created(id, job[c].command))
           /\ \/ job' = [job EXCEPT ![c].step = "poll", ![c].id = id,
                                    ![c].written = TRUE]
                 /\ app' = Created(id, job[c].command) /\ Disturb(c)
                 /\ cr' \in {cr, Synced(app')}
              \/ job' = [job EXCEPT ![c].step = "list"]
BY DEF Create, Request, Effect, NoFault

\* What an update or delete leaves of the row and who is disturbed by it.
LEMMA ActEffect ==
  ASSUME TypeOK, NEW c \in Clients, Act(c)
  PROVE  /\ Effect(c, Found(c), Applied(job[c].command, app))
         /\ \/ /\ Found(c) /\ app' = Applied(job[c].command, app) /\ Disturb(c)
               /\ cr' \in {cr, Synced(app')}
               /\ job' = [job EXCEPT ![c].written = TRUE,
                    ![c].step = IF job[c].command.op = "deploy" THEN "poll"
                                                                ELSE "idle",
                    ![c].result = IF job[c].command.op = "deploy" THEN @ ELSE "ok"]
            \/ Ends(c, "error")
         /\ UNCHANGED <<issued, service, run>>
BY DEF Act, Request, Effect, NoFault

-----------------------------------------------------------------------------
(* Types, the command's jobs, and what is stored *)

\* The types hold before anything was deployed.
LEMMA TypeInit == Init => TypeInv
<1> SUFFICES ASSUME Init PROVE TypeInv
  OBVIOUS
<1>1. Idle \in Job /\ Idle.step = "idle"
  BY DEF Idle, Job
<1>2. job \in [Clients -> Job] /\ \A c \in Clients : job[c] = Idle
  BY <1>1 DEF Init
<1>3. TypeOK
  <2>1. \A c \in Clients : job[c].step = "idle"
    BY <1>1, <1>2
  <2>2. excuses \in [Clients -> SUBSET {"previous", "overlap"}]
    BY DEF Init
  <2> QED BY <1>2, <2>1, <2>2, BoundsAssumption DEF Init, TypeOK
<1>4. JobInv /\ Stored
  BY <1>2 DEF Init, JobInv, Stored, Idle, Verdicts
<1> QED BY <1>3, <1>4 DEF TypeInv

\* A step of one command that keeps the other variables' types.
LEMMA OneJob ==
  ASSUME TypeInv, NEW c \in Clients, job' \in [Clients -> Job],
         \A d \in Clients \ {c} : job'[d] = job[d],
         app' \in App \cup {NoApp}, app' # NoApp => app'.id \in issued',
         issued \subseteq issued', issued' \subseteq Ids,
         cr' = NoCR \/ cr' \in CR, service' = service,
         excuses' \in [Clients -> SUBSET {"previous", "overlap"}],
         run' \in 0 .. MaxCommands, faults' \in 0 .. MaxFaults,
         job'[c].step \in {"act", "poll"} => job'[c].id \in issued',
         job'[c].step # "idle" => job'[c].command \in Commands,
         job'[c].step \in {"create", "poll"} => job'[c].command.op = "deploy",
         job'[c].step # "idle" => job'[c].result = "none",
         job'[c].step = "poll" \/ job'[c].result \in Verdicts => job'[c].written
  PROVE  TypeInv'
<1>1. TypeOK'
  BY DEF TypeInv, TypeOK
<1>2. JobInv' /\ Stored'
  BY DEF TypeInv, JobInv, Stored
<1> QED BY <1>1, <1>2 DEF TypeInv

\* The first step of a command keeps the types.
LEMMA StartStep == ASSUME TypeInv, NEW c \in Clients, Start(c) PROVE TypeInv'
<1>1. PICK m \in Commands :
        job' = [job EXCEPT ![c] = [Idle EXCEPT !.command = m,
                  !.step = IF m.op = "deploy" THEN "create" ELSE "list"]]
  BY DEF Start
<1> DEFINE new == [Idle EXCEPT !.command = m,
                     !.step = IF m.op = "deploy" THEN "create" ELSE "list"]
<1>2. /\ new \in Job /\ new.command = m /\ new.result = "none"
      /\ new.step = IF m.op = "deploy" THEN "create" ELSE "list"
  BY DEF Idle, Job
<1>3. job' = [job EXCEPT ![c] = new]
  BY <1>1
<1> HIDE DEF new
<1>4. /\ job' \in [Clients -> Job] /\ job'[c] = new
      /\ \A d \in Clients \ {c} : job'[d] = job[d]
  BY <1>2, <1>3 DEF TypeInv, TypeOK
<1>5. /\ run' \in 0 .. MaxCommands
      /\ excuses' \in [Clients -> SUBSET {"previous", "overlap"}]
  BY BoundsAssumption DEF Start, TypeInv, TypeOK
<1>6. UNCHANGED <<app, issued, cr, service, faults>>
  BY DEF Start
<1> QED BY <1>2, <1>4, <1>5, <1>6, OneJob DEF TypeInv, TypeOK, JobInv, Verdicts

\* A create keeps the types.
LEMMA CreateStep == ASSUME TypeInv, NEW c \in Clients, Create(c) PROVE TypeInv'
<1>0. /\ TypeOK /\ job[c].command \in Commands /\ job[c].command.op = "deploy"
      /\ job[c].result = "none" /\ issued \subseteq Ids
      /\ app # NoApp => app.id \in issued
      /\ UNCHANGED <<service, run>> /\ run \in 0 .. MaxCommands
  BY DEF TypeInv, TypeOK, JobInv, Create
<1>1. PICK id \in Ids \ issued :
        /\ issued' = issued \cup {id}
        /\ Effect(c, app = NoApp, Created(id, job[c].command))
        /\ \/ job' = [job EXCEPT ![c].step = "poll", ![c].id = id,
                                 ![c].written = TRUE]
           \/ job' = [job EXCEPT ![c].step = "list"]
  BY <1>0, CreateEffect
<1>2. /\ Created(id, job[c].command) \in App
      /\ Created(id, job[c].command).id = id
  BY <1>0, <1>1, CreatedFacts
<1>3. /\ app' \in App \cup {NoApp} /\ (cr' = NoCR \/ cr' \in CR)
      /\ excuses' \in [Clients -> SUBSET {"previous", "overlap"}]
      /\ faults' \in 0 .. MaxFaults
  BY <1>0, <1>1, <1>2, EffectType
<1>4. app' # NoApp => app'.id \in issued'
  BY <1>0, <1>1, <1>2 DEF Effect
<1>5. \/ /\ Moves(c, "poll") /\ job'[c].id = id /\ job'[c].written
         /\ job'[c].result = "none"
      \/ Moves(c, "list") /\ job'[c].result = "none"
  BY <1>0, <1>1, CreateJob
<1> QED BY <1>0, <1>1, <1>3, <1>4, <1>5, OneJob DEF Moves, Verdicts

\* A look-up by name keeps the types.
LEMMA FindStep == ASSUME TypeInv, NEW c \in Clients, GetAppByName(c) PROVE TypeInv'
<1>0. /\ TypeOK /\ job[c].command \in Commands
      /\ job[c].result = "none" /\ issued \subseteq Ids
      /\ app # NoApp => app.id \in issued
      /\ UNCHANGED <<app, issued, cr, service, excuses, run>>
      /\ run \in 0 .. MaxCommands /\ app \in App \cup {NoApp}
      /\ cr = NoCR \/ cr \in CR
      /\ excuses \in [Clients -> SUBSET {"previous", "overlap"}]
  BY DEF TypeInv, TypeOK, JobInv, GetAppByName
<1>1. faults' \in 0 .. MaxFaults
  BY BoundsAssumption DEF GetAppByName, Fault, NoFault, TypeInv, TypeOK
<1>2. CASE app # NoApp /\ job' = [job EXCEPT ![c].id = app.id, ![c].step = "act"]
  <2>1. app.id \in Ids
    BY <1>0, <1>2
  <2>2. Moves(c, "act") /\ job'[c].id = app.id /\ job'[c].result = "none"
    BY <1>0, <1>2, <2>1, FoundJob
  <2> QED BY <1>0, <1>1, <1>2, <2>2, OneJob DEF Moves, Verdicts
<1>3. CASE Ends(c, "error")
  BY <1>0, <1>1, <1>3, EndsFacts, OneJob DEF Verdicts
<1> QED BY <1>2, <1>3 DEF GetAppByName

\* An update or delete keeps the types.
LEMMA ActStep == ASSUME TypeInv, NEW c \in Clients, Act(c) PROVE TypeInv'
<1>0. /\ TypeOK /\ job[c].command \in Commands
      /\ job[c].result = "none" /\ issued \subseteq Ids /\ job[c].id \in issued
      /\ app # NoApp => app.id \in issued
      /\ UNCHANGED <<issued, service, run>>
      /\ run \in 0 .. MaxCommands
  BY DEF TypeInv, TypeOK, JobInv, Act
<1> DEFINE new == Applied(job[c].command, app)
<1>1. Found(c) => /\ app \in App /\ new \in App \cup {NoApp}
                  /\ new # NoApp => new.id \in issued
  BY <1>0, AppliedFacts DEF Found, TypeOK
<1>2. Effect(c, Found(c), new)
  BY <1>0, ActEffect
<1> HIDE DEF new
<1>3. /\ app' \in App \cup {NoApp} /\ (cr' = NoCR \/ cr' \in CR)
      /\ excuses' \in [Clients -> SUBSET {"previous", "overlap"}]
      /\ faults' \in 0 .. MaxFaults
  BY <1>0, <1>1, <1>2, EffectType
<1>4. app' # NoApp => app'.id \in issued'
  BY <1>0, <1>1, <1>2 DEF Effect
<1>5. CASE job' = [job EXCEPT ![c].written = TRUE,
             ![c].step = IF job[c].command.op = "deploy" THEN "poll" ELSE "idle",
             ![c].result = IF job[c].command.op = "deploy" THEN @ ELSE "ok"]
  <2>1. CASE job[c].command.op = "deploy"
    <3>1. job' = [job EXCEPT ![c].written = TRUE, ![c].step = "poll",
                             ![c].result = job[c].result]
      BY <1>5, <2>1
    <3>2. /\ Moves(c, "poll") /\ job'[c].id = job[c].id /\ job'[c].written
          /\ job'[c].result = job[c].result
      BY <1>0, <3>1, ActJob
    <3> QED BY <1>0, <1>3, <1>4, <2>1, <3>2, OneJob DEF Moves, Verdicts
  <2>2. CASE job[c].command.op # "deploy"
    <3>1. job' = [job EXCEPT ![c].written = TRUE, ![c].step = "idle",
                             ![c].result = "ok"]
      BY <1>5, <2>2
    <3>2. Moves(c, "idle") /\ job'[c].written /\ job'[c].result = "ok"
      BY <1>0, <3>1, ActJob
    <3> QED BY <1>0, <1>3, <1>4, <3>2, OneJob DEF Moves, Verdicts
  <2> QED BY <2>1, <2>2
<1>6. CASE Ends(c, "error")
  BY <1>0, <1>3, <1>4, <1>6, EndsFacts, OneJob DEF Verdicts
<1> QED BY <1>0, <1>5, <1>6, ActEffect

\* Polling and its timeout keep the types.
LEMMA PollStep ==
  ASSUME TypeInv, NEW c \in Clients, Poll(c) \/ TimeOut(c)
  PROVE  TypeInv'
<1>0. /\ TypeOK /\ job[c].written /\ issued \subseteq Ids
      /\ app # NoApp => app.id \in issued
      /\ UNCHANGED <<app, issued, cr, service, excuses, run, faults>>
      /\ run \in 0 .. MaxCommands /\ faults \in 0 .. MaxFaults
      /\ app \in App \cup {NoApp} /\ (cr = NoCR \/ cr \in CR)
      /\ excuses \in [Clients -> SUBSET {"previous", "overlap"}]
  BY DEF TypeInv, TypeOK, JobInv, Stored, Poll, TimeOut
<1>1. PICK r \in {"ready", "failed", "timeout"} : Ends(c, r)
  BY DEF Poll, TimeOut
<1> QED BY <1>0, <1>1, EndsFacts, OneJob

\* The operator and Knative leave the commands alone.
LEMMA ClusterStep ==
  ASSUME TypeInv,
         ReconcilePaused \/ Reconcile \/ ReconcileFails \/ Finalize \/ Knative
  PROVE  TypeInv'
<1>0. UNCHANGED <<app, issued, job, excuses, run>> /\ TypeOK
  BY DEF ReconcilePaused, Reconcile, ReconcileFails, Finalize, Knative, cluster,
         TypeInv
<1>1. faults' \in 0 .. MaxFaults
  BY <1>0, BoundsAssumption DEF TypeOK, Fault, NoFault, ReconcilePaused, Reconcile,
     ReconcileFails, Finalize, Knative
<1>2. cr' = NoCR \/ cr' \in CR
  <2>1. cr = NoCR \/ cr \in CR
    BY <1>0 DEF TypeOK
  <2>2. CASE cr' = cr \/ cr' = NoCR
    BY <2>1, <2>2
  <2>3. ASSUME cr # NoCR,
               NEW p \in {"", "Deploying", "Ready", "Paused", "Failed"},
               cr' = [cr EXCEPT !.phase = p]
        PROVE  cr' \in CR
    BY <2>1, <2>3 DEF CR
  <2> QED BY <2>2, <2>3
          DEF ReconcilePaused, Reconcile, ReconcileFails, Finalize, Knative
<1>3. service' = NoService \/ service' \in Service
  <2>1. service = NoService \/ service \in Service
    BY <1>0 DEF TypeOK
  <2>2. CASE service' = service \/ service' = NoService
    BY <2>1, <2>2
  <2>3. CASE Reconcile
    <3>1. cr.image \in Images
      BY <1>0, <2>3 DEF Reconcile, TypeOK, CR
    <3>2. [image |-> cr.image, ready |-> FALSE, served |-> {}] \in Service
      BY <3>1 DEF Service
    <3> QED BY <2>1, <2>3, <3>1, <3>2 DEF Reconcile, Service
  <2>4. CASE Knative
    BY <2>1, <2>4 DEF Knative, Service
  <2> QED BY <2>2, <2>3, <2>4 DEF ReconcilePaused, ReconcileFails, Finalize
<1>4. TypeOK'
  BY <1>0, <1>1, <1>2, <1>3 DEF TypeOK
<1>5. JobInv' /\ Stored'
  BY <1>0 DEF TypeInv, JobInv, Stored
<1> QED BY <1>4, <1>5 DEF TypeInv

\* Every step keeps the types.
LEMMA TypeStep == TypeInv /\ [Next]_vars => TypeInv'
<1>1. ASSUME TypeInv, UNCHANGED vars PROVE TypeInv'
  BY <1>1 DEF vars, TypeInv, TypeOK, JobInv, Stored
<1> QED BY <1>1, StartStep, CreateStep, FindStep, ActStep, PollStep, ClusterStep
        DEF Next

\* The variables have their types.
THEOREM TypeCorrect == Spec => []TypeOK
<1>1. TypeInv => TypeOK
  BY DEF TypeInv
<1> QED BY <1>1, TypeInit, TypeStep, PTL DEF Spec

\* A deploy that goes on to wait for the app has had its image stored.
THEOREM StoredSafe == Spec => []Stored
<1>1. TypeInv => Stored
  BY DEF TypeInv
<1> QED BY <1>1, TypeInit, TypeStep, PTL DEF Spec

-----------------------------------------------------------------------------
(* What a deploy that waits finds *)

\* A command that does not move keeps what it finds, if nobody writes; or it is
\* excused.
LEMMA OthersKeep ==
  ASSUME NEW d \in Clients, Own(d), job'[d] = job[d], service' = service,
         \/ cr' = cr /\ excuses'[d] = excuses[d]
         \/ job[d].step = "poll" => excuses'[d] # {}
  PROVE  Own(d)'
BY DEF Own

\* A phase Failed has had its fault.
LEMMA FailedKeeps ==
  ASSUME TypeOK, OwnInv, NEW c \in Clients, NEW possible, NEW new,
         possible => new \in App \cup {NoApp}, Effect(c, possible, new)
  PROVE  cr' # NoCR /\ cr'.phase = "Failed" => faults' > 0
<1>1. faults' >= faults /\ faults \in Nat /\ faults' \in Nat
  BY EffectType, BoundsAssumption DEF TypeOK
<1>2. cr' # NoCR /\ cr'.phase = "Failed" => cr # NoCR /\ cr.phase = "Failed"
  BY SyncedFacts DEF Effect
<1> QED BY <1>1, <1>2 DEF OwnInv

\* What a write does to those who wait, and to the writer.
LEMMA DisturbFacts ==
  ASSUME TypeOK, NEW c \in Clients, Disturb(c)
  PROVE  /\ \A d \in Clients \ {c} : job[d].step = "poll" => excuses'[d] # {}
         /\ excuses'[c] = {} => cr = NoCR /\ service = NoService
BY DEF Disturb, TypeOK

\* A request keeps what the others find.
LEMMA EffectKeeps ==
  ASSUME IInv, NEW c \in Clients, NEW possible, NEW new,
         Effect(c, possible, new), service' = service,
         NEW d \in Clients \ {c}, job'[d] = job[d]
  PROVE  Own(d)'
<1>1. TypeOK /\ Own(d)
  BY DEF IInv, TypeInv, OwnInv
<1>2. CASE UNCHANGED <<app, cr, excuses>>
  BY <1>1, <1>2, OthersKeep
<1>3. CASE Disturb(c)
  BY <1>1, <1>3, DisturbFacts, OthersKeep
<1> QED BY <1>2, <1>3 DEF Effect

\* A deploy that starts to wait finds its own image, or is excused.
LEMMA WriterKeeps ==
  ASSUME IInv, NEW c \in Clients, app' \in App, Disturb(c),
         cr' \in {cr, Synced(app')}, service' = service,
         app'.image = job'[c].command.image
  PROVE  Own(c)'
<1>1. TypeOK
  BY DEF IInv, TypeInv
<1>2. PICK new \in App : new = app'
  OBVIOUS
<1>3. cr = NoCR => \/ cr' = NoCR
                   \/ cr'.image = new.image /\ cr'.phase = ""
  <2>1. Synced(new) # NoCR => Synced(new).image = new.image
    BY <1>1, <1>2, SyncedFacts, NoneAssumption
  <2>2. Synced(new) # NoCR /\ Synced(new).phase # "" => cr # NoCR
    BY <1>1, SyncedFacts
  <2>3. Synced(app') = Synced(new)
    BY <1>2, Zenon
  <2>4. cr' = cr \/ cr' = Synced(new)
    BY <2>3, Zenon
  <2> QED BY <2>1, <2>2, <2>4, Zenon
<1> QED BY <1>1, <1>2, <1>3, DisturbFacts DEF Own

\* A create starts out alone, or with what it found as an excuse.
LEMMA CreateOwn == ASSUME IInv, NEW c \in Clients, Create(c) PROVE OwnInv'
<1>0. /\ TypeOK /\ OwnInv /\ service' = service
      /\ job[c].command \in Commands /\ job[c].command.op = "deploy"
  BY DEF IInv, TypeInv, JobInv, Create
<1>1. PICK id \in Ids \ issued :
        /\ Effect(c, app = NoApp, Created(id, job[c].command))
        /\ \/ job' = [job EXCEPT ![c].step = "poll", ![c].id = id,
                                 ![c].written = TRUE]
              /\ app' = Created(id, job[c].command) /\ Disturb(c)
              /\ cr' \in {cr, Synced(app')}
           \/ job' = [job EXCEPT ![c].step = "list"]
  BY <1>0, CreateEffect
<1>2. /\ Created(id, job[c].command) \in App
      /\ Created(id, job[c].command).image = job[c].command.image
  BY <1>0, CreatedFacts
<1>3. /\ \A d \in Clients \ {c} : job'[d] = job[d]
      /\ job'[c].command = job[c].command /\ job'[c].step \in {"poll", "list"}
  BY <1>0, <1>1, CreateJob DEF Moves
<1>4. ASSUME NEW d \in Clients \ {c} PROVE Own(d)'
  BY <1>0, <1>1, <1>3, EffectKeeps
<1>5. Own(c)'
  <2>1. CASE job'[c].step = "list"
    BY <2>1 DEF Own
  <2>2. CASE /\ app' = Created(id, job[c].command) /\ Disturb(c)
             /\ cr' \in {cr, Synced(app')}
    BY <1>0, <1>2, <1>3, <2>2, WriterKeeps
  <2> QED BY <1>0, <1>1, <2>1, <2>2, CreateJob DEF Moves
<1>6. cr' # NoCR /\ cr'.phase = "Failed" => faults' > 0
  BY <1>0, <1>1, <1>2, FailedKeeps
<1> QED BY <1>4, <1>5, <1>6 DEF OwnInv

\* An update finds the earlier version, or excuses those who poll.
LEMMA ActOwn == ASSUME IInv, NEW c \in Clients, Act(c) PROVE OwnInv'
<1>0. /\ TypeOK /\ OwnInv /\ service' = service
      /\ job[c].command \in Commands
  BY DEF IInv, TypeInv, JobInv, Act
<1> DEFINE new == Applied(job[c].command, app)
<1>1. Found(c) => /\ app \in App /\ new \in App \cup {NoApp}
                  /\ job[c].command.op = "deploy" =>
                       new \in App /\ new.image = job[c].command.image
  BY <1>0, AppliedFacts DEF Found, TypeOK
<1>2. Effect(c, Found(c), new)
  BY <1>0, ActEffect
<1>3. \/ /\ Found(c) /\ app' = new /\ Disturb(c) /\ cr' \in {cr, Synced(app')}
         /\ \A d \in Clients \ {c} : job'[d] = job[d]
         /\ job'[c].command = job[c].command
         /\ job'[c].step = IF job[c].command.op = "deploy" THEN "poll" ELSE "idle"
      \/ /\ \A d \in Clients \ {c} : job'[d] = job[d]
         /\ job'[c].step = "idle"
  <2>1. CASE Ends(c, "error")
    BY <1>0, <2>1, EndsFacts
  <2>2. CASE job' = [job EXCEPT ![c].written = TRUE,
               ![c].step = IF job[c].command.op = "deploy" THEN "poll" ELSE "idle",
               ![c].result = IF job[c].command.op = "deploy" THEN @ ELSE "ok"]
    <3> DEFINE s == IF job[c].command.op = "deploy" THEN "poll" ELSE "idle"
               r == IF job[c].command.op = "deploy" THEN job[c].result ELSE "ok"
    <3>1. job' = [job EXCEPT ![c].written = TRUE, ![c].step = s, ![c].result = r]
      BY <2>2
    <3>2. s \in {"poll", "idle"} /\ r \in {job[c].result, "ok"}
      OBVIOUS
    <3> HIDE DEF s, r
    <3>3. Moves(c, s)
      BY <1>0, <3>1, <3>2, ActJob
    <3>4. s = "idle" \/ ~Ends(c, "error")
      BY <1>0, <3>2, <3>3, EndsFacts DEF Moves
    <3> QED BY <1>0, <3>3, <3>4, ActEffect DEF Moves, s
  <2> QED BY <1>0, <2>1, <2>2, ActEffect
<1> HIDE DEF new
<1>4. ASSUME NEW d \in Clients \ {c} PROVE Own(d)'
  BY <1>0, <1>2, <1>3, EffectKeeps
<1>5. Own(c)'
  <2>1. CASE job'[c].step = "idle"
    BY <2>1 DEF Own
  <2>2. CASE /\ Found(c) /\ app' = new /\ Disturb(c) /\ cr' \in {cr, Synced(app')}
             /\ job'[c].command = job[c].command /\ job[c].command.op = "deploy"
    BY <1>0, <1>1, <2>2, WriterKeeps
  <2> QED BY <1>3, <2>1, <2>2
<1>6. cr' # NoCR /\ cr'.phase = "Failed" => faults' > 0
  BY <1>0, <1>1, <1>2, FailedKeeps
<1> QED BY <1>4, <1>5, <1>6 DEF OwnInv

\* The other steps of a command write nothing.
LEMMA QuietOwn ==
  ASSUME IInv, NEW c \in Clients,
         Start(c) \/ GetAppByName(c) \/ Poll(c) \/ TimeOut(c)
  PROVE  OwnInv'
<1>0. /\ TypeOK /\ OwnInv /\ UNCHANGED <<cr, service>>
      /\ faults \in Nat /\ faults' \in {faults, faults + 1}
  <2>1. TypeOK /\ OwnInv /\ faults \in Nat
    BY BoundsAssumption DEF IInv, TypeInv, TypeOK
  <2>2. UNCHANGED <<cr, service>> /\ (faults' = faults \/ faults' = faults + 1)
    BY DEF Start, GetAppByName, Poll, TimeOut, Fault, NoFault
  <2> QED BY <2>1, <2>2
<1>1. \A d \in Clients \ {c} : job'[d] = job[d] /\ excuses'[d] = excuses[d]
  BY <1>0 DEF Start, GetAppByName, Poll, TimeOut, Ends, TypeOK
<1>2. job'[c].step # "poll"
  <2>1. CASE Start(c)
    <3>1. PICK m \in Commands :
            job' = [job EXCEPT ![c] = [Idle EXCEPT !.command = m,
                      !.step = IF m.op = "deploy" THEN "create" ELSE "list"]]
      BY <2>1 DEF Start
    <3>2. [Idle EXCEPT !.command = m, !.step = IF m.op = "deploy"
             THEN "create" ELSE "list"].step \in {"create", "list"}
      BY DEF Idle
    <3> QED BY <1>0, <3>1, <3>2 DEF TypeOK
  <2>2. CASE GetAppByName(c) \/ Poll(c) \/ TimeOut(c)
    BY <1>0, <2>2 DEF GetAppByName, Poll, TimeOut, Ends, TypeOK, Job
  <2> QED BY <2>1, <2>2
<1>3. ASSUME NEW d \in Clients PROVE Own(d)'
  BY <1>0, <1>1, <1>2, OthersKeep DEF OwnInv, Own
<1> QED BY <1>0, <1>3 DEF OwnInv

\* The operator and Knative keep the CR's image, and bring the Service to it.
LEMMA ClusterOwn ==
  ASSUME IInv,
         ReconcilePaused \/ Reconcile \/ ReconcileFails \/ Finalize \/ Knative
  PROVE  OwnInv'
<1>0. /\ UNCHANGED <<job, excuses>> /\ OwnInv
      /\ cr = NoCR \/ cr \in CR
      /\ service = NoService \/ service \in Service
      /\ faults \in Nat /\ faults' \in {faults, faults + 1}
  BY BoundsAssumption
  DEF IInv, TypeInv, TypeOK, ReconcilePaused, Reconcile, ReconcileFails, Finalize,
      Knative, cluster, Fault, NoFault
<1>1. cr' # NoCR /\ cr'.phase = "Failed" => faults' > 0
  <2>1. CASE cr' = cr /\ UNCHANGED faults
    BY <1>0, <2>1 DEF OwnInv
  <2>2. CASE ReconcilePaused \/ Reconcile
    <3>1. cr'.phase # "Failed"
      BY <1>0, <2>2 DEF ReconcilePaused, Reconcile, CR
    <3> QED BY <3>1
  <2>3. CASE ReconcileFails
    BY <1>0, <2>3 DEF ReconcileFails, Fault
  <2>4. CASE Finalize
    BY <2>4 DEF Finalize
  <2> QED BY <2>1, <2>2, <2>3, <2>4 DEF Knative
<1>2. ASSUME NEW d \in Clients, job[d].step = "poll", excuses[d] = {}
      PROVE  Own(d)'
  <2>0. Own(d) /\ job'[d] = job[d]
    BY <1>0 DEF OwnInv
  <2>1. CASE ReconcilePaused
    BY <1>0, <1>2, <2>0, <2>1 DEF ReconcilePaused, CR, Own
  <2>2. CASE Reconcile
    <3>1. cr' = [cr EXCEPT !.phase = IF service'.ready THEN "Ready"
                                                       ELSE "Deploying"]
          /\ cr \in CR
      BY <1>0, <2>2 DEF Reconcile
    <3>2. cr'.image = cr.image /\ (cr'.phase = "Ready" => service'.ready)
      BY <3>1 DEF CR
    <3>3. cr.image = job[d].command.image
      BY <1>2, <2>0, <2>2 DEF Reconcile, Own
    <3>4. CASE service = NoService
      <4>1. service' = [image |-> cr.image, ready |-> FALSE, served |-> {}]
        BY <2>2, <3>4 DEF Reconcile
      <4> QED BY <2>0, <3>2, <3>3, <4>1 DEF Own
    <3>5. CASE service # NoService
      <4>1. service' = [service EXCEPT !.image = cr.image] /\ service \in Service
        BY <1>0, <2>2, <3>5 DEF Reconcile
      <4>2. /\ service'.image = cr.image /\ service'.ready = service.ready
            /\ service'.served = service.served
        BY <4>1 DEF Service
      <4>3. service.image = job[d].command.image
        BY <1>2, <2>0, <3>5 DEF Own
      <4>4. service' = service
        BY <3>3, <4>1, <4>3 DEF Service
      <4> QED BY <1>2, <2>0, <3>2, <3>3, <3>5, <4>4 DEF Own
    <3> QED BY <3>4, <3>5
  <2>3. CASE ReconcileFails
    BY <1>0, <1>2, <2>0, <2>3 DEF ReconcileFails, CR, Own
  <2>4. CASE Finalize
    BY <1>0, <1>2, <2>0, <2>4 DEF Finalize, Own
  <2>5. CASE Knative
    <3>1. service \in Service /\ service # NoService /\ cr' = cr
      BY <1>0, <2>5 DEF Knative
    <3>2. /\ service'.image = service.image
          /\ service'.ready => service'.served = service.served \cup {service.image}
          /\ service.served \subseteq service'.served
      BY <2>5, <3>1 DEF Knative, Service
    <3> QED BY <1>0, <1>2, <2>0, <3>1, <3>2 DEF Own
  <2> QED BY <2>1, <2>2, <2>3, <2>4, <2>5
<1>3. ASSUME NEW d \in Clients PROVE Own(d)'
  BY <1>0, <1>2 DEF Own
<1> QED BY <1>1, <1>3 DEF OwnInv

-----------------------------------------------------------------------------
(* The theorems *)

\* The inductive invariant holds at first.
LEMMA IInvInit == Init => IInv
<1> SUFFICES ASSUME Init PROVE IInv
  OBVIOUS
<1>1. OwnInv
  BY DEF Init, OwnInv, Own, Idle
<1> QED BY <1>1, TypeInit DEF IInv

\* Every step keeps the inductive invariant.
LEMMA IInvStep == IInv /\ [Next]_vars => IInv'
<1> SUFFICES ASSUME IInv, [Next]_vars PROVE IInv'
  OBVIOUS
<1>1. TypeInv'
  BY TypeStep DEF IInv
<1>2. CASE UNCHANGED vars
  <2>1. OwnInv'
    BY <1>2 DEF vars, IInv, OwnInv, Own
  <2> QED BY <1>1, <2>1 DEF IInv
<1>3. CASE Next
  BY <1>1, <1>3, CreateOwn, ActOwn, QuietOwn, ClusterOwn DEF Next, IInv
<1> QED BY <1>2, <1>3

\* A deploy that waits, and is not excused, finds its own image in the CR and in
\* the Service, and a phase that was read off that Service.
THEOREM Invariance == Spec => []IInv
<1> QED BY IInvInit, IInvStep, PTL DEF Spec

\* What a verdict says of a deploy that nobody disturbed is said of its image.
LEMMA VerdictStep ==
  ASSUME IInv, Next, NEW c \in Clients,
         job'[c].result # job[c].result, excuses[c] = {}
  PROVE  /\ job'[c].result = "ready" => job[c].command.image \in service.served
         /\ job'[c].result = "failed" => faults > 0
<1>0. TypeOK /\ OwnInv /\ Own(c)
  BY DEF IInv, TypeInv, OwnInv
<1>1. CASE Poll(c)
  <2>1. /\ job'[c].result = "ready" => cr # NoCR /\ cr.phase = "Ready"
        /\ job'[c].result = "failed" => cr # NoCR /\ cr.phase = "Failed"
    BY <1>0, <1>1, EndsFacts DEF Poll, Phase
  <2> QED BY <1>0, <1>1, <2>1 DEF Poll, Own, OwnInv
<1>2. ASSUME NEW d \in Clients, Start(d) \/ Create(d) \/ GetAppByName(d) \/ Act(d)
                                  \/ Poll(d) \/ TimeOut(d), d # c
      PROVE  FALSE
  BY <1>0, <1>2
  DEF Start, Create, GetAppByName, Act, Poll, TimeOut, Ends, Request, TypeOK
<1>3. CASE Start(c)
  <2>1. PICK m \in Commands :
          job' = [job EXCEPT ![c] = [Idle EXCEPT !.command = m,
                    !.step = IF m.op = "deploy" THEN "create" ELSE "list"]]
    BY <1>3 DEF Start
  <2>2. [Idle EXCEPT !.command = m, !.step = IF m.op = "deploy"
           THEN "create" ELSE "list"].result = "none"
    BY DEF Idle
  <2> QED BY <1>0, <2>1, <2>2 DEF TypeOK
<1>4. CASE Create(c)
  BY <1>0, <1>4, CreateEffect, CreateJob DEF Moves
<1>5. CASE GetAppByName(c)
  BY <1>0, <1>5, EndsFacts DEF GetAppByName, TypeOK, Job
<1>6. CASE Act(c)
  <2>1. CASE Ends(c, "error")
    BY <1>0, <2>1, EndsFacts
  <2>2. CASE job' = [job EXCEPT ![c].written = TRUE,
               ![c].step = IF job[c].command.op = "deploy" THEN "poll" ELSE "idle",
               ![c].result = IF job[c].command.op = "deploy" THEN @ ELSE "ok"]
    BY <1>0, <2>2 DEF TypeOK, Job
  <2> QED BY <1>0, <1>6, <2>1, <2>2, ActEffect
<1>7. CASE TimeOut(c)
  BY <1>0, <1>7, EndsFacts DEF TimeOut
<1>8. CASE ReconcilePaused \/ Reconcile \/ ReconcileFails \/ Finalize \/ Knative
  BY <1>8 DEF ReconcilePaused, Reconcile, ReconcileFails, Finalize, Knative, cluster
<1> QED BY <1>1, <1>2, <1>3, <1>4, <1>5, <1>6, <1>7, <1>8 DEF Next

\* A deploy that nobody disturbed says "App is ready!" only when Knative has been
\* ready with its image, and "deployment failed" only after a failure.
THEOREM VerdictIsOwnSafe == Spec => VerdictIsOwn
<1>1. IInv /\ [Next]_vars =>
        [\A c \in Clients :
           job'[c].result # job[c].result /\ excuses[c] = {} =>
             /\ job'[c].result = "ready" => job[c].command.image \in service.served
             /\ job'[c].result = "failed" => faults > 0]_vars
  BY VerdictStep
<1> QED BY <1>1, Invariance, PTL DEF Spec, VerdictIsOwn

\* A command changes the app that it found by name, or none.
LEMMA ChangeStep ==
  ASSUME TypeInv, Next, NEW c \in Clients, job'[c] # job[c], app' # app, app # NoApp
  PROVE  app.id = job[c].id
<1>0. TypeOK
  BY DEF TypeInv
<1>1. ASSUME NEW d \in Clients, Act(d) PROVE d = c /\ Found(d)
  <2>1. d = c
    BY <1>0, <1>1 DEF Act, Request, Ends, TypeOK
  <2> QED BY <1>0, <1>1, <2>1, ActEffect DEF Effect
<1>2. ASSUME NEW d \in Clients, Create(d) PROVE FALSE
  BY <1>0, <1>2, CreateEffect DEF Effect
<1>3. PICK d \in Clients : Act(d)
  BY <1>2 DEF Next, Start, GetAppByName, Poll, TimeOut, ReconcilePaused, Reconcile,
     ReconcileFails, Finalize, Knative, cluster
<1> QED BY <1>1, <1>3 DEF Found

\* A command changes the app that it found by name, not one made under that name
\* since.
THEOREM ChangesWhatItFoundSafe == Spec => ChangesWhatItFound
<1>1. TypeInv /\ [Next]_vars =>
        [\A c \in Clients :
           job'[c] # job[c] /\ app' # app /\ app # NoApp => app.id = job[c].id]_vars
  BY ChangeStep
<1> QED BY <1>1, TypeInit, TypeStep, PTL DEF Spec, ChangesWhatItFound
=============================================================================
