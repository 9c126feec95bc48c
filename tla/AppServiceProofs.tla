--------------------------- MODULE AppServiceProofs ---------------------------
(***************************************************************************)
(* Proofs about AppService, for any number of clients, requests, calls     *)
(* that fail and restarts.                                                 *)
(***************************************************************************)
EXTENDS AppService, TLAPS

-----------------------------------------------------------------------------
(* Types *)

\* A field that a request may leave out.
LEMMA OrType ==
  ASSUME NEW S, NEW new \in S \cup {Unchanged}, NEW old \in S
  PROVE  Or(new, old) \in S
BY DEF Or

\* Merging a patch gives a map of environment variables again.
LEMMA PatchedType ==
  ASSUME NEW env \in Vars, NEW patch \in Vars
  PROVE  Patched(env, patch) \in Vars
<1> DEFINE D == (DOMAIN env \cup DOMAIN patch) \ Removed(patch)
<1>1. PICK D1 \in SUBSET Keys : env \in [D1 -> Values \cup {Empty}]
  BY DEF Vars
<1>2. PICK D2 \in SUBSET Keys : patch \in [D2 -> Values \cup {Empty}]
  BY DEF Vars
<1>3. D \in SUBSET Keys
  BY <1>1, <1>2
<1>4. Patched(env, patch) \in [D -> Values \cup {Empty}]
  BY <1>1, <1>2 DEF Patched
<1> QED BY <1>3, <1>4 DEF Vars

\* Whatever the request, the handler's copy remains an app, and the same one.
LEMMA AppliedType ==
  ASSUME NEW r \in Request, NEW a \in App
  PROVE  Applied(r, a) \in App /\ Applied(r, a).id = a.id
<1>0. /\ a.env \in EnvVars /\ a.env.vars \in Vars
      /\ a.env.domains \in {NoDomains} \cup SUBSET Hosts
      /\ Domains(a.env) \in SUBSET Hosts
  BY DEF App, EnvVars, Domains
<1>1. CASE r.op = "update"
  <2>1. r.image \in Images \cup {Unchanged} /\ r.paused \in BOOLEAN \cup {Unchanged}
    BY <1>1 DEF Request
  <2>2. Or(r.image, a.image) \in Images /\ Or(r.paused, a.paused) \in BOOLEAN
    BY <2>1, OrType DEF App
  <2> QED BY <1>1, <2>2 DEF Applied, Updated, App
<1>2. CASE r.op = "updateEnv"
  <2>1. r.env \in EnvVars
    BY <1>2 DEF Request
  <2> QED BY <1>2, <2>1 DEF Applied, EnvReplaced, App
<1>3. CASE r.op = "patchEnv"
  <2> DEFINE p == Patched(a.env.vars, r.patch)
             h == IF r.domains = {} THEN NoDomains ELSE Or(r.domains, a.env.domains)
  <2>1. r.patch \in Vars /\ r.domains \in {Unchanged} \cup SUBSET Hosts
    BY <1>3 DEF Request
  <2>2. p \in Vars
    BY <1>0, <2>1, PatchedType
  <2>3. h \in {NoDomains} \cup SUBSET Hosts
    BY <1>0, <2>1 DEF Or
  <2>4. Applied(r, a) = [a EXCEPT !.env.vars = p, !.env.domains = h]
    BY <1>0, <1>3 DEF Applied, EnvPatched, App, EnvVars
  <2> HIDE DEF p, h
  <2> QED BY <1>0, <2>2, <2>3, <2>4 DEF App, EnvVars
<1>4. CASE r.op = "addDomain"
  <2>1. Domains(a.env) \cup {r.host} \in SUBSET Hosts
    BY <1>0, <1>4 DEF Request
  <2> QED BY <1>0, <1>4, <2>1 DEF Applied, DomainAdded, App, EnvVars
<1>5. CASE r.op = "removeDomain"
  <2>1. Domains(a.env) \ {r.host} \in SUBSET Hosts
    BY <1>0
  <2> QED BY <1>0, <1>5, <2>1 DEF Applied, DomainRemoved, App, EnvVars
<1>6. CASE r.op \notin {"update", "updateEnv", "patchEnv", "addDomain", "removeDomain"}
  BY <1>6 DEF Applied
<1> QED BY <1>1, <1>2, <1>3, <1>4, <1>5, <1>6

-----------------------------------------------------------------------------
(* The inductive invariant *)

\* The copy that a request works on is there when it is needed.
JobOK ==
  \A c \in Clients :
    LET j == job[c]
    IN /\ j.step # "idle" => j.req \in Request /\ j.id \in Ids
       /\ j.step \in {"insert", "updateRow", "getCR", "createCR", "updateCR"}
            => j.mem \in App /\ j.mem.id = j.id

\* Nobody has the latest version of what is not there.
CurrentInv == cr = NoCR => current = {}

\* Only what was committed is copied to the CR.
CommitInv ==
  /\ row \in stored \cup {NoRow}
  /\ \A c \in Clients :
       job[c].step \in {"getCR", "createCR", "updateCR"} => job[c].mem \in stored
  /\ CRWasCommitted

\* The id of an app that is about to be inserted is in use nowhere else.
IdInv ==
  /\ \A a \in stored : a.id \in issued
  /\ \A c \in Clients : job[c].step # "idle" => job[c].id \in issued
  /\ \A c \in Clients : job[c].step = "insert" =>
       /\ \A a \in stored : a.id # job[c].id
       /\ \A d \in Clients : job[d].step = "insert" /\ job[d].id = job[c].id
                              => d = c

\* The calls before which the CR may be behind the row.
Behind(c) == job[c].step \in {"getCR", "createCR", "updateCR", "deleteCR"}

\* What a request that nothing has disturbed can count on at each of its calls.
AloneInv ==
  \A c \in alone :
    /\ \A d \in Clients : job[d].step # "idle" => d = c
    /\ job[c].step \in {"getCR", "createCR", "updateCR"} => row = job[c].mem
    /\ job[c].step = "createCR" => cr = NoCR
    /\ job[c].step = "updateCR" => cr # NoCR /\ ~cr.deleting
    /\ job[c].step = "deleteCR" => row = NoRow

\* Without an excuse no request is disturbed, and the CR is behind only between
\* the write of the row and the last call of the request.
SyncInv ==
  excuses = {} =>
    /\ \A c \in Clients : job[c].step # "idle" => c \in alone
    /\ InSync \/ \E c \in Clients : Behind(c)

IInv == TypeOK /\ JobOK /\ CurrentInv /\ CommitInv /\ IdInv /\ AloneInv /\ SyncInv

-----------------------------------------------------------------------------
(* The steps of a request *)

HasMem == {"insert", "updateRow", "getCR", "createCR", "updateCR"}

\* How a call leaves the requests: the one that made it goes on with its copy,
\* or ends.
JobStep(c, from) ==
  /\ job[c].step = from
  /\ Done(c) \/ \E s \in Steps \ {"idle"} :
                  /\ GoTo(c, s)
                  /\ s \in HasMem => from \in HasMem

\* Moving a request on, or ending it, keeps the requests well-typed.
LEMMA JobStepOK ==
  ASSUME TypeOK, JobOK, NEW c \in Clients, NEW from \in Steps \ {"idle"},
         JobStep(c, from)
  PROVE  job' \in [Clients -> Job] /\ JobOK'
<1>1. job \in [Clients -> Job]
  BY DEF TypeOK
<1>2. CASE Done(c)
  <2>1. Idle \in Job /\ Idle.step = "idle"
    BY DEF Idle, Job, Steps
  <2>2. job' \in [Clients -> Job]
    BY <1>1, <1>2, <2>1 DEF Done
  <2>3. \A d \in Clients : job'[d] = IF d = c THEN Idle ELSE job[d]
    BY <1>1, <1>2 DEF Done
  <2> QED BY <2>1, <2>2, <2>3 DEF JobOK
<1>3. CASE ~Done(c)
  <2>1. PICK s \in Steps \ {"idle"} : GoTo(c, s) /\ (s \in HasMem => from \in HasMem)
    BY <1>3 DEF JobStep
  <2>2. \A d \in Clients :
          job'[d] = IF d = c THEN [job[c] EXCEPT !.step = s] ELSE job[d]
    BY <1>1, <2>1 DEF GoTo
  <2>3. job' \in [Clients -> Job]
    BY <1>1, <2>1 DEF GoTo, Job
  <2>4. job[c].step = from /\ job[c] \in Job
    BY <1>1 DEF JobStep
  <2>5. [job[c] EXCEPT !.step = s].step = s
        /\ [job[c] EXCEPT !.step = s].mem = job[c].mem
        /\ [job[c] EXCEPT !.step = s].req = job[c].req
        /\ [job[c] EXCEPT !.step = s].id = job[c].id
    BY <2>4 DEF Job
  <2>6. ASSUME NEW d \in Clients
        PROVE  LET j == job'[d]
               IN /\ j.step # "idle" => j.req \in Request /\ j.id \in Ids
                  /\ j.step \in HasMem => j.mem \in App /\ j.mem.id = j.id
    BY <2>1, <2>2, <2>4, <2>5 DEF JobOK, HasMem
  <2> QED BY <2>3, <2>6 DEF JobOK, HasMem
<1> QED BY <1>2, <1>3

\* What the calls of a request are, to every proof below.
LEMMA Calls ==
  ASSUME NEW c \in Clients
  PROVE  /\ InsertRow(c) => JobStep(c, "insert")
         /\ UpdateRow(c) => JobStep(c, "updateRow")
         /\ DeleteRow(c) => JobStep(c, "deleteRow")
         /\ GetCR(c) => JobStep(c, "getCR")
         /\ CreateCR(c) => JobStep(c, "createCR")
         /\ UpdateCR(c) => JobStep(c, "updateCR")
         /\ DeleteCR(c) => JobStep(c, "deleteCR")
<1> USE DEF JobStep, HasMem, Steps
<1>1. InsertRow(c) => JobStep(c, "insert")
  BY DEF InsertRow, WriteRow
<1>2. UpdateRow(c) => JobStep(c, "updateRow")
  BY DEF UpdateRow, WriteRow
<1>3. DeleteRow(c) => JobStep(c, "deleteRow")
  BY DEF DeleteRow, WriteRow
<1>4. GetCR(c) => JobStep(c, "getCR")
  BY DEF GetCR
<1>5. CreateCR(c) => JobStep(c, "createCR")
  BY DEF CreateCR, LastCall
<1>6. UpdateCR(c) => JobStep(c, "updateCR")
  BY DEF UpdateCR, LastCall
<1>7. DeleteCR(c) => JobStep(c, "deleteCR")
  BY DEF DeleteCR, LastCall
<1> QED BY <1>1, <1>2, <1>3, <1>4, <1>5, <1>6, <1>7

\* A job that a new request or a read replaces as a whole.
LEMMA JobSet ==
  ASSUME TypeOK, JobOK, NEW c \in Clients, NEW j \in Job,
         job' = [job EXCEPT ![c] = j],
         j.step # "idle" => j.req \in Request /\ j.id \in Ids,
         j.step \in HasMem => j.mem \in App /\ j.mem.id = j.id
  PROVE  job' \in [Clients -> Job] /\ JobOK'
<1>1. job \in [Clients -> Job]
  BY DEF TypeOK
<1>2. \A d \in Clients : job'[d] = IF d = c THEN j ELSE job[d]
  BY <1>1
<1>3. job' \in [Clients -> Job]
  BY <1>1
<1> QED BY <1>2, <1>3 DEF JobOK, HasMem

\* A new request gets an id of its own or names an id that was given out.
LEMMA StartJob ==
  ASSUME TypeOK, JobOK, NEW c \in Clients, Start(c)
  PROVE  job' \in [Clients -> Job] /\ JobOK' /\ issued' \subseteq Ids
<1>1. PICK r \in Requests :
        \/ /\ r.op = "create"
           /\ \E id \in Ids \ issued :
                /\ issued' = issued \cup {id}
                /\ job' = [job EXCEPT ![c] =
                     [step |-> "insert", req |-> r, id |-> id, mem |-> NewApp(r, id)]]
        \/ /\ r.op # "create"
           /\ \E id \in issued :
                job' = [job EXCEPT ![c] =
                  [step |-> "read", req |-> r, id |-> id, mem |-> NoRow]]
           /\ UNCHANGED issued
  BY DEF Start
<1>2. r \in Request /\ issued \subseteq Ids
  BY RequestsAssumption DEF TypeOK
<1>3. CASE r.op = "create"
  <2>1. PICK id \in Ids \ issued :
          /\ issued' = issued \cup {id}
          /\ job' = [job EXCEPT ![c] =
               [step |-> "insert", req |-> r, id |-> id, mem |-> NewApp(r, id)]]
    BY <1>1, <1>3
  <2>2. r.image \in Images /\ r.env \in EnvVars
    BY <1>2, <1>3 DEF Request
  <2> DEFINE a == NewApp(r, id)
             j == [step |-> "insert", req |-> r, id |-> id, mem |-> a]
  <2>3. a \in App /\ a.id = id
    BY <2>2 DEF App, NewApp
  <2>4. j \in Job /\ j.req = r /\ j.id = id /\ j.mem = a
    BY <1>2, <2>3 DEF Job, Steps
  <2>5. job' = [job EXCEPT ![c] = j]
    BY <2>1
  <2> HIDE DEF a, j
  <2>6. job' \in [Clients -> Job] /\ JobOK'
    BY <1>2, <2>3, <2>4, <2>5, JobSet
  <2> QED BY <1>2, <2>1, <2>6
<1>4. CASE r.op # "create"
  <2>1. PICK id \in issued :
          job' = [job EXCEPT ![c] =
            [step |-> "read", req |-> r, id |-> id, mem |-> NoRow]]
    BY <1>1, <1>4
  <2> DEFINE j == [step |-> "read", req |-> r, id |-> id, mem |-> NoRow]
  <2>2. j \in Job /\ j.step = "read" /\ j.req = r /\ j.id = id
    BY <1>2 DEF Job, Steps
  <2>3. job' = [job EXCEPT ![c] = j]
    BY <2>1
  <2> HIDE DEF j
  <2>4. job' \in [Clients -> Job] /\ JobOK'
    BY <1>2, <2>2, <2>3, JobSet DEF HasMem
  <2> QED BY <1>1, <1>2, <1>4, <2>4
<1> QED BY <1>3, <1>4

\* The copy that a read takes is the row with the request applied to it.
LEMMA ReadJob ==
  ASSUME TypeOK, JobOK, NEW c \in Clients, Read(c)
  PROVE  job' \in [Clients -> Job] /\ JobOK'
<1>1. CASE Done(c)
  BY <1>1, JobStepOK DEF Read, JobStep, Steps
<1>2. CASE ~Done(c)
  <2> DEFINE s == IF job[c].req.op = "delete" THEN "deleteRow" ELSE "updateRow"
             m == Applied(job[c].req, row)
             j == [job[c] EXCEPT !.mem = m, !.step = s]
  <2>1. /\ Accepted(c) /\ job[c].step = "read"
        /\ job' = [job EXCEPT ![c].mem = m, ![c].step = s]
    BY <1>2 DEF Read
  <2>2. job \in [Clients -> Job] /\ job[c] \in Job /\ job[c].req \in Request
        /\ job[c].id \in Ids /\ row \in App /\ row.id = job[c].id
    BY <2>1 DEF Accepted, Mine, TypeOK, JobOK
  <2>3. m \in App /\ m.id = job[c].id
    BY <2>2, AppliedType
  <2>4. s \in Steps
    BY DEF Steps
  <2> HIDE DEF m, s
  <2>5. j \in Job /\ j.req = job[c].req /\ j.id = job[c].id /\ j.mem = m
    BY <2>2, <2>3, <2>4 DEF Job
  <2>6. job' = [job EXCEPT ![c] = j]
    BY <2>1, <2>2
  <2> HIDE DEF j
  <2> QED BY <2>2, <2>3, <2>5, <2>6, JobSet
<1> QED BY <1>1, <1>2

\* An app's copy, exported, is a spec that a CR can have.
LEMMA ExportedType == \A a \in App : Exported(a) \in AppSpec /\ Shows(Exported(a), a)
BY DEF Exported, App, AppSpec, Shows

\* The writes of the row and of the CR keep their types.
LEMMA WriteTypes ==
  ASSUME TypeOK, JobOK, CurrentInv, NEW c \in Clients,
         \/ InsertRow(c) \/ UpdateRow(c) \/ DeleteRow(c)
         \/ GetCR(c) \/ CreateCR(c) \/ UpdateCR(c) \/ DeleteCR(c)
  PROVE  /\ row' \in App \cup {NoRow} /\ stored' \subseteq App
         /\ cr' \in CR \cup {NoCR} /\ current' \subseteq Clients
         /\ alone' \subseteq Clients
         /\ excuses' \subseteq Excuses /\ faults' \in 0 .. MaxFaults
         /\ UNCHANGED <<issued, sent>>
<1> USE DEF TypeOK, Excuses, Excuse, Fault, NoFault
<1>1. \A e \in Excuses : excuses \cup {e} \subseteq Excuses
  OBVIOUS
<1>2. faults < MaxFaults => faults + 1 \in 0 .. MaxFaults
  BY BoundsAssumption
<1>3. CASE InsertRow(c)
  <2>1. job[c].mem \in App
    BY <1>3 DEF InsertRow, WriteRow, JobOK
  <2> QED BY <1>2, <1>3, <2>1 DEF InsertRow, WriteRow
<1>4. CASE UpdateRow(c)
  <2>1. job[c].mem \in App
    BY <1>4 DEF UpdateRow, WriteRow, JobOK
  <2> QED BY <1>2, <1>4, <2>1 DEF UpdateRow, WriteRow
<1>5. CASE DeleteRow(c)
  BY <1>2, <1>5 DEF DeleteRow, WriteRow
<1>6. CASE GetCR(c)
  BY <1>2, <1>6 DEF GetCR
<1>7. CASE CreateCR(c)
  <2>1. job[c].mem \in App
    BY <1>7 DEF CreateCR, LastCall, JobOK
  <2>2. [spec |-> Exported(job[c].mem), finalizer |-> FALSE, deleting |-> FALSE] \in CR
    BY <2>1, ExportedType DEF CR
  <2> QED BY <1>2, <1>7, <2>2 DEF CreateCR, LastCall
<1>8. CASE UpdateCR(c)
  <2>1. job[c].mem \in App
    BY <1>8 DEF UpdateCR, LastCall, JobOK
  <2>2. cr # NoCR => [cr EXCEPT !.spec = Exported(job[c].mem)] \in CR
    BY <2>1, ExportedType DEF CR
  <2>3. c \in current => cr # NoCR
    BY DEF CurrentInv
  <2> QED BY <1>2, <1>8, <2>2, <2>3 DEF UpdateCR, LastCall
<1>9. CASE DeleteCR(c)
  <2>1. (IF cr # NoCR /\ cr.finalizer THEN [cr EXCEPT !.deleting = TRUE] ELSE NoCR)
          \in CR \cup {NoCR}
    BY DEF CR
  <2> QED BY <1>2, <1>9, <2>1 DEF DeleteCR, LastCall
<1> QED BY <1>3, <1>4, <1>5, <1>6, <1>7, <1>8, <1>9

\* The calls of a request, after Start and Read.
Call(c) ==
  \/ InsertRow(c) \/ UpdateRow(c) \/ DeleteRow(c)
  \/ GetCR(c) \/ CreateCR(c) \/ UpdateCR(c) \/ DeleteCR(c)

\* Every step is one of these.
LEMMA NextCases ==
  ASSUME [Next]_vars
  PROVE  \/ \E c \in Clients : Start(c) \/ Read(c) \/ Call(c)
         \/ Restart \/ Reconcile \/ Finish \/ UNCHANGED vars
BY DEF Next, Call

\* A call moves its request on or ends it.
LEMMA CallStep ==
  ASSUME TypeOK, JobOK, NEW c \in Clients, Call(c)
  PROVE  /\ job' \in [Clients -> Job] /\ JobOK'
         /\ job[c].step # "idle"
         /\ \A d \in Clients \ {c} : job'[d] = job[d]
         /\ job'[c].step = "idle" \/ (job'[c].mem = job[c].mem /\ job'[c].id = job[c].id)
<1>1. PICK from \in Steps \ {"idle"} : JobStep(c, from)
  BY Calls DEF Call, Steps
<1>2. job' \in [Clients -> Job] /\ JobOK'
  BY <1>1, JobStepOK
<1>3. job \in [Clients -> Job]
  BY DEF TypeOK
<1>4. job[c].step # "idle"
  BY <1>1 DEF JobStep
<1>5. \A d \in Clients \ {c} : job'[d] = job[d]
  BY <1>1, <1>3 DEF JobStep, Done, GoTo
<1>6. job'[c].step = "idle" \/ (job'[c].mem = job[c].mem /\ job'[c].id = job[c].id)
  BY <1>1, <1>3 DEF JobStep, Done, GoTo, Idle, Job
<1> QED BY <1>2, <1>4, <1>5, <1>6

\* Every step keeps the types.
LEMMA TypeStep ==
  ASSUME TypeOK, JobOK, CurrentInv, [Next]_vars
  PROVE  TypeOK' /\ JobOK' /\ CurrentInv'
<1>1. ASSUME NEW c \in Clients, Start(c)
      PROVE  TypeOK' /\ JobOK' /\ CurrentInv'
  <2>1. job' \in [Clients -> Job] /\ JobOK' /\ issued' \subseteq Ids
    BY <1>1, StartJob
  <2>2. sent' \in 0 .. MaxRequests /\ alone' \subseteq Clients /\ excuses' \subseteq Excuses
    <3>1. sent < MaxRequests /\ sent' = sent + 1 /\ sent \in 0 .. MaxRequests
      BY <1>1 DEF Start, TypeOK
    <3>2. excuses' \subseteq excuses \cup {"overlap"} /\ alone' \subseteq {c}
      BY <1>1 DEF Start, Excuse
    <3> QED BY <3>1, <3>2, BoundsAssumption DEF TypeOK, Excuses
  <2>3. UNCHANGED <<row, cr, current, stored, faults>>
    BY <1>1 DEF Start
  <2> QED BY <2>1, <2>2, <2>3 DEF TypeOK, CurrentInv
<1>2. ASSUME NEW c \in Clients, Read(c)
      PROVE  TypeOK' /\ JobOK' /\ CurrentInv'
  <2>1. job' \in [Clients -> Job] /\ JobOK'
    BY <1>2, ReadJob
  <2>2. UNCHANGED <<row, issued, cr, current, stored, alone, excuses, sent>>
    BY <1>2 DEF Read
  <2>3. faults' \in 0 .. MaxFaults
    BY <1>2, BoundsAssumption DEF Read, Fault, NoFault, TypeOK
  <2> QED BY <2>1, <2>2, <2>3 DEF TypeOK, CurrentInv
<1>3. ASSUME NEW c \in Clients, Call(c)
      PROVE  TypeOK' /\ JobOK' /\ CurrentInv'
  <2>1. job' \in [Clients -> Job] /\ JobOK'
    BY <1>3, CallStep
  <2>2. TypeOK'
    BY <1>3, <2>1, WriteTypes DEF Call, TypeOK
  <2>3. InsertRow(c) \/ UpdateRow(c) \/ DeleteRow(c) => UNCHANGED <<cr, current>>
    BY DEF InsertRow, UpdateRow, DeleteRow, WriteRow
  <2>4. GetCR(c) => cr' = cr /\ (cr = NoCR => current' = current)
    BY DEF GetCR
  <2>5. CreateCR(c) => current' = IF cr' = cr THEN current ELSE {}
    BY DEF CreateCR
  <2>6. UpdateCR(c) => current' \subseteq current /\ (cr' # cr => current' = {})
    BY DEF UpdateCR
  <2>7. DeleteCR(c) => current' = IF cr' = cr THEN current ELSE {}
    BY DEF DeleteCR
  <2>8. CurrentInv'
    BY <1>3, <2>3, <2>4, <2>5, <2>6, <2>7 DEF Call, CurrentInv
  <2> QED BY <2>1, <2>2, <2>8
<1>4. CASE Restart
  <2>1. Idle \in Job /\ Idle.step = "idle"
    BY DEF Idle, Job, Steps
  <2>2. job' = [c \in Clients |-> Idle]
    BY <1>4 DEF Restart
  <2>3. job' \in [Clients -> Job] /\ JobOK'
    BY <2>1, <2>2 DEF JobOK
  <2>4. faults' \in 0 .. MaxFaults /\ excuses' \subseteq Excuses
    BY <1>4, BoundsAssumption DEF Restart, Fault, Excuse, Excuses, TypeOK
  <2> QED BY <1>4, <2>3, <2>4 DEF Restart, TypeOK, CurrentInv
<1>5. CASE Reconcile
  <2>1. cr \in CR
    BY <1>5 DEF Reconcile, OperatorWrites, TypeOK
  <2>2. [cr EXCEPT !.finalizer = @ \/ ~cr.deleting] \in CR
    BY <2>1 DEF CR
  <2> QED BY <1>5, <2>2 DEF Reconcile, OperatorWrites, TypeOK, JobOK, CurrentInv
<1>6. CASE Finish
  BY <1>6 DEF Finish, OperatorWrites, TypeOK, JobOK, CurrentInv
<1>7. CASE UNCHANGED vars
  BY <1>7 DEF vars, TypeOK, JobOK, CurrentInv
<1> QED BY <1>1, <1>2, <1>3, <1>4, <1>5, <1>6, <1>7, NextCases

\* The types hold when nothing has been sent.
LEMMA TypeInit == Init => TypeOK /\ JobOK /\ CurrentInv
<1>1. Idle \in Job /\ Idle.step = "idle"
  BY DEF Idle, Job, Steps
<1> QED BY <1>1, BoundsAssumption DEF Init, TypeOK, JobOK, CurrentInv

\* Every variable keeps its type: a request always has the copy of the app that
\* its next call needs.
THEOREM TypeCorrect == Spec => []TypeOK
<1>1. TypeOK /\ JobOK /\ CurrentInv /\ [Next]_vars => (TypeOK /\ JobOK /\ CurrentInv)'
  BY TypeStep
<1> QED BY <1>1, TypeInit, PTL DEF Spec

-----------------------------------------------------------------------------
(* What the CR shows was committed *)

\* How a call changes the row and its history, the CR and the requests.
LEMMA CallEffect ==
  ASSUME TypeOK, JobOK, CurrentInv, NEW c \in Clients, Call(c)
  PROVE  /\ stored' = stored \cup ({row'} \ {NoRow})
            \/ (UNCHANGED <<row, stored>>)
         /\ row' # row =>
              /\ \/ /\ job[c].step \in {"insert", "updateRow"}
                    /\ job[c].mem \in App /\ row' = job[c].mem
                 \/ job[c].step = "deleteRow" /\ row' = NoRow
              /\ job[c].step = "updateRow" => Mine(c)
              /\ UNCHANGED cr
         /\ cr' # cr /\ cr' # NoCR =>
              \/ /\ job[c].step \in {"createCR", "updateCR"}
                 /\ cr'.spec = Exported(job[c].mem)
              \/ cr # NoCR /\ cr'.spec = cr.spec
         /\ job'[c].step \in {"getCR", "createCR", "updateCR"} =>
              job[c].step \in {"getCR"} \/ row' = job[c].mem
<1>1. job \in [Clients -> Job] /\ cr \in CR \cup {NoCR}
  BY DEF TypeOK
<1>2. CASE InsertRow(c)
  BY <1>1, <1>2 DEF InsertRow, WriteRow, JobOK, Done, GoTo, Idle, Job
<1>3. CASE UpdateRow(c)
  BY <1>1, <1>3 DEF UpdateRow, WriteRow, JobOK, Done, GoTo, Idle, Job
<1>4. CASE DeleteRow(c)
  BY <1>1, <1>4 DEF DeleteRow, WriteRow, Done, GoTo, Idle, Job
<1>5. CASE GetCR(c)
  BY <1>5 DEF GetCR
<1>6. CASE CreateCR(c)
  BY <1>1, <1>6 DEF CreateCR, LastCall, Done, Idle, Job
<1>7. CASE UpdateCR(c)
  <2>1. cr' # cr => c \in current /\ cr' = [cr EXCEPT !.spec = Exported(job[c].mem)]
    BY <1>7 DEF UpdateCR, LastCall
  <2>2. cr' # cr => cr \in CR
    BY <1>1, <2>1 DEF CurrentInv
  <2> QED BY <1>1, <1>7, <2>1, <2>2 DEF UpdateCR, LastCall, Done, Idle, Job, CR
<1>8. CASE DeleteCR(c)
  BY <1>1, <1>8 DEF DeleteCR, LastCall, Done, Idle, Job, CR
<1> QED BY <1>2, <1>3, <1>4, <1>5, <1>6, <1>7, <1>8 DEF Call

\* The steps that neither write the row nor a spec into the CR, nor reach a
\* step that copies to the CR.
LEMMA CommitIdle ==
  ASSUME CommitInv, UNCHANGED <<row, stored>>,
         cr' = cr \/ cr' = NoCR \/ (cr # NoCR /\ cr'.spec = cr.spec),
         \A c \in Clients :
           job'[c].step \in {"getCR", "createCR", "updateCR"} => job'[c] = job[c]
  PROVE  CommitInv'
BY DEF CommitInv, CRWasCommitted

\* No step puts a state into the CR, or on its way there, that the row never had.
LEMMA CommitStep ==
  ASSUME TypeOK, JobOK, CurrentInv, CommitInv, [Next]_vars
  PROVE  CommitInv'
<1>0. job \in [Clients -> Job]
  BY DEF TypeOK
<1>1. ASSUME NEW c \in Clients, Start(c) PROVE CommitInv'
  <2>1. \A d \in Clients : job'[d] = job[d] \/ job'[d].step \in {"insert", "read"}
    BY <1>0, <1>1 DEF Start
  <2>2. UNCHANGED <<row, stored, cr>>
    BY <1>1 DEF Start
  <2> QED BY <2>1, <2>2, CommitIdle
<1>2. ASSUME NEW c \in Clients, Read(c) PROVE CommitInv'
  <2>1. \A d \in Clients : job'[d] = job[d]
          \/ job'[d].step \in {"idle", "deleteRow", "updateRow"}
    BY <1>0, <1>2 DEF Read, Done, Idle, Job
  <2>2. UNCHANGED <<row, stored, cr>>
    BY <1>2 DEF Read
  <2> QED BY <2>1, <2>2, CommitIdle
<1>3. ASSUME NEW c \in Clients, Call(c) PROVE CommitInv'
  <2>1. row' \in stored' \cup {NoRow} /\ stored \subseteq stored'
    BY <1>3, CallEffect DEF CommitInv
  <2>2. ASSUME NEW d \in Clients,
               job'[d].step \in {"getCR", "createCR", "updateCR"}
        PROVE  job'[d].mem \in stored'
    <3>1. CASE d # c
      BY <1>3, <2>1, <2>2, <3>1, CallStep DEF CommitInv
    <3>2. CASE d = c
      <4>1. job'[c].mem = job[c].mem /\ job'[c].mem \in App
        BY <1>3, <2>2, <3>2, CallStep DEF JobOK
      <4>2. job[c].step = "getCR" \/ row' = job[c].mem
        BY <1>3, <2>2, <3>2, CallEffect
      <4> QED BY <2>1, <3>2, <4>1, <4>2, NoneAssumption DEF CommitInv
    <3> QED BY <3>1, <3>2
  <2>3. CRWasCommitted'
    <3>1. cr' # cr /\ cr' # NoCR =>
            \/ /\ job[c].step \in {"createCR", "updateCR"}
               /\ cr'.spec = Exported(job[c].mem)
            \/ cr # NoCR /\ cr'.spec = cr.spec
      BY <1>3, CallEffect
    <3>2. job[c].step \in {"createCR", "updateCR"} =>
            Shows(Exported(job[c].mem), job[c].mem)
      BY ExportedType DEF JobOK
    <3> QED BY <2>1, <3>1, <3>2 DEF CommitInv, CRWasCommitted
  <2> QED BY <2>1, <2>2, <2>3 DEF CommitInv
<1>4. CASE Restart
  BY <1>4, CommitIdle DEF Restart, Idle
<1>5. CASE Reconcile
  <2>1. cr \in CR /\ cr' = [cr EXCEPT !.finalizer = @ \/ ~cr.deleting]
    BY <1>5 DEF Reconcile, OperatorWrites, TypeOK
  <2>2. cr'.spec = cr.spec
    BY <2>1 DEF CR
  <2> QED BY <1>5, <2>2, CommitIdle DEF Reconcile, OperatorWrites
<1>6. CASE Finish
  BY <1>6, CommitIdle DEF Finish, OperatorWrites
<1>7. CASE UNCHANGED vars
  BY <1>7, CommitIdle DEF vars
<1> QED BY <1>1, <1>2, <1>3, <1>4, <1>5, <1>6, <1>7, NextCases

-----------------------------------------------------------------------------
(* Identifiers *)

\* No step uses an identifier that was not given out, or one of two apps.
LEMMA IdStep ==
  ASSUME TypeOK, JobOK, CurrentInv, CommitInv, IdInv, [Next]_vars
  PROVE  IdInv'
<1>0. job \in [Clients -> Job]
  BY DEF TypeOK
<1>1. ASSUME NEW c \in Clients, Start(c) PROVE IdInv'
  <2>1. UNCHANGED stored
    BY <1>1 DEF Start
  <2>2. CASE \E id \in Ids \ issued :
               /\ issued' = issued \cup {id}
               /\ job'[c].step = "insert" /\ job'[c].id = id
               /\ \A d \in Clients \ {c} : job'[d] = job[d]
    BY <2>1, <2>2 DEF IdInv
  <2>3. CASE /\ issued' = issued /\ job'[c].step = "read" /\ job'[c].id \in issued
             /\ \A d \in Clients \ {c} : job'[d] = job[d]
    BY <2>1, <2>3 DEF IdInv
  <2> QED BY <1>0, <1>1, <2>2, <2>3 DEF Start
<1>2. ASSUME NEW c \in Clients, Read(c) PROVE IdInv'
  <2>1. /\ job'[c].step \in {"idle", "deleteRow", "updateRow"}
        /\ job'[c].step # "idle" => job'[c].id = job[c].id /\ job[c].step # "idle"
        /\ \A d \in Clients \ {c} : job'[d] = job[d]
    BY <1>0, <1>2 DEF Read, Done, Idle, Job
  <2>2. UNCHANGED <<stored, issued>>
    BY <1>2 DEF Read
  <2> QED BY <2>1, <2>2 DEF IdInv
<1>3. ASSUME NEW c \in Clients, Call(c) PROVE IdInv'
  <2>1. UNCHANGED issued
    BY <1>3, WriteTypes DEF Call
  <2>2. /\ \A d \in Clients \ {c} : job'[d] = job[d]
        /\ job'[c].step # "idle" => job'[c].id = job[c].id
        /\ job[c].step # "idle"
    BY <1>3, CallStep
  <2>3. job'[c].step # "insert"
    BY <1>0, <1>3 DEF Call, InsertRow, UpdateRow, DeleteRow, WriteRow, GetCR,
       CreateCR, UpdateCR, DeleteCR, LastCall, Done, GoTo, Idle, Job
  <2>4. \A a \in stored' : \/ a \in stored
                           \/ /\ a.id = job[c].id
                              /\ \/ job[c].step = "insert"
                                 \/ \E b \in stored : b.id = a.id
    <3>1. CASE row' = row
      BY <1>3, <3>1, CallEffect DEF CommitInv
    <3>2. CASE row' # row
      <4>1. \/ /\ job[c].step \in {"insert", "updateRow"}
               /\ job[c].mem \in App /\ row' = job[c].mem
            \/ job[c].step = "deleteRow" /\ row' = NoRow
        BY <1>3, <3>2, CallEffect
      <4>2. job[c].step = "updateRow" => row # NoRow /\ row.id = job[c].id
        BY <1>3, <3>2, CallEffect DEF Mine
      <4>3. job[c].step \in {"insert", "updateRow"} => job[c].mem.id = job[c].id
        BY DEF JobOK
      <4>4. stored' \subseteq stored \cup ({row'} \ {NoRow})
        BY <1>3, CallEffect
      <4> QED BY <4>1, <4>2, <4>3, <4>4 DEF CommitInv
    <3> QED BY <3>1, <3>2
  <2>5. \A d \in Clients : job'[d].step = "insert" =>
          d # c /\ job[d] = job'[d] /\ (job[c].step = "insert" => job[c].id # job[d].id)
    BY <2>2, <2>3 DEF IdInv
  <2>6. \A a \in stored' : a.id \in issued'
    BY <2>1, <2>2, <2>4 DEF IdInv
  <2>7. ASSUME NEW d \in Clients, job'[d].step = "insert"
        PROVE  \A a \in stored' : a.id # job'[d].id
    BY <2>4, <2>5, <2>7 DEF IdInv
  <2>8. ASSUME NEW d \in Clients, job'[d].step = "insert"
        PROVE  \A e \in Clients :
                 job'[e].step = "insert" /\ job'[e].id = job'[d].id => e = d
    BY <2>5, <2>8 DEF IdInv
  <2>9. \A d \in Clients : job'[d].step # "idle" => job'[d].id \in issued'
    BY <2>1, <2>2 DEF IdInv
  <2> QED BY <2>6, <2>7, <2>8, <2>9 DEF IdInv
<1>4. CASE Restart
  BY <1>4 DEF Restart, Idle, IdInv
<1>5. CASE Reconcile \/ Finish \/ UNCHANGED vars
  BY <1>5 DEF Reconcile, Finish, OperatorWrites, vars, IdInv
<1> QED BY <1>1, <1>2, <1>3, <1>4, <1>5, NextCases

-----------------------------------------------------------------------------
(* An undisturbed request has what it needs *)

\* The steps after which the one request that may still be undisturbed is idle
\* or finds row and CR as AloneInv wants them.
LEMMA AloneMove ==
  ASSUME NEW c \in Clients, alone' \subseteq {c},
         c \in alone' =>
           /\ \A d \in Clients : job'[d].step # "idle" => d = c
           /\ job'[c].step \in {"getCR", "createCR", "updateCR"} => row' = job'[c].mem
           /\ job'[c].step = "createCR" => cr' = NoCR
           /\ job'[c].step = "updateCR" => cr' # NoCR /\ ~cr'.deleting
           /\ job'[c].step = "deleteCR" => row' = NoRow
  PROVE  AloneInv'
BY DEF AloneInv

\* How the calls move a request, and what they say of row and CR when they do.
LEMMA CallMoves ==
  ASSUME TypeOK, JobOK, NEW c \in Clients, Call(c)
  PROVE  /\ alone' \in {alone, {}}
         /\ \/ job'[c] = Idle
            \/ UNCHANGED alone /\ job'[c].step = "getCR" /\ row' = job'[c].mem
            \/ UNCHANGED alone /\ job'[c].step = "deleteCR" /\ row' = NoRow
            \/ /\ job[c].step = "getCR" /\ UNCHANGED <<row, cr>>
               /\ job'[c].mem = job[c].mem
               /\ \/ alone' = {}
                  \/ job'[c].step = "updateCR" /\ cr # NoCR /\ ~cr.deleting
                  \/ job'[c].step = "createCR" /\ cr = NoCR
<1>0. job \in [Clients -> Job]
  BY DEF TypeOK
<1>1. CASE InsertRow(c) \/ UpdateRow(c) \/ DeleteRow(c)
  BY <1>0, <1>1 DEF InsertRow, UpdateRow, DeleteRow, WriteRow, Done, GoTo, Job
<1>2. CASE GetCR(c)
  BY <1>0, <1>2 DEF GetCR, Done, GoTo, Job
<1>3. CASE CreateCR(c) \/ UpdateCR(c) \/ DeleteCR(c)
  BY <1>0, <1>3 DEF CreateCR, UpdateCR, DeleteCR, LastCall, Done
<1> QED BY <1>1, <1>2, <1>3 DEF Call

\* No step takes from an undisturbed request what it counts on.
LEMMA AloneStep ==
  ASSUME TypeOK, JobOK, CurrentInv, AloneInv, [Next]_vars
  PROVE  AloneInv'
<1>0. job \in [Clients -> Job] /\ cr \in CR \cup {NoCR} /\ alone \subseteq Clients
  BY DEF TypeOK
<1>1. ASSUME NEW c \in Clients, Start(c) PROVE AloneInv'
  <2>1. /\ job'[c].step \in {"insert", "read"}
        /\ \A d \in Clients \ {c} : job'[d] = job[d]
    BY <1>0, <1>1 DEF Start
  <2>2. alone' \subseteq {c} /\ (c \in alone' => \A d \in Clients : job[d].step = "idle")
    BY <1>1 DEF Start, Quiet
  <2> QED BY <2>1, <2>2, AloneMove
<1>2. ASSUME NEW c \in Clients, Read(c) PROVE AloneInv'
  <2>1. job[c].step = "read" /\ UNCHANGED alone
    BY <1>2 DEF Read
  <2>2. /\ job'[c].step \in {"idle", "deleteRow", "updateRow"}
        /\ \A d \in Clients \ {c} : job'[d] = job[d]
    BY <1>0, <1>2 DEF Read, Done, Idle, Job
  <2>3. alone \subseteq {c}
    BY <1>0, <2>1 DEF AloneInv
  <2>4. c \in alone' => \A d \in Clients : job'[d].step # "idle" => d = c
    BY <2>1, <2>2 DEF AloneInv
  <2> QED BY <2>1, <2>2, <2>3, <2>4, AloneMove
<1>3. ASSUME NEW c \in Clients, Call(c) PROVE AloneInv'
  <2>1. job[c].step # "idle" /\ \A d \in Clients \ {c} : job'[d] = job[d]
    BY <1>3, CallStep
  <2>2. alone \subseteq {c} /\ alone' \in {alone, {}}
    BY <1>0, <1>3, <2>1, CallMoves DEF AloneInv
  <2>3. c \in alone' => c \in alone /\ \A d \in Clients : job'[d].step # "idle" => d = c
    BY <2>1, <2>2 DEF AloneInv
  <2>4. job[c].step = "getCR" /\ c \in alone => row = job[c].mem
    BY DEF AloneInv
  <2>5. Idle.step = "idle"
    BY DEF Idle
  <2>6. CASE job'[c] = Idle
    BY <2>2, <2>3, <2>5, <2>6, AloneMove
  <2>7. CASE \/ job'[c].step = "getCR" /\ row' = job'[c].mem
             \/ job'[c].step = "deleteCR" /\ row' = NoRow
    BY <2>2, <2>3, <2>7, AloneMove
  <2>8. CASE /\ job[c].step = "getCR" /\ UNCHANGED <<row, cr>>
             /\ job'[c].mem = job[c].mem
             /\ \/ alone' = {}
                \/ job'[c].step = "updateCR" /\ cr # NoCR /\ ~cr.deleting
                \/ job'[c].step = "createCR" /\ cr = NoCR
    BY <2>2, <2>3, <2>4, <2>8, AloneMove
  <2> QED BY <1>3, <2>6, <2>7, <2>8, CallMoves
<1>4. CASE Restart
  BY <1>4 DEF Restart, Idle, AloneInv
<1>5. CASE Reconcile
  <2>1. /\ cr \in CR /\ cr' = [cr EXCEPT !.finalizer = @ \/ ~cr.deleting]
        /\ UNCHANGED <<row, job, alone>>
    BY <1>0, <1>5 DEF Reconcile, OperatorWrites
  <2>2. cr' \in CR /\ cr'.deleting = cr.deleting
    BY <2>1 DEF CR
  <2> QED BY <2>1, <2>2, NoneAssumption DEF AloneInv
<1>6. CASE Finish
  BY <1>6 DEF Finish, OperatorWrites, AloneInv
<1>7. CASE UNCHANGED vars
  BY <1>7 DEF vars, AloneInv
<1> QED BY <1>1, <1>2, <1>3, <1>4, <1>5, <1>6, <1>7, NextCases

-----------------------------------------------------------------------------
(* Without an excuse, the CR follows the row *)

\* A step of one request and of no other.
LEMMA SyncMove ==
  ASSUME NEW c \in Clients, SyncInv, excuses' = {} => excuses = {},
         \A d \in Clients \ {c} : job'[d] = job[d],
         alone \ {c} \subseteq alone',
         excuses' = {} => job'[c].step = "idle" \/ c \in alone',
         excuses' = {} => InSync' \/ Behind(c)'
  PROVE  SyncInv'
BY DEF SyncInv

\* The last call of an undisturbed request brings row and CR together, whatever
\* they were before.
LEMMA LastCallSyncs ==
  ASSUME TypeOK, JobOK, CurrentInv, AloneInv, NEW c \in alone,
         CreateCR(c) \/ UpdateCR(c) \/ DeleteCR(c), faults' = faults,
         excuses' = {}
  PROVE  InSync'
<1>0. c \in Clients /\ cr \in CR \cup {NoCR} /\ row \in App \cup {NoRow}
  BY DEF TypeOK
<1>f. ~Fault
  BY DEF Fault, TypeOK
<1>1. CASE CreateCR(c)
  <2>1. row = job[c].mem /\ cr = NoCR /\ job[c].mem \in App
    BY <1>0, <1>1 DEF CreateCR, LastCall, AloneInv, JobOK
  <2>2. /\ row' = row
        /\ cr' = [spec |-> Exported(job[c].mem), finalizer |-> FALSE,
                  deleting |-> FALSE]
    BY <1>1, <1>f, <2>1 DEF CreateCR, LastCall
  <2>3. Exported(job[c].mem) \in AppSpec /\ Shows(Exported(job[c].mem), job[c].mem)
    BY <2>1, ExportedType
  <2>4. cr' \in CR /\ ~cr'.deleting /\ Shows(cr'.spec, job[c].mem)
    BY <2>2, <2>3 DEF CR
  <2> QED BY <2>1, <2>2, <2>4, NoneAssumption DEF InSync
<1>2. CASE UpdateCR(c)
  <2>1. row = job[c].mem /\ cr \in CR /\ ~cr.deleting /\ job[c].mem \in App
    BY <1>0, <1>2 DEF UpdateCR, LastCall, AloneInv, JobOK
  <2>2. row' = row /\ cr' = [cr EXCEPT !.spec = Exported(job[c].mem)]
    BY <1>2, <1>f DEF UpdateCR, LastCall, Excuse
  <2>3. Exported(job[c].mem) \in AppSpec /\ Shows(Exported(job[c].mem), job[c].mem)
    BY <2>1, ExportedType
  <2>4. cr' \in CR /\ ~cr'.deleting /\ Shows(cr'.spec, job[c].mem)
    BY <2>1, <2>2, <2>3 DEF CR
  <2> QED BY <2>1, <2>2, <2>4, NoneAssumption DEF InSync
<1>3. CASE DeleteCR(c)
  <2>1. row = NoRow
    BY <1>3 DEF DeleteCR, LastCall, AloneInv
  <2>2. /\ row' = row
        /\ cr' = IF cr # NoCR /\ cr.finalizer THEN [cr EXCEPT !.deleting = TRUE]
                 ELSE NoCR
    BY <1>3, <1>f DEF DeleteCR, LastCall
  <2> QED BY <1>0, <2>1, <2>2 DEF InSync, CR
<1> QED BY <1>1, <1>2, <1>3

\* As long as nothing excuses it, the CR is at most one request behind the row;
\* and from the last call of an undisturbed request on, nothing does.
LEMMA SyncStep ==
  ASSUME TypeOK, JobOK, CurrentInv, AloneInv, SyncInv, [Next]_vars
  PROVE  SyncInv'
<1>0. job \in [Clients -> Job] /\ cr \in CR \cup {NoCR} /\ alone \subseteq Clients
  BY DEF TypeOK
<1>i. Idle.step = "idle"
  BY DEF Idle
<1>1. ASSUME NEW c \in Clients, Start(c) PROVE SyncInv'
  <2> SUFFICES ASSUME excuses' = {} PROVE SyncInv'
    BY DEF SyncInv
  <2>1. Quiet /\ alone' = {c} /\ excuses = {} /\ UNCHANGED <<row, cr>>
    BY <1>1 DEF Start, Excuse
  <2>2. \A d \in Clients \ {c} : job'[d] = job[d]
    BY <1>0, <1>1 DEF Start
  <2>3. InSync'
    BY <2>1 DEF SyncInv, Quiet, Behind, InSync
  <2> QED BY <2>1, <2>2, <2>3 DEF SyncInv, Quiet
<1>2. ASSUME NEW c \in Clients, Read(c) PROVE SyncInv'
  <2>1. job[c].step = "read" /\ UNCHANGED <<row, cr, alone, excuses>>
    BY <1>2 DEF Read
  <2>2. \A d \in Clients \ {c} : job'[d] = job[d]
    BY <1>0, <1>2 DEF Read, Done
  <2>3. excuses = {} => InSync
    BY <2>1 DEF SyncInv, AloneInv, Behind
  <2>4. excuses' = {} => InSync' /\ c \in alone'
    BY <2>1, <2>3 DEF InSync, SyncInv
  <2> QED BY <2>1, <2>2, <2>4, SyncMove
<1>3. ASSUME NEW c \in Clients, Call(c) PROVE SyncInv'
  <2> SUFFICES ASSUME excuses' = {} PROVE SyncInv'
    BY DEF SyncInv
  <2>1. /\ job[c].step # "idle"
        /\ \A d \in Clients \ {c} : job'[d] = job[d]
    BY <1>3, CallStep
  <2>2. CASE InsertRow(c) \/ UpdateRow(c) \/ DeleteRow(c)
    <3>1. /\ excuses = {} /\ UNCHANGED <<cr, alone>> /\ ~Behind(c)
          /\ \/ job'[c] = Idle /\ row' = row
             \/ job'[c].step \in {"getCR", "deleteCR"}
      BY <1>0, <2>2 DEF InsertRow, UpdateRow, DeleteRow, WriteRow, Done,
         GoTo, Job, Excuse, Behind
    <3>2. c \in alone /\ InSync
      BY <2>1, <3>1 DEF SyncInv, AloneInv, Behind
    <3>3. InSync' \/ Behind(c)'
      BY <3>1, <3>2 DEF InSync, Behind
    <3> QED BY <2>1, <3>1, <3>2, <3>3, SyncMove
  <2>3. CASE GetCR(c)
    <3>1. /\ excuses = {} /\ UNCHANGED alone
          /\ job'[c].step \in {"createCR", "updateCR"}
      BY <1>0, <2>3 DEF GetCR, GoTo, Job, Excuse
    <3>2. c \in alone /\ Behind(c)'
      BY <2>1, <3>1 DEF SyncInv, Behind
    <3> QED BY <2>1, <3>1, <3>2, SyncMove
  <2>4. CASE CreateCR(c) \/ UpdateCR(c) \/ DeleteCR(c)
    <3>1. /\ job'[c] = Idle /\ UNCHANGED alone /\ faults' = faults
          /\ c \in alone \/ excuses = {}
      BY <1>0, <2>4 DEF CreateCR, UpdateCR, DeleteCR, LastCall, Done, Excuse, NoFault
    <3>2. c \in alone
      BY <2>1, <3>1 DEF SyncInv
    <3>3. InSync'
      BY <2>4, <3>1, <3>2, LastCallSyncs
    <3>4. \A d \in Clients : job'[d].step = "idle"
      BY <1>i, <2>1, <3>1, <3>2 DEF AloneInv
    <3> QED BY <3>3, <3>4 DEF SyncInv
  <2> QED BY <1>3, <2>2, <2>3, <2>4 DEF Call
<1>4. CASE Restart
  BY <1>4 DEF Restart, Excuse, SyncInv
<1>5. CASE Reconcile
  <2>1. /\ cr \in CR /\ cr' = [cr EXCEPT !.finalizer = @ \/ ~cr.deleting]
        /\ UNCHANGED <<row, job, alone, excuses>>
    BY <1>0, <1>5 DEF Reconcile, OperatorWrites
  <2>2. cr' \in CR /\ cr'.spec = cr.spec /\ cr'.deleting = cr.deleting
    BY <2>1 DEF CR
  <2> QED BY <2>1, <2>2, NoneAssumption DEF SyncInv, InSync, Behind
<1>6. CASE Finish
  <2>1. /\ cr.deleting /\ cr # NoCR /\ cr' = NoCR
        /\ UNCHANGED <<row, job, alone, excuses>>
    BY <1>6 DEF Finish, OperatorWrites
  <2> QED BY <2>1 DEF SyncInv, InSync, Behind
<1>7. CASE UNCHANGED vars
  BY <1>7 DEF vars, SyncInv, InSync, Behind
<1> QED BY <1>1, <1>2, <1>3, <1>4, <1>5, <1>6, <1>7, NextCases

-----------------------------------------------------------------------------
(* A patch keeps what it does not name *)

\* A patch about to be written, by a request that nothing has disturbed, was
\* applied to the row as it still is.
PatchInv ==
  \A c \in alone :
    job[c].step = "updateRow" /\ job[c].req.op = "patchEnv" =>
      row \in App /\ job[c].mem = Applied(job[c].req, row)

\* A patched app keeps the variables that the patch does not name and loses
\* those that the patch names with the empty string.
LEMMA AppliedPatch ==
  ASSUME NEW r \in Request, r.op = "patchEnv", NEW a \in App
  PROVE  LET old == a.env.vars  new == Applied(r, a).env.vars
         IN /\ \A k \in DOMAIN old \ DOMAIN r.patch :
                 k \in DOMAIN new /\ new[k] = old[k]
            /\ \A k \in DOMAIN r.patch : k \in DOMAIN new <=> r.patch[k] # Empty
<1>1. a.env \in EnvVars /\ a.env.vars \in Vars
  BY DEF App, EnvVars
<1>3. Applied(r, a).env.vars = Patched(a.env.vars, r.patch)
  <2> DEFINE p == Patched(a.env.vars, r.patch)
             h == IF r.domains = {} THEN NoDomains ELSE Or(r.domains, a.env.domains)
  <2>1. Applied(r, a) = [a EXCEPT !.env.vars = p, !.env.domains = h]
    BY <1>1 DEF Applied, EnvPatched, App, EnvVars
  <2> HIDE DEF p, h
  <2>2. [a EXCEPT !.env.vars = p, !.env.domains = h].env.vars = p
    BY <1>1 DEF App, EnvVars
  <2> QED BY <2>1, <2>2 DEF p
<1>4. ASSUME NEW old, NEW patch
      PROVE  LET new == Patched(old, patch)
             IN /\ \A k \in DOMAIN old \ DOMAIN patch :
                     k \in DOMAIN new /\ new[k] = old[k]
                /\ \A k \in DOMAIN patch : k \in DOMAIN new <=> patch[k] # Empty
  BY DEF Patched, Removed
<1> QED BY <1>3, <1>4

\* No step lets a patch be written over another row than it was applied to.
LEMMA PatchStep ==
  ASSUME TypeOK, JobOK, CurrentInv, AloneInv, PatchInv, [Next]_vars
  PROVE  PatchInv'
<1>0. job \in [Clients -> Job] /\ alone \subseteq Clients
  BY DEF TypeOK
<1>1. ASSUME NEW c \in Clients, Start(c) PROVE PatchInv'
  <2>1. alone' \subseteq {c} /\ job'[c].step \in {"insert", "read"}
    BY <1>0, <1>1 DEF Start
  <2> QED BY <2>1 DEF PatchInv
<1>2. ASSUME NEW c \in Clients, Read(c) PROVE PatchInv'
  <2>1. UNCHANGED <<row, alone>> /\ job[c].step = "read"
    BY <1>2 DEF Read
  <2>2. alone' \subseteq {c}
    BY <1>0, <2>1 DEF AloneInv
  <2>3. job'[c].step = "updateRow" =>
          /\ row \in App /\ job'[c].req = job[c].req
          /\ job'[c].mem = Applied(job[c].req, row)
    BY <1>0, <1>2 DEF Read, Accepted, Mine, Done, Idle, Job, TypeOK
  <2> QED BY <2>1, <2>2, <2>3 DEF PatchInv
<1>3. ASSUME NEW c \in Clients, Call(c) PROVE PatchInv'
  <2>1. job[c].step # "idle" /\ alone' \in {alone, {}}
    BY <1>3, CallStep, CallMoves
  <2>2. alone' \subseteq {c}
    BY <1>0, <2>1 DEF AloneInv
  <2>3. job'[c].step # "updateRow" \/ alone' = {}
    BY <1>3, CallMoves DEF Idle
  <2> QED BY <2>2, <2>3 DEF PatchInv
<1>4. CASE Restart
  BY <1>0, <1>4 DEF Restart, Idle, PatchInv
<1>5. CASE Reconcile \/ Finish \/ UNCHANGED vars
  BY <1>5 DEF Reconcile, Finish, OperatorWrites, vars, PatchInv
<1> QED BY <1>1, <1>2, <1>3, <1>4, <1>5, NextCases

-----------------------------------------------------------------------------
(* The theorems *)

\* The inductive invariant: types, commits, identifiers, and how far the CR may
\* be behind the row.
THEOREM Invariance == Spec => []IInv
<1>1. Init => IInv
  <2>1. Init => CommitInv /\ IdInv /\ AloneInv /\ SyncInv
    BY DEF Init, Idle, CommitInv, CRWasCommitted, IdInv, AloneInv, SyncInv, InSync
  <2> QED BY <2>1, TypeInit DEF IInv
<1>2. IInv /\ [Next]_vars => IInv'
  BY TypeStep, CommitStep, IdStep, AloneStep, SyncStep DEF IInv
<1> QED BY <1>1, <1>2, PTL DEF Spec

\* However many requests overlap, fail or are cut short, the CR shows a state
\* that was committed to Postgres.
THEOREM CRWasCommittedSafe == Spec => []CRWasCommitted
<1>1. IInv => CRWasCommitted
  BY DEF IInv, CommitInv
<1> QED BY <1>1, Invariance, PTL

\* There are no other ways for the CR to miss a change of the row than those
\* that the excuses record, and the next request that nothing disturbs makes up
\* for all of them.
THEOREM InSyncSafe == Spec => []InSyncUnlessExcused
<1>1. IInv => InSyncUnlessExcused
  BY DEF IInv, SyncInv, InSyncUnlessExcused, Quiet, Behind
<1> QED BY <1>1, Invariance, PTL

\* A deleted app's row does not come back: only an insert makes a row, and the
\* id of an app about to be inserted has never been in the table.
THEOREM DeletedForGoodSafe == Spec => DeletedForGood
<1>1. ASSUME IInv, [Next]_vars, row' # NoRow, row' # row
      PROVE  \/ row # NoRow /\ row.id = row'.id
             \/ \A app \in stored : app.id # row'.id
  <2>1. PICK c \in Clients : Call(c)
    BY <1>1, NextCases DEF Start, Read, Restart, Reconcile, Finish,
       OperatorWrites, vars
  <2>2. /\ job[c].step \in {"insert", "updateRow"} /\ row' = job[c].mem
        /\ job[c].step = "updateRow" => row # NoRow /\ row.id = job[c].id
    BY <1>1, <2>1, CallEffect DEF IInv, Mine
  <2>3. job[c].mem.id = job[c].id
    BY <1>1, <2>2 DEF IInv, JobOK
  <2> QED BY <1>1, <2>2, <2>3 DEF IInv, IdInv
<1>2. IInv /\ [Next]_vars =>
        [row' # NoRow /\ row' # row =>
           (row # NoRow /\ row.id = row'.id) \/ \A app \in stored : app.id # row'.id]_vars
  BY <1>1
<1> QED BY <1>2, Invariance, PTL DEF Spec, DeletedForGood

\* A patch that nothing disturbs merges into the row, whatever has gone wrong
\* before: it is written over the very row that it was applied to.
THEOREM PatchMergesSafe == Spec => PatchMerges
<1>1. Init => PatchInv
  BY DEF Init, Idle, PatchInv
<1>2. IInv /\ PatchInv /\ [Next]_vars => PatchInv'
  BY PatchStep DEF IInv
<1>3. ASSUME IInv, PatchInv, [Next]_vars, NEW c \in alone, Patches(c)
      PROVE  Merges(c)
  <2>0. c \in Clients
    BY <1>3 DEF IInv, TypeOK
  <2>1. PICK d \in Clients : Call(d)
    BY <1>3, NextCases DEF Patches, Start, Read, Restart, Reconcile, Finish,
       OperatorWrites, vars
  <2>2. d = c
    BY <1>3, <2>1, CallStep DEF IInv, AloneInv
  <2>3. row' = job[c].mem
    BY <1>3, <2>0, <2>1, <2>2, CallEffect DEF IInv, Patches
  <2>4. /\ row \in App /\ job[c].req \in Request /\ job[c].req.op = "patchEnv"
        /\ job[c].mem = Applied(job[c].req, row)
    BY <1>3, <2>0 DEF IInv, JobOK, PatchInv, Patches
  <2> QED BY <2>3, <2>4, AppliedPatch DEF Merges
<1>4. IInv /\ PatchInv /\ [Next]_vars =>
        [\A c \in alone : Patches(c) => Merges(c)]_vars
  BY <1>3
<1> QED BY <1>1, <1>2, <1>4, Invariance, PTL DEF Spec, PatchMerges

-----------------------------------------------------------------------------
(* The requests keep the contract of CustomResource *)

\* A CR is only terminating while its finalizer holds it.
FinalizerInv == cr # NoCR /\ cr.deleting => cr.finalizer

SpecOf == IF cr = NoCR THEN NoCR ELSE cr.spec

\* What a call can do to the CR: create it, give it a spec, or delete it, at once
\* or when its finalizer lets it go.
LEMMA CRChange ==
  ASSUME TypeOK, JobOK, CurrentInv, NEW c \in Clients, Call(c), cr' # cr
  PROVE  /\ job' # job
         /\ \/ /\ cr = NoCR /\ cr' \in CR /\ ~cr'.finalizer /\ ~cr'.deleting
            \/ /\ cr \in CR /\ cr' \in CR
               /\ cr'.finalizer = cr.finalizer /\ cr'.deleting = cr.deleting
            \/ /\ cr \in CR /\ cr.finalizer /\ ~cr.deleting
               /\ cr' \in CR /\ cr'.finalizer /\ cr'.deleting
               /\ cr'.spec = cr.spec
            \/ cr \in CR /\ ~cr.finalizer /\ cr' = NoCR
<1>1. job \in [Clients -> Job] /\ cr \in CR \cup {NoCR}
  BY DEF TypeOK
<1>2. job' # job
  <2>1. Idle.step = "idle"
    BY DEF Idle
  <2>2. job[c].step # "idle" /\ Done(c)
    BY CallStep DEF Call, InsertRow, UpdateRow, DeleteRow, WriteRow, GetCR, CreateCR,
       UpdateCR, DeleteCR, LastCall
  <2>3. job'[c] = Idle
    BY <1>1, <2>2 DEF Done
  <2> QED BY <2>1, <2>2, <2>3
<1>3. CASE CreateCR(c)
  <2> DEFINE new == [spec |-> Exported(job[c].mem), finalizer |-> FALSE,
                     deleting |-> FALSE]
  <2>1. cr = NoCR /\ cr' = new /\ job[c].mem \in App
    BY <1>3 DEF CreateCR, LastCall, JobOK
  <2>2. new \in CR /\ ~new.finalizer /\ ~new.deleting
    BY <2>1, ExportedType DEF CR
  <2> HIDE DEF new
  <2> QED BY <1>2, <2>1, <2>2
<1>4. CASE UpdateCR(c)
  <2>1. /\ c \in current /\ cr' = [cr EXCEPT !.spec = Exported(job[c].mem)]
        /\ job[c].mem \in App
    BY <1>4 DEF UpdateCR, LastCall, JobOK
  <2>2. cr \in CR /\ Exported(job[c].mem) \in AppSpec
    BY <1>1, <2>1, ExportedType DEF CurrentInv
  <2>3. cr' \in CR /\ cr'.finalizer = cr.finalizer /\ cr'.deleting = cr.deleting
    BY <2>1, <2>2 DEF CR
  <2> QED BY <1>2, <2>2, <2>3
<1>5. CASE DeleteCR(c)
  <2>1. cr' = IF cr # NoCR /\ cr.finalizer THEN [cr EXCEPT !.deleting = TRUE]
              ELSE NoCR
    BY <1>5 DEF DeleteCR, LastCall
  <2>2. cr \in CR
    BY <1>1, <2>1
  <2>3. CASE cr.finalizer
    <3>1. cr' = [cr EXCEPT !.deleting = TRUE]
      BY <2>1, <2>2, <2>3, NoneAssumption
    <3>2. ~cr.deleting
      BY <2>2, <3>1 DEF CR
    <3>3. cr' \in CR /\ cr'.finalizer /\ cr'.deleting /\ cr'.spec = cr.spec
      BY <2>2, <2>3, <3>1 DEF CR
    <3> QED BY <1>2, <2>2, <2>3, <3>2, <3>3
  <2>4. CASE ~cr.finalizer
    BY <1>2, <2>1, <2>2, <2>4
  <2> QED BY <2>3, <2>4
<1>6. CASE InsertRow(c) \/ UpdateRow(c) \/ DeleteRow(c) \/ GetCR(c)
  BY <1>6 DEF InsertRow, UpdateRow, DeleteRow, WriteRow, GetCR
<1> QED BY <1>3, <1>4, <1>5, <1>6 DEF Call

\* What the operator does to it, as it is modelled here.
LEMMA OperatorChange ==
  ASSUME TypeOK, FinalizerInv, Reconcile \/ Finish
  PROVE  /\ job' = job /\ cr \in CR
         /\ \/ cr' = cr
            \/ /\ ~cr.finalizer /\ ~cr.deleting
               /\ cr' \in CR /\ cr'.finalizer /\ ~cr'.deleting
               /\ cr'.spec = cr.spec
            \/ cr.finalizer /\ cr.deleting /\ cr' = NoCR
<1>0. cr \in CR
  BY DEF TypeOK, Reconcile, Finish, OperatorWrites
<1>1. CASE Reconcile
  <2>1. job' = job /\ cr' = [cr EXCEPT !.finalizer = @ \/ ~cr.deleting]
    BY <1>1 DEF Reconcile, OperatorWrites
  <2>2. CASE cr.finalizer \/ cr.deleting
    <3>1. cr.finalizer
      BY <1>0, <2>2, NoneAssumption DEF FinalizerInv
    <3>2. cr' = [cr EXCEPT !.finalizer = TRUE]
      BY <1>0, <2>1, <3>1 DEF CR
    <3>3. cr' = cr
      BY <1>0, <3>1, <3>2 DEF CR
    <3> QED BY <1>0, <2>1, <3>3
  <2>3. CASE ~cr.finalizer /\ ~cr.deleting
    <3>1. cr' = [cr EXCEPT !.finalizer = TRUE]
      BY <1>0, <2>1, <2>3 DEF CR
    <3>2. cr' \in CR /\ cr'.finalizer /\ ~cr'.deleting /\ cr'.spec = cr.spec
      BY <1>0, <2>3, <3>1 DEF CR
    <3> QED BY <1>0, <2>1, <2>3, <3>2
  <2> QED BY <2>2, <2>3
<1>2. CASE Finish
  BY <1>0, <1>2, NoneAssumption DEF Finish, OperatorWrites, FinalizerInv
<1> QED BY <1>1, <1>2

\* Nothing else touches the CR.
LEMMA CRUnchanged ==
  ASSUME [Next]_vars, cr' # cr
  PROVE  (\E c \in Clients : Call(c)) \/ Reconcile \/ Finish
BY NextCases DEF Start, Read, Restart, vars

\* No request leaves a terminating CR that nothing holds.
LEMMA FinalizerStep ==
  ASSUME TypeOK, JobOK, CurrentInv, FinalizerInv, [Next]_vars
  PROVE  FinalizerInv'
<1>1. CASE cr' = cr
  BY <1>1 DEF FinalizerInv
<1>2. ASSUME NEW c \in Clients, Call(c), cr' # cr PROVE FinalizerInv'
  BY <1>2, CRChange, NoneAssumption DEF FinalizerInv
<1>3. CASE Reconcile \/ Finish
  BY <1>3, OperatorChange DEF FinalizerInv
<1> QED BY <1>1, <1>2, <1>3, CRUnchanged

\* A step of the contract, said of the one CR.
LEMMA ContractMove ==
  ASSUME NEW from, NEW to, StageOf = from, StageOf' = to
  PROVE  /\ Contract!Move("app", from, to)
         /\ SpecOf' = SpecOf =>
              UNCHANGED [o \in {"app"} |-> IF cr = NoCR THEN NoCR ELSE cr.spec]
         /\ \A s : SpecOf' = s => Contract!Ask("app", s)
         /\ from = to => UNCHANGED [o \in {"app"} |-> StageOf]
BY DEF Contract!Move, Contract!Ask, SpecOf

\* A request's change of the CR is a client's.
LEMMA RequestKeeps ==
  ASSUME TypeOK, JobOK, CurrentInv, NEW c \in Clients, Call(c), cr' # cr
  PROVE  Contract!ClientStep("app")
<1>0. \A r \in CR : r # NoCR /\ r.spec \in AppSpec
  BY NoneAssumption DEF CR
<1>1. CASE cr = NoCR /\ cr' \in CR /\ ~cr'.finalizer /\ ~cr'.deleting
  <2>1. PICK s \in AppSpec : SpecOf' = s
    BY <1>0, <1>1 DEF SpecOf
  <2>2. StageOf = "none" /\ StageOf' = "open"
    BY <1>0, <1>1 DEF StageOf
  <2> QED BY <2>1, <2>2, ContractMove DEF Contract!ClientStep, Contract!Create
<1>2. CASE /\ cr \in CR /\ cr' \in CR
           /\ cr'.finalizer = cr.finalizer /\ cr'.deleting = cr.deleting
  <2>1. PICK s \in AppSpec : SpecOf' = s
    BY <1>0, <1>2 DEF SpecOf
  <2>2. StageOf' = StageOf /\ StageOf # "none"
    BY <1>0, <1>2 DEF StageOf
  <2>3. PICK t : StageOf = t /\ StageOf' = t
    BY <2>2
  <2>4. Contract!Ask("app", s) /\ UNCHANGED [o \in {"app"} |-> StageOf]
    BY <2>1, <2>3, ContractMove
  <2> QED BY <2>2, <2>4 DEF Contract!ClientStep, Contract!Edit
<1>3. CASE /\ cr \in CR /\ cr.finalizer /\ ~cr.deleting
           /\ cr' \in CR /\ cr'.finalizer /\ cr'.deleting /\ cr'.spec = cr.spec
  <2>1. StageOf = "guarded" /\ StageOf' = "closing" /\ SpecOf' = SpecOf
    BY <1>0, <1>3 DEF StageOf, SpecOf
  <2> QED BY <2>1, ContractMove DEF Contract!ClientStep, Contract!Delete
<1>4. CASE cr \in CR /\ ~cr.finalizer /\ cr' = NoCR
  <2>1. StageOf = "open" /\ StageOf' = "none" /\ SpecOf' = NoCR
    BY <1>0, <1>4 DEF StageOf, SpecOf
  <2> QED BY <2>1, ContractMove DEF Contract!ClientStep, Contract!Delete
<1> QED BY <1>1, <1>2, <1>3, <1>4, CRChange

\* The operator's is one of its own.
LEMMA OperatorKeeps ==
  ASSUME TypeOK, FinalizerInv, Reconcile \/ Finish, cr' # cr
  PROVE  Contract!OperatorStep("app")
<1>0. \A r \in CR : r # NoCR
  BY NoneAssumption
<1>1. CASE /\ cr \in CR /\ ~cr.finalizer /\ ~cr.deleting
           /\ cr' \in CR /\ cr'.finalizer /\ ~cr'.deleting /\ cr'.spec = cr.spec
  <2>1. StageOf = "open" /\ StageOf' = "guarded" /\ SpecOf' = SpecOf
    BY <1>0, <1>1 DEF StageOf, SpecOf
  <2> QED BY <2>1, ContractMove DEF Contract!OperatorStep, Contract!Guard
<1>2. CASE cr \in CR /\ cr.finalizer /\ cr.deleting /\ cr' = NoCR
  <2>1. StageOf = "closing" /\ StageOf' = "none" /\ SpecOf' = NoCR
    BY <1>0, <1>2 DEF StageOf, SpecOf
  <2> QED BY <2>1, ContractMove DEF Contract!OperatorStep, Contract!Finish
<1> QED BY <1>1, <1>2, OperatorChange

\* Whatever requests overlap, fail or are cut short, to the CR they do what the
\* operator's model lets clients do, and what they count on from the operator is
\* what it does.
THEOREM KeepsContractSafe == Spec => KeepsContract
<1> DEFINE Keeps == IF job' # job THEN Contract!ClientStep("app")
                   ELSE Contract!OperatorStep("app")
<1>1. Init => Contract!Init /\ FinalizerInv
  BY DEF Init, StageOf, FinalizerInv, Contract!Init
<1>2. IInv /\ FinalizerInv /\ [Next]_vars => FinalizerInv'
  BY FinalizerStep DEF IInv
<1>3. IInv /\ FinalizerInv /\ [Next]_vars => [Keeps]_(Contract!vars)
  <2> SUFFICES ASSUME IInv, FinalizerInv, [Next]_vars
               PROVE  Keeps \/ UNCHANGED Contract!vars
    OBVIOUS
  <2> USE DEF IInv
  <2>1. CASE cr' = cr
    BY <2>1 DEF Contract!vars, StageOf
  <2>2. ASSUME NEW c \in Clients, Call(c), cr' # cr PROVE Keeps
    BY <2>2, RequestKeeps, CRChange
  <2>3. CASE (Reconcile \/ Finish) /\ cr' # cr
    BY <2>3, OperatorKeeps, OperatorChange
  <2> QED BY <2>1, <2>2, <2>3, CRUnchanged
<1> QED BY <1>1, <1>2, <1>3, Invariance, PTL DEF Spec, KeepsContract
=============================================================================
