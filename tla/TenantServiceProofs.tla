------------------------- MODULE TenantServiceProofs -------------------------
(***************************************************************************)
(* Theorems about TenantService for any number of users, of concurrent     *)
(* requests and of failing calls.                                          *)
(***************************************************************************)
EXTENDS TenantService, TLAPS

\* Steps that write the copy, and those between the access check and a write.
Writing == {"insertRow", "addMember", "createCR", "updateRow", "getCR", "updateCR"}
Passed == {"read", "updateRow", "deleteRow"}
Creating == {"insertRow", "addMember"}

\* A request is about a tenant of a known id, and writes none but that.
KnownInv ==
  /\ current # {} => cr # NoCR
  /\ row # NoRow => row.id \in issued
  /\ \A c \in Clients :
       /\ job[c].step # "idle" => job[c].id \in issued /\ job[c].user \in Users
       /\ job[c].step \in Writing => job[c].mem \in Tenant
                                     /\ job[c].mem.id = job[c].id

\* While a tenant is made nobody has access to it, and no other makes it.
NewInv(c) ==
  job[c].step \in Creating =>
    /\ \A m \in members : m[1] # job[c].id
    /\ \A d \in Clients \ {c} :
         job[d].id = job[c].id => job[d].step \in {"idle", "access"}
    /\ job[c].step = "insertRow" => ~Mine(c)

\* A request that has passed the access check is one of a member, as long as
\* the tenant is there.
PassedInv(c) == job[c].step \in Passed /\ Mine(c) => HasAccess(c)

AccessInv ==
  /\ AccessEndsWithTenant
  /\ \A c \in Clients : NewInv(c) /\ PassedInv(c)

\* As long as nothing has parted them, one request at a time moves row, owner and
\* CR from one state in which they agree to the next.
Gone == cr = NoCR \/ cr.deleting
Copied(c) == row # NoRow /\ row = job[c].mem
StepInv(c) ==
  /\ job[c].step \in {"insertRow", "access", "read", "updateRow", "deleteRow"} =>
       InSync
  /\ job[c].step \in {"updateRow", "deleteRow"} => Mine(c)
  /\ job[c].step = "addMember" => Copied(c) /\ Gone
  /\ job[c].step = "createCR" => Copied(c) /\ Owned /\ Gone
  /\ job[c].step \in {"getCR", "updateCR"} =>
       Copied(c) /\ Owned /\ ~Gone /\ cr.tenantId = row.id
  /\ job[c].step = "deleteCR" => row = NoRow

SyncInv ==
  excuses = {} =>
    /\ \A c, d \in Clients : c = d \/ job[c].step = "idle" \/ job[d].step = "idle"
    /\ Quiet => InSync
    /\ \A c \in Clients : job[c].step # "idle" => StepInv(c)

IInv == TypeOK /\ KnownInv /\ AccessInv /\ SyncInv

-----------------------------------------------------------------------------
(* Lemmas about the moves of a request *)

\* The steps one by one.
LEMMA StepsAre ==
  {"idle", "insertRow", "addMember", "createCR", "access", "read",
   "updateRow", "getCR", "updateCR", "deleteRow", "deleteCR"} = Steps
BY DEF Steps

\* The fields of a request.
LEMMA JobFacts ==
  ASSUME TypeOK, NEW c \in Clients
  PROVE  /\ job[c] \in Job
         /\ job[c].step \in Steps /\ job[c].op \in Ops
         /\ job[c].user \in Users \cup {Nobody} /\ job[c].id \in Ids \cup {NoRow}
         /\ job[c].plan \in Plans /\ job[c].mem \in Tenant \cup {NoRow}
BY DEF TypeOK, Job

\* A goroutine without a request has its type.
LEMMA IdleFacts == Idle \in Job /\ Idle.step = "idle" /\ Idle.id = NoRow
<1>1. (CHOOSE p \in Plans : TRUE) \in Plans
  BY PlansAssumption
<1>2. "idle" \in Steps /\ "create" \in Ops
  BY DEF Steps, Ops
<1> QED BY <1>1, <1>2 DEF Idle, Job

\* A request of the same user goes to another step about the same tenant.
Moves(c, s) ==
  /\ job' \in [Clients -> Job]
  /\ job'[c].step = s /\ job'[c].id = job[c].id /\ job'[c].user = job[c].user
  /\ \A d \in Clients \ {c} : job'[d] = job[d]

\* Going on to another call changes nothing else of the request.
LEMMA GoToFacts ==
  ASSUME TypeOK, NEW c \in Clients, NEW s \in Steps, GoTo(c, s)
  PROVE  Moves(c, s) /\ job'[c].mem = job[c].mem /\ job'[c].op = job[c].op
BY DEF TypeOK, GoTo, Job, Moves

\* The request ends.
Ends(c) ==
  /\ job' \in [Clients -> Job]
  /\ job'[c].step = "idle"
  /\ \A d \in Clients \ {c} : job'[d] = job[d]

\* A request that ends.
LEMMA DoneFacts ==
  ASSUME TypeOK, NEW c \in Clients, Done(c)
  PROVE  Ends(c)
BY IdleFacts DEF TypeOK, Done, Ends

\* What the counter of faults allows.
LEMMA FaultFacts ==
  ASSUME TypeOK, Fault \/ NoFault
  PROVE  faults' \in 0 .. MaxFaults
BY BoundsAssumption DEF TypeOK, Fault, NoFault

\* What a statement may do.
LEMMA StatementFacts ==
  ASSUME TypeOK, NEW c \in Clients, NEW from, NEW possible, NEW newRow,
         NEW newMembers, NEW next \in Steps,
         Statement(c, from, possible, newRow, newMembers, next)
  PROVE  /\ job[c].step = from /\ UNCHANGED <<issued, cr, current, sent>>
         /\ faults' \in 0 .. MaxFaults
         /\ \/ /\ possible /\ row' = newRow /\ members' = newMembers
               /\ Moves(c, next) /\ job'[c].mem = job[c].mem
               /\ excuses' = excuses
            \/ ~possible /\ UNCHANGED <<row, members, excuses>> /\ Ends(c)
            \/ /\ \/ UNCHANGED <<row, members>>
                  \/ possible /\ row' = newRow /\ members' = newMembers
               /\ Ends(c) /\ excuses' = excuses \cup {"fault"}
<1>1. job[c].step = from /\ UNCHANGED <<issued, cr, current, sent>>
  BY DEF Statement
<1>2. faults' \in 0 .. MaxFaults
  BY FaultFacts DEF Statement
<1>3. GoTo(c, next) => Moves(c, next) /\ job'[c].mem = job[c].mem
  BY GoToFacts
<1>4. Done(c) => Ends(c)
  BY DoneFacts
<1> QED BY <1>1, <1>2, <1>3, <1>4, Zenon DEF Statement, Excuse

\* What the last call may do.
LEMMA LastCallFacts ==
  ASSUME TypeOK, NEW c \in Clients, NEW from, NEW possible, NEW new,
         LastCall(c, from, possible, new)
  PROVE  /\ job[c].step = from /\ UNCHANGED <<row, members, issued, sent>>
         /\ faults' \in 0 .. MaxFaults /\ Ends(c)
         /\ current' = {} \/ (cr' = cr /\ current' \subseteq current)
         /\ \/ possible /\ cr' = new /\ excuses' = excuses
            \/ /\ ~possible /\ cr' = cr
               /\ \E e \in {"terminating", "conflict"} : excuses' = excuses \cup {e}
            \/ /\ cr' = cr \/ (possible /\ cr' = new)
               /\ excuses' = excuses \cup {"fault"}
<1>1. job[c].step = from /\ UNCHANGED <<row, members, issued, sent>>
  BY DEF LastCall
<1>2. faults' \in 0 .. MaxFaults
  BY FaultFacts DEF LastCall
<1>3. Ends(c)
  BY DoneFacts DEF LastCall
<1>4. current' = {} \/ (cr' = cr /\ current' \subseteq current)
  BY DEF LastCall
<1>5. \/ possible /\ cr' = new /\ excuses' = excuses
      \/ /\ ~possible /\ cr' = cr
         /\ \E e \in {"terminating", "conflict"} : excuses' = excuses \cup {e}
      \/ /\ cr' = cr \/ (possible /\ cr' = new)
         /\ excuses' = excuses \cup {"fault"}
  BY DEF LastCall, Excuse
<1> QED BY <1>1, <1>2, <1>3, <1>4, <1>5

-----------------------------------------------------------------------------
(* Types, and what a request knows *)

TypeInv == TypeOK /\ KnownInv

\* One request moves.
LEMMA OneJob ==
  ASSUME TypeInv, NEW c \in Clients, job' \in [Clients -> Job],
         \A d \in Clients \ {c} : job'[d] = job[d],
         row' \in Tenant \cup {NoRow}, members' \subseteq Ids \X Users,
         issued \subseteq issued', issued' \subseteq Ids,
         cr' \in CR \cup {NoCR}, current' \subseteq Clients, excuses' \subseteq Excuses,
         sent' \in 0 .. MaxRequests, faults' \in 0 .. MaxFaults,
         current' # {} => cr' # NoCR, row' # NoRow => row'.id \in issued',
         job'[c].step # "idle" => job'[c].id \in issued' /\ job'[c].user \in Users,
         job'[c].step \in Writing => job'[c].mem \in Tenant
                                     /\ job'[c].mem.id = job'[c].id
  PROVE  TypeInv'
<1>1. TypeOK'
  BY DEF TypeInv, TypeOK
<1>2. KnownInv'
  BY DEF TypeInv, KnownInv
<1> QED BY <1>1, <1>2 DEF TypeInv

\* What a request knows of itself, and the types.
LEMMA KnownFacts ==
  ASSUME TypeInv, NEW c \in Clients
  PROVE  /\ TypeOK
         /\ row \in Tenant \cup {NoRow} /\ members \subseteq Ids \X Users
         /\ issued \subseteq Ids /\ cr \in CR \cup {NoCR} /\ current \subseteq Clients
         /\ excuses \subseteq Excuses
         /\ sent \in 0 .. MaxRequests /\ faults \in 0 .. MaxFaults
         /\ current # {} => cr # NoCR
         /\ row # NoRow => row.id \in issued
         /\ job[c].step # "idle" => job[c].id \in issued /\ job[c].user \in Users
         /\ job[c].step \in Writing => job[c].mem \in Tenant
                                       /\ job[c].mem.id = job[c].id
BY DEF TypeInv, TypeOK, KnownInv

\* The excuses one by one.
LEMMA ExcusesAre == {"overlap", "fault", "conflict", "terminating"} = Excuses
BY DEF Excuses

\* A request arrives.
LEMMA StartFacts ==
  ASSUME TypeOK, NEW c \in Clients, Start(c)
  PROVE  /\ job' \in [Clients -> Job]
         /\ \A d \in Clients \ {c} : job'[d] = job[d]
         /\ job[c].step = "idle" /\ UNCHANGED <<row, members, cr, current, faults>>
         /\ sent' \in 0 .. MaxRequests /\ issued \subseteq issued'
         /\ issued' \subseteq Ids /\ job'[c].id \in issued' /\ job'[c].user \in Users
         /\ excuses' \subseteq Excuses /\ excuses \subseteq excuses'
         /\ excuses' = {} => \A d \in Clients : job[d].step = "idle"
         /\ \/ /\ job'[c].step = "insertRow" /\ job'[c].id \notin issued
               /\ job'[c].mem \in Tenant /\ job'[c].mem.id = job'[c].id
            \/ job'[c].step = "access"
<1>0. /\ row \in Tenant \cup {NoRow} /\ issued \subseteq Ids /\ excuses \subseteq Excuses
      /\ sent \in 0 .. MaxRequests /\ job \in [Clients -> Job]
  BY DEF TypeOK
<1>1. /\ job[c].step = "idle" /\ UNCHANGED <<row, members, cr, current, faults>>
      /\ sent' \in 0 .. MaxRequests
  BY <1>0, BoundsAssumption DEF Start
<1>2. /\ excuses' \subseteq Excuses /\ excuses \subseteq excuses'
      /\ excuses' = {} => \A d \in Clients : job[d].step = "idle"
  BY <1>0, ExcusesAre DEF Start
<1>3. PICK u \in Users, p \in Plans :
       \/ \E id \in Ids \ issued :
            /\ issued' = issued \cup {id}
            /\ job' = [job EXCEPT ![c] =
                 [step |-> "insertRow", op |-> "create", user |-> u, id |-> id,
                  plan |-> p, mem |-> [id |-> id, plan |-> p]]]
       \/ \E id \in issued, op \in {"update", "delete"} :
            /\ job' = [job EXCEPT ![c] =
                 [step |-> "access", op |-> op, user |-> u, id |-> id,
                  plan |-> p, mem |-> NoRow]]
            /\ UNCHANGED issued
  BY DEF Start
<1>4. ASSUME NEW id \in Ids \ issued, issued' = issued \cup {id},
             job' = [job EXCEPT ![c] =
                 [step |-> "insertRow", op |-> "create", user |-> u, id |-> id,
                  plan |-> p, mem |-> [id |-> id, plan |-> p]]]
      PROVE  /\ job' \in [Clients -> Job]
             /\ \A d \in Clients \ {c} : job'[d] = job[d]
             /\ issued \subseteq issued' /\ issued' \subseteq Ids
             /\ job'[c].id \in issued'
             /\ job'[c].step = "insertRow" /\ job'[c].id \notin issued
             /\ job'[c].mem \in Tenant /\ job'[c].mem.id = job'[c].id
             /\ job'[c].user \in Users
  <2> DEFINE new == [step |-> "insertRow", op |-> "create", user |-> u, id |-> id,
                     plan |-> p, mem |-> [id |-> id, plan |-> p]]
  <2>1. [id |-> id, plan |-> p] \in Tenant /\ [id |-> id, plan |-> p].id = id
    BY DEF Tenant
  <2>2. /\ new \in Job /\ new.step = "insertRow" /\ new.id = id /\ new.user = u
        /\ new.mem = [id |-> id, plan |-> p]
    BY <2>1 DEF Job, Steps, Ops
  <2> HIDE DEF new
  <2>3. job' = [job EXCEPT ![c] = new]
    BY <1>4 DEF new
  <2> QED BY <1>0, <1>4, <2>1, <2>2, <2>3
<1>5. ASSUME NEW id \in issued, NEW op \in {"update", "delete"}, UNCHANGED issued,
             job' = [job EXCEPT ![c] =
                 [step |-> "access", op |-> op, user |-> u, id |-> id,
                  plan |-> p, mem |-> NoRow]]
      PROVE  /\ job' \in [Clients -> Job]
             /\ \A d \in Clients \ {c} : job'[d] = job[d]
             /\ issued \subseteq issued' /\ issued' \subseteq Ids
             /\ job'[c].id \in issued' /\ job'[c].step = "access"
             /\ job'[c].user \in Users
  <2> DEFINE new == [step |-> "access", op |-> op, user |-> u, id |-> id,
                     plan |-> p, mem |-> NoRow]
  <2>1. new \in Job /\ new.step = "access" /\ new.id = id /\ new.user = u
    BY <1>0, <1>5 DEF Job, Steps, Ops
  <2>2. job' = [job EXCEPT ![c] = new]
    BY <1>5
  <2> HIDE DEF new
  <2> QED BY <1>0, <1>5, <2>1, <2>2
<1> QED BY <1>1, <1>2, <1>3, <1>4, <1>5

\* The access check, and the read after it.
LEMMA AccessFacts ==
  ASSUME TypeOK, NEW c \in Clients, Access(c)
  PROVE  /\ job[c].step = "access" /\ faults' \in 0 .. MaxFaults
         /\ UNCHANGED <<row, members, issued, cr, current, excuses, sent>>
         /\ Ends(c) \/ (HasAccess(c) /\ Moves(c, "read"))
<1>1. GoTo(c, "read") => Moves(c, "read")
  BY GoToFacts, StepsAre
<1> QED BY <1>1, DoneFacts, FaultFacts DEF Access

\* What a request knows after reading the tenant.
LEMMA ReadFacts ==
  ASSUME TypeOK, NEW c \in Clients, Read(c)
  PROVE  /\ job[c].step = "read" /\ faults' \in 0 .. MaxFaults
         /\ UNCHANGED <<row, members, issued, cr, current, excuses, sent>>
         /\ \/ Ends(c)
            \/ Mine(c) /\ Moves(c, "deleteRow")
            \/ /\ Mine(c) /\ Moves(c, "updateRow")
               /\ job'[c].mem \in Tenant /\ job'[c].mem.id = job[c].id
<1>1. CASE Mine(c) /\ job' = [job EXCEPT ![c].mem = row, ![c].step = "deleteRow"]
  <2>1. "deleteRow" \in Steps
    BY StepsAre
  <2>2. Moves(c, "deleteRow")
    BY <1>1, <2>1 DEF TypeOK, Job, Moves
  <2> QED BY <1>1, <2>2, FaultFacts DEF Read
<1>2. CASE Mine(c) /\ job' = [job EXCEPT ![c].mem = [row EXCEPT !.plan = job[c].plan],
                                         ![c].step = "updateRow"]
  <2> DEFINE new == [row EXCEPT !.plan = job[c].plan]
  <2>1. new \in Tenant /\ new.id = job[c].id
    BY <1>2, JobFacts DEF Mine, TypeOK, Tenant
  <2>2. "updateRow" \in Steps
    BY StepsAre
  <2>3. job' = [job EXCEPT ![c].mem = new, ![c].step = "updateRow"]
    BY <1>2
  <2> HIDE DEF new
  <2>4. Moves(c, "updateRow") /\ job'[c].mem = new
    BY <2>1, <2>2, <2>3 DEF TypeOK, Job, Moves
  <2> QED BY <1>2, <2>1, <2>4, FaultFacts DEF Read
<1>3. CASE Done(c)
  BY <1>3, DoneFacts, FaultFacts DEF Read
<1> QED BY <1>1, <1>2, <1>3 DEF Read

\* What a request knows after reading the CR.
LEMMA GetFacts ==
  ASSUME TypeOK, NEW c \in Clients, GetCR(c)
  PROVE  /\ job[c].step = "getCR" /\ faults' \in 0 .. MaxFaults
         /\ UNCHANGED <<row, members, issued, cr, sent>>
         /\ job'[c].mem = job[c].mem
         /\ \/ /\ cr # NoCR /\ Moves(c, "updateCR") /\ current' = current \cup {c}
               /\ excuses' \subseteq Excuses /\ excuses \subseteq excuses'
               /\ excuses' # {} \/ ~cr.deleting
            \/ /\ Moves(c, "createCR") /\ current' = current
               /\ \/ cr = NoCR /\ excuses' = excuses
                  \/ excuses' = excuses \cup {"fault"}
<1>1. /\ GoTo(c, "updateCR") => Moves(c, "updateCR") /\ job'[c].mem = job[c].mem
      /\ GoTo(c, "createCR") => Moves(c, "createCR") /\ job'[c].mem = job[c].mem
  BY GoToFacts, StepsAre
<1>2. excuses' = excuses \cup {e \in {"terminating"} : cr.deleting} =>
        /\ excuses' \subseteq Excuses /\ excuses \subseteq excuses'
        /\ excuses' # {} \/ ~cr.deleting
  BY ExcusesAre DEF TypeOK
<1>3. faults' \in 0 .. MaxFaults
  BY FaultFacts DEF GetCR
<1> QED BY <1>1, <1>2, <1>3 DEF GetCR, Excuse

\* The types hold with an empty database.
LEMMA TypeInit == Init => TypeInv
<1> SUFFICES ASSUME Init PROVE TypeInv
  OBVIOUS
<1>1. job \in [Clients -> Job] /\ \A c \in Clients : job[c].step = "idle"
  BY IdleFacts DEF Init
<1>2. "idle" \notin Writing
  BY DEF Writing
<1>3. TypeOK
  BY <1>1, BoundsAssumption DEF Init, TypeOK
<1>4. KnownInv
  BY <1>1, <1>2 DEF Init, KnownInv
<1> QED BY <1>3, <1>4 DEF TypeInv

\* The contents that the statements ask for.
LEMMA StatementTypes ==
  ASSUME TypeInv, NEW c \in Clients
  PROVE  /\ job[c].step \in Writing => job[c].mem \in Tenant \cup {NoRow}
         /\ NoRow \in Tenant \cup {NoRow}
         /\ Mine(c) /\ job[c].step # "idle" =>
              members \cup {<<job[c].id, job[c].user>>} \subseteq Ids \X Users
         /\ {m \in members : m[1] # job[c].id} \subseteq Ids \X Users
BY KnownFacts, JobFacts, NoneAssumption DEF Mine, Tenant

\* A statement with contents of the right types.
LEMMA StatementType ==
  ASSUME TypeInv, NEW c \in Clients, NEW from, NEW possible, NEW newRow,
         NEW newMembers, NEW next \in Steps \ {"idle"}, from # "idle",
         next \in Writing => from \in Writing,
         Statement(c, from, possible, newRow, newMembers, next),
         possible => newRow \in Tenant \cup {NoRow},
         possible => newRow = NoRow \/ newRow.id \in issued,
         possible => newMembers \subseteq Ids \X Users
  PROVE  TypeInv'
<1>0. "idle" \notin Writing
  BY DEF Writing
<1>1. /\ row' \in Tenant \cup {NoRow} /\ members' \subseteq Ids \X Users
      /\ row' # NoRow => row'.id \in issued
  BY KnownFacts, StatementFacts
<1>2. excuses' \subseteq Excuses
  BY KnownFacts, StatementFacts, ExcusesAre
<1>3. (Moves(c, next) /\ job'[c].mem = job[c].mem) \/ Ends(c)
  BY KnownFacts, StatementFacts
<1>4. /\ job[c].step = from /\ UNCHANGED <<issued, cr, current, sent>>
      /\ faults' \in 0 .. MaxFaults
  BY KnownFacts, StatementFacts
<1>5. CASE Moves(c, next) /\ job'[c].mem = job[c].mem
  BY <1>1, <1>2, <1>4, <1>5, KnownFacts, OneJob DEF Moves
<1>6. CASE Ends(c)
  BY <1>0, <1>1, <1>2, <1>4, <1>6, KnownFacts, OneJob DEF Ends
<1> QED BY <1>3, <1>5, <1>6

\* Every step keeps the types.
LEMMA TypeStep == TypeInv /\ [Next]_vars => TypeInv'
<1>w. /\ {"insertRow", "addMember", "createCR", "updateRow", "getCR", "updateCR"}
           = Writing
      /\ "idle" \notin Writing /\ "read" \notin Writing /\ "deleteRow" \notin Writing
      /\ "deleteCR" \notin Writing /\ "access" \notin Writing
  BY DEF Writing
<1>1. ASSUME TypeInv, NEW c \in Clients, Start(c) PROVE TypeInv'
  <2>1. job'[c].step \in Writing => /\ job'[c].mem \in Tenant
                                    /\ job'[c].mem.id = job'[c].id
    BY <1>1, <1>w, KnownFacts, StartFacts
  <2> QED BY <1>1, <2>1, KnownFacts, StartFacts, OneJob
<1>2. ASSUME TypeInv, NEW c \in Clients, Access(c) PROVE TypeInv'
  BY <1>2, <1>w, KnownFacts, AccessFacts, OneJob DEF Moves, Ends
<1>3. ASSUME TypeInv, NEW c \in Clients, Read(c) PROVE TypeInv'
  BY <1>3, <1>w, KnownFacts, ReadFacts, OneJob DEF Moves, Ends
<1>4. ASSUME TypeInv, NEW c \in Clients, InsertRow(c) PROVE TypeInv'
  <2>1. job[c].mem \in Tenant /\ job[c].mem.id \in issued
    BY <1>4, <1>w, KnownFacts DEF InsertRow, Statement
  <2>2. "addMember" \in Steps \ {"idle"}
    BY StepsAre
  <2> QED BY <1>4, <1>w, <2>1, <2>2, KnownFacts, StatementType DEF InsertRow
<1>5. ASSUME TypeInv, NEW c \in Clients, AddMember(c) PROVE TypeInv'
  <2>1. Mine(c) => members \cup {<<job[c].id, job[c].user>>} \subseteq Ids \X Users
    BY <1>5, StatementTypes DEF AddMember, Statement
  <2>2. "createCR" \in Steps \ {"idle"}
    BY StepsAre
  <2> QED BY <1>5, <1>w, <2>1, <2>2, KnownFacts, StatementType DEF AddMember
<1>6. ASSUME TypeInv, NEW c \in Clients, UpdateRow(c) PROVE TypeInv'
  <2>1. job[c].mem \in Tenant /\ job[c].mem.id \in issued
    BY <1>6, <1>w, KnownFacts DEF UpdateRow, Statement
  <2>2. "getCR" \in Steps \ {"idle"}
    BY StepsAre
  <2> QED BY <1>6, <1>w, <2>1, <2>2, KnownFacts, StatementType DEF UpdateRow
<1>7. ASSUME TypeInv, NEW c \in Clients, DeleteRow(c) PROVE TypeInv'
  <2>1. "deleteCR" \in Steps \ {"idle"}
    BY StepsAre
  <2> QED BY <1>7, <1>w, <2>1, StatementTypes, StatementType DEF DeleteRow
<1>8. ASSUME TypeInv, NEW c \in Clients, GetCR(c) PROVE TypeInv'
  <2>1. excuses' \subseteq Excuses
    BY <1>8, KnownFacts, GetFacts, ExcusesAre
  <2>2. current' \subseteq Clients /\ (current' # {} => cr # NoCR)
    BY <1>8, KnownFacts, GetFacts
  <2>3. job[c].mem \in Tenant /\ job[c].mem.id = job[c].id
    BY <1>8, <1>w, KnownFacts, GetFacts
  <2> QED BY <1>8, <1>w, <2>1, <2>2, <2>3, KnownFacts, GetFacts, OneJob DEF Moves
<1>9. ASSUME TypeInv, NEW c \in Clients, NEW from, NEW possible, NEW new,
             LastCall(c, from, possible, new), possible => new \in CR \cup {NoCR}
      PROVE  TypeInv'
  <2>1. excuses' \subseteq Excuses
    BY <1>9, KnownFacts, LastCallFacts, ExcusesAre
  <2>2. cr' \in CR \cup {NoCR}
    BY <1>9, KnownFacts, LastCallFacts
  <2>3. current' \subseteq Clients /\ (current' # {} => cr' # NoCR)
    BY <1>9, KnownFacts, LastCallFacts
  <2>4. UNCHANGED <<row, members, issued, sent>> /\ faults' \in 0 .. MaxFaults
    BY <1>9, KnownFacts, LastCallFacts
  <2>5. Ends(c)
    BY <1>9, KnownFacts, LastCallFacts
  <2> QED BY <1>9, <1>w, <2>1, <2>2, <2>3, <2>4, <2>5, KnownFacts, OneJob DEF Ends
<1>10. ASSUME TypeInv, NEW c \in Clients, CreateCR(c) PROVE TypeInv'
  <2>1. job[c].mem \in Tenant
    BY <1>10, <1>w, KnownFacts DEF CreateCR, LastCall
  <2>2. buildTenantCR(job[c].mem) \in CR
    BY <2>1 DEF buildTenantCR, Tenant, CR
  <2> QED BY <1>10, <1>9, <2>2 DEF CreateCR
<1>11. ASSUME TypeInv, NEW c \in Clients, UpdateCR(c) PROVE TypeInv'
  <2>1. job[c].mem.plan \in Plans
    BY <1>11, <1>w, KnownFacts DEF UpdateCR, LastCall, Tenant
  <2>2. c \in current => [cr EXCEPT !.plan = job[c].mem.plan] \in CR
    BY <1>11, <2>1, KnownFacts DEF CR
  <2> QED BY <1>11, <1>9, <2>2 DEF UpdateCR
<1>12. ASSUME TypeInv, NEW c \in Clients, DeleteCR(c) PROVE TypeInv'
  <2>1. cr # NoCR => [cr EXCEPT !.deleting = TRUE] \in CR
    BY <1>12, KnownFacts DEF CR
  <2> QED BY <1>12, <1>9, <2>1 DEF DeleteCR
<1>13. ASSUME TypeInv, Restart PROVE TypeInv'
  <2>1. job' \in [Clients -> Job] /\ \A c \in Clients : job'[c].step = "idle"
    BY <1>13, IdleFacts DEF Restart
  <2>2. faults' \in 0 .. MaxFaults /\ excuses' \subseteq Excuses
    BY <1>13, FaultFacts, ExcusesAre DEF TypeInv, TypeOK, Restart, Excuse
  <2>3. TypeOK'
    BY <1>13, <2>1, <2>2 DEF Restart, TypeInv, TypeOK
  <2>4. KnownInv'
    BY <1>13, <1>w, <2>1 DEF Restart, KnownInv, TypeInv
  <2> QED BY <2>3, <2>4 DEF TypeInv
<1>14. ASSUME TypeInv, Reconcile \/ Finish PROVE TypeInv'
  <2>1. cr' \in CR \cup {NoCR}
    <3>1. cr # NoCR => [cr EXCEPT !.finalizer = @ \/ ~cr.deleting] \in CR
      <4>1. cr # NoCR => cr \in CR
        BY <1>14 DEF TypeInv, TypeOK
      <4>2. (cr.finalizer \/ ~cr.deleting) \in BOOLEAN
        BY Zenon
      <4>3. ASSUME cr \in CR, NEW b \in BOOLEAN
            PROVE  [cr EXCEPT !.finalizer = b] \in CR
        BY <4>3 DEF CR
      <4> QED BY <4>1, <4>2, <4>3, Zenon
    <3> QED BY <1>14, <3>1 DEF Reconcile, Finish, OperatorWrites
  <2>2. current' = {} /\ UNCHANGED <<row, members, issued, job, excuses, sent, faults>>
    BY <1>14 DEF Reconcile, Finish, OperatorWrites
  <2>3. TypeOK'
    BY <1>14, <2>1, <2>2 DEF TypeInv, TypeOK
  <2>4. KnownInv'
    BY <1>14, <2>2 DEF TypeInv, KnownInv
  <2> QED BY <2>3, <2>4 DEF TypeInv
<1>15. ASSUME TypeInv, UNCHANGED vars PROVE TypeInv'
  BY <1>15 DEF vars, TypeInv, TypeOK, KnownInv
<1> QED BY <1>1, <1>2, <1>3, <1>4, <1>5, <1>6, <1>7, <1>8, <1>10, <1>11, <1>12,
           <1>13, <1>14, <1>15 DEF Next

\* The variables have their types.
THEOREM TypeCorrect == Spec => []TypeOK
<1>1. TypeInv => TypeOK
  BY DEF TypeInv
<1> QED BY <1>1, TypeInit, TypeStep, PTL DEF Spec

-----------------------------------------------------------------------------
(* Access *)

\* A step that changes no membership.
LEMMA QuietAccess ==
  ASSUME TypeInv, AccessInv, NEW c \in Clients, UNCHANGED <<row, members>>,
         \/ Ends(c)
         \/ HasAccess(c) /\ Moves(c, "read")
         \/ job[c].step \notin {"idle", "access"} /\
              \/ job[c].step = "read" /\ (Moves(c, "updateRow") \/ Moves(c, "deleteRow"))
              \/ Moves(c, "updateCR") \/ Moves(c, "createCR")
  PROVE  AccessInv'
<1>1. AccessEndsWithTenant'
  BY DEF AccessInv, AccessEndsWithTenant
<1>2. \A d \in Clients \ {c} : job'[d] = job[d]
  BY DEF Ends, Moves
<1>3. ASSUME NEW d \in Clients \ {c} PROVE NewInv(d)'
  <2>1. job[d].step \in Creating /\ job[c].id = job[d].id =>
          ~HasAccess(c) /\ job[c].step \in {"idle", "access"}
    BY DEF AccessInv, NewInv, HasAccess
  <2>2. job[d].step \in Creating /\ job'[c].id = job[d].id =>
          job'[c].step \in {"idle", "access"}
    BY <2>1 DEF Ends, Moves
  <2> QED BY <1>2, <2>2 DEF AccessInv, NewInv, Mine
<1>4. NewInv(c)'
  BY DEF NewInv, Ends, Moves, Creating
<1>5. ASSUME NEW d \in Clients \ {c} PROVE PassedInv(d)'
  BY <1>2 DEF AccessInv, PassedInv, Mine, HasAccess
<1>6. PassedInv(c)'
  <2>1. CASE Ends(c) \/ Moves(c, "updateCR") \/ Moves(c, "createCR")
    BY <2>1 DEF PassedInv, Passed, Ends, Moves
  <2>2. CASE HasAccess(c) /\ Moves(c, "read")
    BY <2>2 DEF PassedInv, HasAccess, Moves
  <2>3. CASE /\ job[c].step = "read"
             /\ Moves(c, "updateRow") \/ Moves(c, "deleteRow")
    BY <2>3 DEF AccessInv, PassedInv, Passed, HasAccess, Mine, Moves
  <2> QED BY <2>1, <2>2, <2>3
<1> QED BY <1>1, <1>3, <1>4, <1>5, <1>6 DEF AccessInv

\* A request that starts has not been given access.
LEMMA StartAccess ==
  ASSUME TypeInv, AccessInv, NEW c \in Clients, Start(c)
  PROVE  AccessInv'
<1>0. TypeOK
  BY DEF TypeInv
<1>1. /\ \A d \in Clients \ {c} : job'[d] = job[d]
      /\ UNCHANGED <<row, members>>
      /\ \/ job'[c].step = "insertRow" /\ job'[c].id \notin issued
         \/ job'[c].step = "access"
  BY <1>0, StartFacts
<1>2. AccessEndsWithTenant'
  BY <1>1 DEF AccessInv, AccessEndsWithTenant
<1>3. \A d \in Clients : job[d].step \in Creating => job[d].id \in issued
  BY KnownFacts DEF Creating
<1>4. ASSUME NEW d \in Clients \ {c} PROVE NewInv(d)'
  BY <1>1, <1>3 DEF AccessInv, NewInv, Mine
<1>5. NewInv(c)'
  <2>1. \A m \in members : m[1] \in issued
    BY KnownFacts DEF AccessInv, AccessEndsWithTenant
  <2>2. \A d \in Clients : job[d].step = "idle" \/ job[d].id \in issued
    BY KnownFacts
  <2>3. row # NoRow => row.id \in issued
    BY KnownFacts
  <2> QED BY <1>1, <2>1, <2>2, <2>3 DEF NewInv, Mine, Creating
<1>6. ASSUME NEW d \in Clients PROVE PassedInv(d)'
  BY <1>1 DEF AccessInv, PassedInv, Passed, Mine, HasAccess
<1> QED BY <1>2, <1>4, <1>5, <1>6 DEF AccessInv

\* A statement that changes row or members, after which the request goes on or
\* ends.
LEMMA InsertAccess ==
  ASSUME TypeInv, AccessInv, NEW c \in Clients, job[c].step = "insertRow",
         row = NoRow, row' = job[c].mem, members' = members,
         Moves(c, "addMember") \/ Ends(c)
  PROVE  AccessInv'
<1>1. members = {}
  BY DEF AccessInv, AccessEndsWithTenant
<1>2. row' \in Tenant /\ row'.id = job[c].id
  BY KnownFacts DEF Writing
<1>3. \A d \in Clients \ {c} : /\ job'[d] = job[d]
                               /\ job[d].id = job[c].id =>
                                    job[d].step \in {"idle", "access"}
  BY DEF AccessInv, NewInv, Creating, Ends, Moves
<1>4. ASSUME NEW d \in Clients \ {c} PROVE NewInv(d)' /\ PassedInv(d)'
  <2>1. job[d].step \in Creating \cup Passed => job[d].id # job[c].id
    BY <1>3 DEF Creating, Passed
  <2>2. job[d].step \in Creating \cup Passed => ~Mine(d)'
    BY <1>2, <1>3, <2>1 DEF Mine
  <2>3. job[d].step \in Creating /\ job'[c].id = job[d].id => job'[c].step = "idle"
    BY <2>1 DEF Ends, Moves
  <2> QED BY <1>1, <1>3, <2>2, <2>3 DEF NewInv, PassedInv, AccessInv
<1>5. NewInv(c)' /\ PassedInv(c)'
  BY <1>1, <1>3 DEF NewInv, PassedInv, Creating, Passed, Ends, Moves
<1> QED BY <1>1, <1>4, <1>5 DEF AccessInv, AccessEndsWithTenant

\* Adding the owner gives access to no other tenant.
LEMMA MemberAccess ==
  ASSUME TypeInv, AccessInv, NEW c \in Clients, job[c].step = "addMember",
         Mine(c), row' = row, members' = members \cup {<<job[c].id, job[c].user>>},
         Moves(c, "createCR") \/ Ends(c)
  PROVE  AccessInv'
<1>1. AccessEndsWithTenant'
  BY DEF AccessInv, AccessEndsWithTenant, Mine
<1>2. \A d \in Clients \ {c} : /\ job'[d] = job[d]
                               /\ job[d].id = job[c].id =>
                                    job[d].step \in {"idle", "access"}
  BY DEF AccessInv, NewInv, Creating, Ends, Moves
<1>3. ASSUME NEW d \in Clients \ {c} PROVE NewInv(d)'
  <2>1. job[d].step \in Creating => job[d].id # job[c].id
    BY <1>2 DEF Creating
  <2>2. job[d].step \in Creating /\ job'[c].id = job[d].id => job'[c].step = "idle"
    BY <2>1 DEF Ends, Moves
  <2> QED BY <1>2, <2>1, <2>2 DEF NewInv, AccessInv, Mine
<1>4. ASSUME NEW d \in Clients \ {c} PROVE PassedInv(d)'
  BY <1>2 DEF PassedInv, AccessInv, Mine, HasAccess
<1>5. NewInv(c)' /\ PassedInv(c)'
  BY DEF NewInv, PassedInv, Creating, Passed, Ends, Moves
<1> QED BY <1>1, <1>3, <1>4, <1>5 DEF AccessInv

\* An update of the row changes nobody's access.
LEMMA UpdateAccess ==
  ASSUME TypeInv, AccessInv, NEW c \in Clients, job[c].step = "updateRow",
         Mine(c), row' = job[c].mem, members' = members,
         Moves(c, "getCR") \/ Ends(c)
  PROVE  AccessInv'
<1>1. row' # NoRow /\ row'.id = row.id
  BY KnownFacts, NoneAssumption DEF Writing, Mine
<1>2. AccessEndsWithTenant'
  BY <1>1 DEF AccessInv, AccessEndsWithTenant
<1>3. \A d \in Clients \ {c} : job'[d] = job[d] /\ (Mine(d)' <=> Mine(d))
  BY <1>1 DEF Mine, Ends, Moves
<1>4. ASSUME NEW d \in Clients \ {c} PROVE NewInv(d)' /\ PassedInv(d)'
  <2>1. job[d].step \in Creating => job[d].id # job[c].id
    BY DEF AccessInv, NewInv
  <2>2. job[d].step \in Creating /\ job'[c].id = job[d].id => job'[c].step = "idle"
    BY <2>1 DEF Ends, Moves
  <2>3. HasAccess(d)' <=> HasAccess(d)
    BY <1>3 DEF HasAccess
  <2> QED BY <1>3, <2>2, <2>3 DEF NewInv, PassedInv, AccessInv
<1>5. NewInv(c)' /\ PassedInv(c)'
  BY DEF NewInv, PassedInv, Creating, Passed, Ends, Moves
<1> QED BY <1>2, <1>4, <1>5 DEF AccessInv

\* Deleting the row ends every access to it.
LEMMA DeleteAccess ==
  ASSUME TypeInv, AccessInv, NEW c \in Clients, job[c].step = "deleteRow",
         Mine(c), row' = NoRow, members' = {m \in members : m[1] # job[c].id},
         Moves(c, "deleteCR") \/ Ends(c)
  PROVE  AccessInv'
<1>1. members' = {}
  BY DEF AccessInv, AccessEndsWithTenant, Mine
<1>2. \A d \in Clients : ~Mine(d)'
  BY DEF Mine
<1>3. ASSUME NEW d \in Clients \ {c} PROVE NewInv(d)'
  <2>1. job[d].step \in Creating => job[d].id # job[c].id
    BY DEF AccessInv, NewInv
  <2>2. job[d].step \in Creating /\ job'[c].id = job[d].id => job'[c].step = "idle"
    BY <2>1 DEF Ends, Moves
  <2>3. \A e \in Clients \ {c} : job'[e] = job[e]
    BY DEF Ends, Moves
  <2> QED BY <1>1, <1>2, <2>2, <2>3 DEF NewInv, AccessInv
<1>4. NewInv(c)'
  BY DEF NewInv, Creating, Ends, Moves
<1>5. \A d \in Clients : PassedInv(d)'
  BY <1>2 DEF PassedInv
<1> QED BY <1>1, <1>3, <1>4, <1>5 DEF AccessInv, AccessEndsWithTenant

\* Every step keeps what is known of access.
LEMMA AccessStep == TypeInv /\ AccessInv /\ [Next]_vars => AccessInv'
<1> SUFFICES ASSUME TypeInv, AccessInv, [Next]_vars PROVE AccessInv'
  OBVIOUS
<1>0. TypeOK
  BY DEF TypeInv
<1>s. /\ "addMember" \in Steps /\ "createCR" \in Steps /\ "getCR" \in Steps
      /\ "deleteCR" \in Steps
  BY StepsAre
<1>1. ASSUME NEW c \in Clients, Start(c) PROVE AccessInv'
  BY <1>1, StartAccess
<1>2. ASSUME NEW c \in Clients, Access(c) PROVE AccessInv'
  BY <1>0, <1>2, AccessFacts, QuietAccess
<1>3. ASSUME NEW c \in Clients, Read(c) PROVE AccessInv'
  BY <1>0, <1>3, ReadFacts, QuietAccess
<1>4. ASSUME NEW c \in Clients, InsertRow(c) PROVE AccessInv'
  <2>1. /\ job[c].step = "insertRow"
        /\ \/ UNCHANGED <<row, members>> /\ Ends(c)
           \/ /\ row = NoRow /\ row' = job[c].mem /\ members' = members
              /\ Moves(c, "addMember") \/ Ends(c)
    <3> DEFINE free == row = NoRow
    <3>1. Statement(c, "insertRow", free, job[c].mem, members, "addMember")
      BY <1>4 DEF InsertRow
    <3> HIDE DEF free
    <3>2. /\ job[c].step = "insertRow"
          /\ \/ UNCHANGED <<row, members>> /\ Ends(c)
             \/ /\ free /\ row' = job[c].mem /\ members' = members
                /\ Moves(c, "addMember") \/ Ends(c)
      BY <1>0, <1>s, <3>1, StatementFacts
    <3> QED BY <3>2 DEF free
  <2> QED BY <2>1, QuietAccess, InsertAccess
<1>5. ASSUME NEW c \in Clients, AddMember(c) PROVE AccessInv'
  <2>1. /\ job[c].step = "addMember"
        /\ \/ UNCHANGED <<row, members>> /\ Ends(c)
           \/ /\ Mine(c) /\ row' = row
              /\ members' = members \cup {<<job[c].id, job[c].user>>}
              /\ Moves(c, "createCR") \/ Ends(c)
    BY <1>0, <1>5, <1>s, StatementFacts DEF AddMember
  <2> QED BY <2>1, QuietAccess, MemberAccess
<1>6. ASSUME NEW c \in Clients, UpdateRow(c) PROVE AccessInv'
  <2>1. /\ job[c].step = "updateRow"
        /\ \/ UNCHANGED <<row, members>> /\ Ends(c)
           \/ /\ Mine(c) /\ row' = job[c].mem /\ members' = members
              /\ Moves(c, "getCR") \/ Ends(c)
    BY <1>0, <1>6, <1>s, StatementFacts DEF UpdateRow
  <2> QED BY <2>1, QuietAccess, UpdateAccess
<1>7. ASSUME NEW c \in Clients, DeleteRow(c) PROVE AccessInv'
  <2>1. /\ job[c].step = "deleteRow"
        /\ \/ UNCHANGED <<row, members>> /\ Ends(c)
           \/ /\ Mine(c) /\ row' = NoRow
              /\ members' = {m \in members : m[1] # job[c].id}
              /\ Moves(c, "deleteCR") \/ Ends(c)
    BY <1>0, <1>7, <1>s, StatementFacts DEF DeleteRow
  <2> QED BY <2>1, QuietAccess, DeleteAccess
<1>8. ASSUME NEW c \in Clients, GetCR(c) PROVE AccessInv'
  BY <1>0, <1>8, GetFacts, QuietAccess
<1>9. ASSUME NEW c \in Clients, CreateCR(c) \/ UpdateCR(c) \/ DeleteCR(c)
      PROVE  AccessInv'
  <2>1. UNCHANGED <<row, members>> /\ Ends(c)
    BY <1>0, <1>9, LastCallFacts DEF CreateCR, UpdateCR, DeleteCR
  <2> QED BY <2>1, QuietAccess
<1>10. CASE Restart
  <2>1. UNCHANGED <<row, members>> /\ \A c \in Clients : job'[c].step = "idle"
    BY <1>10, IdleFacts DEF Restart
  <2> QED BY <2>1 DEF AccessInv, AccessEndsWithTenant, NewInv, PassedInv, Creating,
             Passed
<1>11. CASE Reconcile \/ Finish \/ UNCHANGED vars
  <2>1. UNCHANGED <<row, members, job>>
    BY <1>11 DEF Reconcile, Finish, OperatorWrites, vars
  <2> QED BY <2>1 DEF AccessInv, AccessEndsWithTenant, NewInv, PassedInv, Mine,
             HasAccess
<1> QED BY <1>1, <1>2, <1>3, <1>4, <1>5, <1>6, <1>7, <1>8, <1>9, <1>10, <1>11
        DEF Next

-----------------------------------------------------------------------------
(* Row, owner and CR agree *)

\* The step of one request, when nothing has parted them yet.
LEMMA SyncOne ==
  ASSUME SyncInv, excuses = {}, NEW c \in Clients, job[c].step # "idle" \/ Quiet,
         \A d \in Clients \ {c} : job'[d] = job[d],
         job'[c].step # "idle" => StepInv(c)',
         job'[c].step = "idle" => InSync'
  PROVE  SyncInv'
<1>1. \A d \in Clients \ {c} : job'[d].step = "idle"
  BY DEF SyncInv, Quiet
<1>2. ASSUME NEW d \in Clients, job'[d].step # "idle" PROVE StepInv(d)'
  BY <1>1, <1>2
<1>3. Quiet' => InSync'
  BY DEF Quiet
<1> QED BY <1>1, <1>2, <1>3 DEF SyncInv

\* What depends only on row, owner and CR stays with them.
LEMMA SameSync ==
  ASSUME UNCHANGED <<row, members, cr>>
  PROVE  /\ InSync' <=> InSync
         /\ Owned' <=> Owned
         /\ Gone' <=> Gone
BY DEF InSync, Owned, Gone

\* A request that starts alone finds everything in agreement.
LEMMA StartSync == ASSUME TypeInv, SyncInv, NEW c \in Clients, Start(c) PROVE SyncInv'
<1>0. TypeOK
  BY DEF TypeInv
<1> SUFFICES ASSUME excuses' = {} PROVE SyncInv'
  BY DEF SyncInv
<1>1. /\ \A d \in Clients \ {c} : job'[d] = job[d]
      /\ UNCHANGED <<row, members, cr>> /\ excuses = {} /\ Quiet
      /\ job'[c].step \in {"insertRow", "access"}
  BY <1>0, StartFacts DEF Quiet
<1>2. InSync'
  BY <1>1, SameSync DEF SyncInv
<1>3. StepInv(c)'
  BY <1>1, <1>2 DEF StepInv
<1> QED BY <1>1, <1>2, <1>3, SyncOne

\* What holds for a request that moves.
LEMMA MoverSync ==
  ASSUME SyncInv, excuses = {}, NEW c \in Clients, job[c].step # "idle"
  PROVE  StepInv(c)
BY DEF SyncInv

\* The access check, and the read after it, part nothing.
LEMMA AccessSync ==
  ASSUME TypeInv, SyncInv, NEW c \in Clients, Access(c) \/ Read(c) PROVE SyncInv'
<1>0. TypeOK
  BY DEF TypeInv
<1> SUFFICES ASSUME excuses' = {} PROVE SyncInv'
  BY DEF SyncInv
<1>1. /\ job[c].step \in {"access", "read"} /\ excuses = {}
      /\ UNCHANGED <<row, members, cr>>
      /\ \/ Ends(c) \/ Moves(c, "read")
         \/ Mine(c) /\ (Moves(c, "updateRow") \/ Moves(c, "deleteRow"))
  BY <1>0, AccessFacts, ReadFacts
<1>2. InSync'
  BY <1>1, SameSync, MoverSync DEF StepInv
<1>3. job'[c].step # "idle" => StepInv(c)'
  BY <1>1, <1>2 DEF StepInv, Ends, Moves, Mine
<1>4. \A d \in Clients \ {c} : job'[d] = job[d]
  BY <1>1 DEF Ends, Moves
<1> QED BY <1>1, <1>2, <1>3, <1>4, SyncOne

\* A statement on the database puts the row one call ahead of the rest.
LEMMA StatementSync ==
  ASSUME TypeInv, SyncInv, NEW c \in Clients,
         InsertRow(c) \/ AddMember(c) \/ UpdateRow(c) \/ DeleteRow(c)
  PROVE  SyncInv'
<1>0. TypeOK
  BY DEF TypeInv
<1>s. /\ "addMember" \in Steps /\ "createCR" \in Steps /\ "getCR" \in Steps
      /\ "deleteCR" \in Steps
  BY StepsAre
<1> SUFFICES ASSUME excuses' = {} PROVE SyncInv'
  BY DEF SyncInv
<1>1. ASSUME NEW d \in Clients, job[d].step # "idle", excuses = {}, Ends(d),
             StepInv(d), UNCHANGED <<row, members, cr>>,
             job[d].step \in {"insertRow", "updateRow", "deleteRow"}
      PROVE  SyncInv'
  BY <1>1, SameSync, SyncOne DEF StepInv, Ends
<1>2. CASE InsertRow(c)
  <2>1. /\ job[c].step = "insertRow" /\ excuses = {} /\ cr' = cr
        /\ \/ UNCHANGED <<row, members>> /\ Ends(c)
           \/ /\ row = NoRow /\ row' = job[c].mem /\ job'[c].mem = job[c].mem
              /\ Moves(c, "addMember")
    <3>1. Statement(c, "insertRow", row = NoRow, job[c].mem, members, "addMember")
      BY <1>2 DEF InsertRow
    <3>2. excuses' # excuses \cup {"fault"}
      OBVIOUS
    <3> QED BY <1>0, <1>s, <3>1, <3>2, StatementFacts
  <2>2. CASE UNCHANGED <<row, members>> /\ Ends(c)
    BY <1>1, <2>1, <2>2, MoverSync
  <2>3. CASE row = NoRow /\ row' = job[c].mem /\ job'[c].mem = job[c].mem
             /\ Moves(c, "addMember")
    <3>1. row' # NoRow
      BY <2>1, <2>3, KnownFacts, NoneAssumption DEF Writing
    <3>2. Gone
      BY <2>1, <2>3, MoverSync DEF StepInv, InSync, Gone
    <3>3. StepInv(c)'
      BY <2>1, <2>3, <3>1, <3>2 DEF StepInv, Copied, Gone, Moves
    <3> QED BY <2>1, <2>3, <3>3, SyncOne DEF Moves
  <2> QED BY <2>1, <2>2, <2>3
<1>3. CASE AddMember(c)
  <2>1. /\ job[c].step = "addMember" /\ excuses = {} /\ cr' = cr
        /\ \/ ~Mine(c)
           \/ /\ row' = row /\ job'[c].mem = job[c].mem /\ Moves(c, "createCR")
              /\ members' = members \cup {<<job[c].id, job[c].user>>}
    BY <1>0, <1>3, <1>s, StatementFacts DEF AddMember
  <2>2. Copied(c) /\ Gone /\ row.id = job[c].id /\ job[c].user \in Users
    BY <2>1, MoverSync, KnownFacts DEF StepInv, Copied, Writing
  <2>3. Mine(c)
    BY <2>2 DEF Mine, Copied
  <2>4. Owned'
    BY <2>1, <2>2, <2>3 DEF Owned
  <2>5. StepInv(c)'
    BY <2>1, <2>2, <2>3, <2>4 DEF StepInv, Copied, Gone, Moves
  <2> QED BY <2>1, <2>3, <2>5, SyncOne DEF Moves
<1>4. CASE UpdateRow(c)
  <2>1. /\ job[c].step = "updateRow" /\ excuses = {} /\ cr' = cr
        /\ \/ UNCHANGED <<row, members>> /\ Ends(c)
           \/ /\ Mine(c) /\ row' = job[c].mem /\ job'[c].mem = job[c].mem
              /\ Moves(c, "getCR") /\ members' = members
    BY <1>0, <1>4, <1>s, StatementFacts DEF UpdateRow
  <2>2. CASE UNCHANGED <<row, members>> /\ Ends(c)
    BY <1>1, <2>1, <2>2, MoverSync
  <2>3. CASE /\ Mine(c) /\ row' = job[c].mem /\ job'[c].mem = job[c].mem
             /\ Moves(c, "getCR") /\ members' = members
    <3>1. row' # NoRow /\ row'.id = row.id /\ row # NoRow
      BY <2>1, <2>3, KnownFacts, NoneAssumption DEF Writing, Mine
    <3>2. Owned /\ ~Gone /\ cr.tenantId = row.id
      BY <2>1, <3>1, MoverSync DEF StepInv, InSync, Gone
    <3>3. Owned'
      BY <2>3, <3>1, <3>2 DEF Owned
    <3>4. StepInv(c)'
      BY <2>1, <2>3, <3>1, <3>2, <3>3 DEF StepInv, Copied, Gone, Moves
    <3> QED BY <2>1, <2>3, <3>4, SyncOne DEF Moves
  <2> QED BY <2>1, <2>2, <2>3
<1>5. CASE DeleteRow(c)
  <2>1. /\ job[c].step = "deleteRow" /\ excuses = {} /\ cr' = cr
        /\ \/ UNCHANGED <<row, members>> /\ Ends(c)
           \/ row' = NoRow /\ Moves(c, "deleteCR")
    BY <1>0, <1>5, <1>s, StatementFacts DEF DeleteRow
  <2>2. CASE UNCHANGED <<row, members>> /\ Ends(c)
    BY <1>1, <2>1, <2>2, MoverSync
  <2>3. CASE row' = NoRow /\ Moves(c, "deleteCR")
    <3>1. StepInv(c)'
      BY <2>1, <2>3 DEF StepInv, Moves
    <3> QED BY <2>1, <2>3, <3>1, SyncOne DEF Moves
  <2> QED BY <2>1, <2>2, <2>3
<1> QED BY <1>2, <1>3, <1>4, <1>5

\* The call on the CR brings it level with the row.
LEMMA CRSync ==
  ASSUME TypeInv, SyncInv, NEW c \in Clients,
         GetCR(c) \/ CreateCR(c) \/ UpdateCR(c) \/ DeleteCR(c)
  PROVE  SyncInv'
<1>0. TypeOK
  BY DEF TypeInv
<1> SUFFICES ASSUME excuses' = {} PROVE SyncInv'
  BY DEF SyncInv
<1>1. CASE GetCR(c)
  <2>1. /\ job[c].step = "getCR" /\ excuses = {} /\ UNCHANGED <<row, members, cr>>
        /\ job'[c].mem = job[c].mem
        /\ Moves(c, "updateCR") \/ cr = NoCR
    BY <1>0, <1>1, GetFacts
  <2>2. StepInv(c)
    BY <2>1, MoverSync
  <2>3. Moves(c, "updateCR") /\ Copied(c)' /\ Owned' /\ ~Gone' /\ cr'.tenantId = row'.id
    BY <2>1, <2>2, SameSync DEF StepInv, Copied, Gone
  <2>4. StepInv(c)'
    BY <2>3 DEF StepInv, Moves
  <2> QED BY <2>1, <2>3, <2>4, SyncOne DEF Moves
<1>2. CASE CreateCR(c)
  <2>1. /\ job[c].step = "createCR" /\ excuses = {} /\ UNCHANGED <<row, members>>
        /\ Ends(c) /\ cr' = buildTenantCR(job[c].mem)
    <3>1. LastCall(c, "createCR", cr = NoCR, buildTenantCR(job[c].mem))
      BY <1>2 DEF CreateCR
    <3> QED BY <1>0, <3>1, LastCallFacts
  <2>2. Copied(c) /\ Owned
    BY <2>1, MoverSync DEF StepInv
  <2>3. InSync'
    <3>1. /\ cr' \in CR /\ ~cr'.deleting /\ cr'.plan = row'.plan
          /\ cr'.tenantId = row'.id
      BY <2>1, <2>2, KnownFacts DEF buildTenantCR, Copied, Writing, Tenant, CR
    <3>2. Owned' /\ row' # NoRow
      BY <2>1, <2>2 DEF Owned, Copied
    <3> QED BY <3>1, <3>2, NoneAssumption DEF InSync
  <2> QED BY <2>1, <2>3, SyncOne DEF Ends
<1>3. CASE UpdateCR(c)
  <2>1. /\ job[c].step = "updateCR" /\ excuses = {} /\ UNCHANGED <<row, members>>
        /\ Ends(c) /\ cr' = [cr EXCEPT !.plan = job[c].mem.plan]
    <3>1. LastCall(c, "updateCR", c \in current,
                   [cr EXCEPT !.plan = job[c].mem.plan])
      BY <1>3 DEF UpdateCR
    <3> QED BY <1>0, <3>1, LastCallFacts
  <2>2. Copied(c) /\ Owned /\ ~Gone /\ cr.tenantId = row.id
    BY <2>1, MoverSync DEF StepInv
  <2>3. InSync'
    <3>0. cr \in CR /\ ~cr.deleting /\ job[c].mem.plan \in Plans
      BY <2>1, <2>2, KnownFacts DEF Gone, Writing, Tenant
    <3>1. /\ cr' \in CR /\ ~cr'.deleting /\ cr'.plan = row'.plan
          /\ cr'.tenantId = row'.id
      BY <2>1, <2>2, <3>0 DEF Copied, CR
    <3>2. Owned' /\ row' # NoRow
      BY <2>1, <2>2 DEF Owned, Copied
    <3> QED BY <3>1, <3>2, NoneAssumption DEF InSync
  <2> QED BY <2>1, <2>3, SyncOne DEF Ends
<1>4. CASE DeleteCR(c)
  <2>1. /\ job[c].step = "deleteCR" /\ excuses = {} /\ row' = row
        /\ Ends(c)
        /\ cr' = IF cr # NoCR /\ cr.finalizer THEN [cr EXCEPT !.deleting = TRUE]
                                              ELSE NoCR
    BY <1>0, <1>4, LastCallFacts DEF DeleteCR
  <2>2. row' = NoRow
    BY <2>1, MoverSync DEF StepInv
  <2>3. cr' = NoCR \/ cr'.deleting
    BY <2>1, KnownFacts DEF CR
  <2> QED BY <2>1, <2>2, <2>3, SyncOne DEF Ends, InSync
<1> QED BY <1>1, <1>2, <1>3, <1>4

\* The operator parts nothing: it writes the status and the finalizer, and removes
\* a CR only that terminates.
LEMMA OperatorSync ==
  ASSUME TypeInv, SyncInv, Reconcile \/ Finish
  PROVE  SyncInv'
<1>1. UNCHANGED <<row, members, job, excuses>>
  BY DEF Reconcile, Finish, OperatorWrites
<1>2. /\ cr # NoCR /\ cr \in CR
      /\ \/ cr' = NoCR /\ cr.deleting
         \/ /\ cr' \in CR /\ cr'.deleting = cr.deleting
            /\ cr'.plan = cr.plan /\ cr'.tenantId = cr.tenantId
  <2>1. cr # NoCR /\ cr \in CR
    BY DEF Reconcile, Finish, OperatorWrites, TypeInv, TypeOK
  <2>2. CASE Finish
    BY <2>1, <2>2 DEF Finish, OperatorWrites
  <2>3. CASE Reconcile
    <3>1. PICK b \in BOOLEAN : cr' = [cr EXCEPT !.finalizer = b]
      <4>1. (cr.finalizer \/ ~cr.deleting) \in BOOLEAN
        BY Zenon
      <4>2. cr' = [cr EXCEPT !.finalizer = cr.finalizer \/ ~cr.deleting]
        BY <2>3 DEF Reconcile, OperatorWrites
      <4> QED BY <4>1, <4>2, Zenon
    <3> QED BY <2>1, <3>1 DEF CR
  <2> QED BY <2>1, <2>2, <2>3
<1>3. (InSync => InSync') /\ (Gone => Gone') /\ (Owned => Owned')
      /\ (~Gone => ~Gone' /\ cr'.tenantId = cr.tenantId)
  BY <1>1, <1>2, NoneAssumption DEF InSync, Gone, Owned
<1>4. \A c \in Clients : StepInv(c) => StepInv(c)'
  BY <1>1, <1>3 DEF StepInv, Mine, Copied
<1> QED BY <1>1, <1>3, <1>4 DEF SyncInv, Quiet

\* Every step keeps row, owner and CR together, or records why not.
LEMMA SyncStep == TypeInv /\ SyncInv /\ [Next]_vars => SyncInv'
<1>1. ASSUME Restart PROVE SyncInv'
  BY <1>1 DEF Restart, Excuse, SyncInv
<1>2. ASSUME SyncInv, UNCHANGED vars PROVE SyncInv'
  <2>1. UNCHANGED <<row, members, cr, job, excuses>>
    BY <1>2 DEF vars
  <2>2. \A c \in Clients : StepInv(c) => StepInv(c)'
    BY <2>1, SameSync DEF StepInv, Mine, Copied
  <2> QED BY <1>2, <2>1, <2>2, SameSync DEF SyncInv, Quiet
<1> QED BY <1>1, <1>2, StartSync, AccessSync, StatementSync, CRSync, OperatorSync
        DEF Next

-----------------------------------------------------------------------------
(* The theorems *)

\* The inductive invariant holds at first.
LEMMA IInvInit == Init => IInv
<1> SUFFICES ASSUME Init PROVE IInv
  OBVIOUS
<1>1. \A c \in Clients : job[c].step = "idle"
  BY IdleFacts DEF Init
<1>2. AccessInv
  BY <1>1 DEF Init, AccessInv, AccessEndsWithTenant, NewInv, PassedInv, Creating,
     Passed
<1>3. SyncInv
  BY <1>1 DEF Init, SyncInv, InSync
<1> QED BY <1>2, <1>3, TypeInit DEF IInv, TypeInv

\* Every step keeps the inductive invariant.
LEMMA IInvStep == IInv /\ [Next]_vars => IInv'
BY TypeStep, AccessStep, SyncStep DEF IInv, TypeInv

\* What every request knows, who has access, and which parts agree at which step.
THEOREM Invariance == Spec => []IInv
<1> QED BY IInvInit, IInvStep, PTL DEF Spec

\* A tenant has an owner and a CR of its own that shows its row, or nothing,
\* unless requests overlapped, a call failed, or the operator was in between.
THEOREM InSyncUnlessExcusedSafe == Spec => []InSyncUnlessExcused
<1>1. IInv => InSyncUnlessExcused
  BY DEF IInv, SyncInv, InSyncUnlessExcused
<1> QED BY <1>1, Invariance, PTL

\* No access outlives its tenant, whatever overlaps with the deletion.
THEOREM AccessEndsWithTenantSafe == Spec => []AccessEndsWithTenant
<1>1. IInv => AccessEndsWithTenant
  BY DEF IInv, AccessInv
<1> QED BY <1>1, Invariance, PTL

\* The request that changes a row has passed the access check, for that row.
LEMMA ChangeStep ==
  ASSUME IInv, Next, NEW c \in Clients, row # NoRow, row' # row, job'[c] # job[c]
  PROVE  <<row.id, job[c].user>> \in members
<1>0. TypeInv /\ TypeOK /\ AccessInv
  BY DEF IInv, TypeInv
<1>s. "addMember" \in Steps /\ "getCR" \in Steps /\ "deleteCR" \in Steps
      /\ "createCR" \in Steps
  BY StepsAre
<1>1. PICK d \in Clients : InsertRow(d) \/ AddMember(d) \/ UpdateRow(d) \/ DeleteRow(d)
  BY DEF Next, Restart, Reconcile, Finish, OperatorWrites, Start, Access, Read,
     GetCR, CreateCR, UpdateCR, DeleteCR, LastCall
<1>2. ~InsertRow(d)
  BY <1>0, <1>s, StatementFacts DEF InsertRow
<1>3. ~AddMember(d)
  BY <1>0, <1>s, StatementFacts DEF AddMember
<1>4. Mine(d) /\ job[d].step \in Passed /\ (Ends(d) \/ \E s \in Steps : Moves(d, s))
  <2>1. CASE UpdateRow(d)
    BY <1>0, <1>s, <2>1, StatementFacts DEF UpdateRow, Passed
  <2>2. CASE DeleteRow(d)
    BY <1>0, <1>s, <2>2, StatementFacts DEF DeleteRow, Passed
  <2> QED BY <1>1, <1>2, <1>3, <2>1, <2>2
<1>5. c = d
  BY <1>4 DEF Ends, Moves
<1> QED BY <1>0, <1>4, <1>5 DEF AccessInv, PassedInv, Mine, HasAccess

\* A tenant is changed and deleted by its members only.
THEOREM ChangedByMembersSafe == Spec => ChangedByMembers
<1>1. IInv /\ [Next]_vars =>
        [\A c \in Clients :
           row # NoRow /\ row' # row /\ job'[c] # job[c] =>
             <<row.id, job[c].user>> \in members]_vars
  BY ChangeStep
<1> QED BY <1>1, Invariance, PTL DEF Spec, ChangedByMembers

-----------------------------------------------------------------------------
(* The requests keep the contract of CustomResource *)

\* A CR is only terminating while its finalizer holds it.
FinalizerInv == cr # NoCR /\ cr.deleting => cr.finalizer

SpecOf == IF cr = NoCR THEN NoCR ELSE cr.plan

\* The calls that write the CR.
CRCall(c) == CreateCR(c) \/ UpdateCR(c) \/ DeleteCR(c)

\* What a call can do to the CR: create it, give it a spec, or delete it, at once
\* or when its finalizer lets it go.
LEMMA CRChange ==
  ASSUME TypeInv, NEW c \in Clients, CRCall(c), cr' # cr
  PROVE  /\ job' # job
         /\ \/ /\ cr = NoCR /\ cr' \in CR /\ ~cr'.finalizer /\ ~cr'.deleting
            \/ /\ cr \in CR /\ cr' \in CR
               /\ cr'.finalizer = cr.finalizer /\ cr'.deleting = cr.deleting
            \/ /\ cr \in CR /\ cr.finalizer /\ ~cr.deleting
               /\ cr' \in CR /\ cr'.finalizer /\ cr'.deleting
               /\ cr'.plan = cr.plan
            \/ cr \in CR /\ ~cr.finalizer /\ cr' = NoCR
<1>1. /\ cr \in CR \cup {NoCR} /\ (current # {} => cr # NoCR)
      /\ job[c].step \in {"createCR", "updateCR"} => job[c].mem \in Tenant
  BY KnownFacts DEF Writing
<1>2. job' # job
  <2>1. job[c].step # "idle" /\ Done(c)
    BY DEF CRCall, CreateCR, UpdateCR, DeleteCR, LastCall
  <2>2. job'[c].step = "idle"
    BY <2>1, DoneFacts DEF TypeInv, Ends
  <2> QED BY <2>1, <2>2
<1>3. CASE CreateCR(c)
  <2>1. cr = NoCR /\ cr' = buildTenantCR(job[c].mem) /\ job[c].mem \in Tenant
    BY <1>1, <1>3 DEF CreateCR, LastCall
  <2>2. \A t \in Tenant : /\ buildTenantCR(t) \in CR /\ ~buildTenantCR(t).finalizer
                         /\ ~buildTenantCR(t).deleting
    BY DEF buildTenantCR, Tenant, CR
  <2> QED BY <1>2, <2>1, <2>2
<1>4. CASE UpdateCR(c)
  <2>1. /\ c \in current /\ cr' = [cr EXCEPT !.plan = job[c].mem.plan]
        /\ job[c].mem \in Tenant
    BY <1>1, <1>4 DEF UpdateCR, LastCall
  <2>2. cr \in CR /\ job[c].mem.plan \in Plans
    BY <1>1, <2>1 DEF Tenant
  <2>3. cr' \in CR /\ cr'.finalizer = cr.finalizer /\ cr'.deleting = cr.deleting
    BY <2>1, <2>2 DEF CR
  <2> QED BY <1>2, <2>2, <2>3
<1>5. CASE DeleteCR(c)
  <2>1. cr' = IF cr # NoCR /\ cr.finalizer THEN [cr EXCEPT !.deleting = TRUE]
              ELSE NoCR
    BY <1>5 DEF DeleteCR, LastCall
  <2>2. cr \in CR
    BY <1>1, <2>1
  <2>3. CASE cr.finalizer
    <3>1. cr' = [cr EXCEPT !.deleting = TRUE]
      BY <2>1, <2>2, <2>3, NoneAssumption
    <3>2. ~cr.deleting
      BY <2>2, <3>1 DEF CR
    <3>3. cr' \in CR /\ cr'.finalizer /\ cr'.deleting /\ cr'.plan = cr.plan
      BY <2>2, <2>3, <3>1 DEF CR
    <3> QED BY <1>2, <2>2, <2>3, <3>2, <3>3
  <2>4. CASE ~cr.finalizer
    BY <1>2, <2>1, <2>2, <2>4
  <2> QED BY <2>3, <2>4
<1> QED BY <1>3, <1>4, <1>5 DEF CRCall

\* What the operator does to it, as it is modelled here.
LEMMA OperatorChange ==
  ASSUME TypeInv, FinalizerInv, Reconcile \/ Finish
  PROVE  /\ job' = job /\ cr \in CR
         /\ \/ cr' = cr
            \/ /\ ~cr.finalizer /\ ~cr.deleting
               /\ cr' \in CR /\ cr'.finalizer /\ ~cr'.deleting
               /\ cr'.plan = cr.plan
            \/ cr.finalizer /\ cr.deleting /\ cr' = NoCR
<1>0. cr \in CR
  BY DEF TypeInv, TypeOK, Reconcile, Finish, OperatorWrites
<1>1. CASE Reconcile
  <2>1. job' = job /\ cr' = [cr EXCEPT !.finalizer = @ \/ ~cr.deleting]
    BY <1>1 DEF Reconcile, OperatorWrites
  <2>2. CASE cr.finalizer \/ cr.deleting
    <3>1. cr.finalizer
      BY <1>0, <2>2, NoneAssumption DEF FinalizerInv
    <3>2. cr' = [cr EXCEPT !.finalizer = TRUE]
      BY <1>0, <2>1, <3>1 DEF CR
    <3>3. cr' = cr
      BY <1>0, <3>1, <3>2 DEF CR
    <3> QED BY <1>0, <2>1, <3>3
  <2>3. CASE ~cr.finalizer /\ ~cr.deleting
    <3>1. cr' = [cr EXCEPT !.finalizer = TRUE]
      BY <1>0, <2>1, <2>3 DEF CR
    <3>2. cr' \in CR /\ cr'.finalizer /\ ~cr'.deleting /\ cr'.plan = cr.plan
      BY <1>0, <2>3, <3>1 DEF CR
    <3> QED BY <1>0, <2>1, <2>3, <3>2
  <2> QED BY <2>2, <2>3
<1>2. CASE Finish
  BY <1>0, <1>2, NoneAssumption DEF Finish, OperatorWrites, FinalizerInv
<1> QED BY <1>1, <1>2

\* Nothing else touches the CR.
LEMMA CRUnchanged ==
  ASSUME [Next]_vars, cr' # cr
  PROVE  (\E c \in Clients : CRCall(c)) \/ Reconcile \/ Finish
BY DEF Next, CRCall, Start, Access, Read, InsertRow, AddMember, UpdateRow, DeleteRow,
       Statement, GetCR, Restart, vars

\* No request leaves a terminating CR that nothing holds.
LEMMA FinalizerStep ==
  ASSUME TypeInv, FinalizerInv, [Next]_vars
  PROVE  FinalizerInv'
<1>1. CASE cr' = cr
  BY <1>1 DEF FinalizerInv
<1>2. ASSUME NEW c \in Clients, CRCall(c), cr' # cr PROVE FinalizerInv'
  BY <1>2, CRChange, NoneAssumption DEF FinalizerInv
<1>3. CASE Reconcile \/ Finish
  BY <1>3, OperatorChange DEF FinalizerInv
<1> QED BY <1>1, <1>2, <1>3, CRUnchanged

\* A step of the contract, said of the one CR.
LEMMA ContractMove ==
  ASSUME NEW from, NEW to, StageOf = from, StageOf' = to
  PROVE  /\ Contract!Move("tenant", from, to)
         /\ SpecOf' = SpecOf =>
              UNCHANGED [o \in {"tenant"} |-> IF cr = NoCR THEN NoCR ELSE cr.plan]
         /\ \A s : SpecOf' = s => Contract!Ask("tenant", s)
         /\ from = to => UNCHANGED [o \in {"tenant"} |-> StageOf]
BY DEF Contract!Move, Contract!Ask, SpecOf

\* A request's change of the CR is a client's.
LEMMA RequestKeeps ==
  ASSUME TypeInv, NEW c \in Clients, CRCall(c), cr' # cr
  PROVE  Contract!ClientStep("tenant")
<1>0. \A r \in CR : r # NoCR /\ r.plan \in Plans
  BY NoneAssumption DEF CR
<1>1. CASE cr = NoCR /\ cr' \in CR /\ ~cr'.finalizer /\ ~cr'.deleting
  <2>1. PICK s \in Plans : SpecOf' = s
    BY <1>0, <1>1 DEF SpecOf
  <2>2. StageOf = "none" /\ StageOf' = "open"
    BY <1>0, <1>1 DEF StageOf
  <2> QED BY <2>1, <2>2, ContractMove DEF Contract!ClientStep, Contract!Create
<1>2. CASE /\ cr \in CR /\ cr' \in CR
           /\ cr'.finalizer = cr.finalizer /\ cr'.deleting = cr.deleting
  <2>1. PICK s \in Plans : SpecOf' = s
    BY <1>0, <1>2 DEF SpecOf
  <2>2. StageOf' = StageOf /\ StageOf # "none"
    BY <1>0, <1>2 DEF StageOf
  <2>3. PICK t : StageOf = t /\ StageOf' = t
    BY <2>2
  <2>4. Contract!Ask("tenant", s) /\ UNCHANGED [o \in {"tenant"} |-> StageOf]
    BY <2>1, <2>3, ContractMove
  <2> QED BY <2>2, <2>4 DEF Contract!ClientStep, Contract!Edit
<1>3. CASE /\ cr \in CR /\ cr.finalizer /\ ~cr.deleting
           /\ cr' \in CR /\ cr'.finalizer /\ cr'.deleting /\ cr'.plan = cr.plan
  <2>1. StageOf = "guarded" /\ StageOf' = "closing" /\ SpecOf' = SpecOf
    BY <1>0, <1>3 DEF StageOf, SpecOf
  <2> QED BY <2>1, ContractMove DEF Contract!ClientStep, Contract!Delete
<1>4. CASE cr \in CR /\ ~cr.finalizer /\ cr' = NoCR
  <2>1. StageOf = "open" /\ StageOf' = "none" /\ SpecOf' = NoCR
    BY <1>0, <1>4 DEF StageOf, SpecOf
  <2> QED BY <2>1, ContractMove DEF Contract!ClientStep, Contract!Delete
<1> QED BY <1>1, <1>2, <1>3, <1>4, CRChange

\* The operator's is one of its own.
LEMMA OperatorKeeps ==
  ASSUME TypeInv, FinalizerInv, Reconcile \/ Finish, cr' # cr
  PROVE  Contract!OperatorStep("tenant")
<1>0. \A r \in CR : r # NoCR
  BY NoneAssumption
<1>1. CASE /\ cr \in CR /\ ~cr.finalizer /\ ~cr.deleting
           /\ cr' \in CR /\ cr'.finalizer /\ ~cr'.deleting /\ cr'.plan = cr.plan
  <2>1. StageOf = "open" /\ StageOf' = "guarded" /\ SpecOf' = SpecOf
    BY <1>0, <1>1 DEF StageOf, SpecOf
  <2> QED BY <2>1, ContractMove DEF Contract!OperatorStep, Contract!Guard
<1>2. CASE cr \in CR /\ cr.finalizer /\ cr.deleting /\ cr' = NoCR
  <2>1. StageOf = "closing" /\ StageOf' = "none" /\ SpecOf' = NoCR
    BY <1>0, <1>2 DEF StageOf, SpecOf
  <2> QED BY <2>1, ContractMove DEF Contract!OperatorStep, Contract!Finish
<1> QED BY <1>1, <1>2, OperatorChange

\* Whatever requests overlap, fail or are cut short, to the CR they do what the
\* operator's model lets clients do, and what they count on from the operator is
\* what it does.
THEOREM KeepsContractSafe == Spec => KeepsContract
<1> DEFINE Keeps == IF job' # job THEN Contract!ClientStep("tenant")
                   ELSE Contract!OperatorStep("tenant")
<1>1. Init => Contract!Init /\ FinalizerInv
  BY DEF Init, StageOf, FinalizerInv, Contract!Init
<1>2. IInv /\ FinalizerInv /\ [Next]_vars => FinalizerInv'
  BY FinalizerStep DEF IInv, TypeInv
<1>3. IInv /\ FinalizerInv /\ [Next]_vars => [Keeps]_(Contract!vars)
  <2> SUFFICES ASSUME IInv, FinalizerInv, [Next]_vars
               PROVE  Keeps \/ UNCHANGED Contract!vars
    OBVIOUS
  <2> USE DEF IInv, TypeInv
  <2>1. CASE cr' = cr
    BY <2>1 DEF Contract!vars, StageOf
  <2>2. ASSUME NEW c \in Clients, CRCall(c), cr' # cr PROVE Keeps
    BY <2>2, RequestKeeps, CRChange
  <2>3. CASE (Reconcile \/ Finish) /\ cr' # cr
    BY <2>3, OperatorKeeps, OperatorChange
  <2> QED BY <2>1, <2>2, <2>3, CRUnchanged
<1> QED BY <1>1, <1>2, <1>3, Invariance, PTL DEF Spec, KeepsContract
=============================================================================
