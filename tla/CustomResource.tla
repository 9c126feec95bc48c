--------------------------- MODULE CustomResource ---------------------------
(***************************************************************************)
(* What the two programs of this repository share is a custom resource (an *)
(* App or a Tenant) in the Kubernetes API: the API server and users are    *)
(* its clients, the operator reconciles it.  This is the division of       *)
(* labour between them: clients own the spec and ask for deletion, the     *)
(* operator owns the finalizer and lets an object go that was to be        *)
(* deleted.  The models of the operator (AppController, TenantController)  *)
(* and of the API server (AppService, TenantService) each show their own   *)
(* side in detail and the other as far as this module says; all four keep  *)
(* it, so what one side assumes of the other is what the other does.       *)
(***************************************************************************)
CONSTANTS
  Objects,  \* names of the resources
  Specs,    \* what clients ask for
  NoSpec

VARIABLES
  stage,    \* stage[o]: where the object is in its life
  spec      \* spec[o]: what its clients ask for, or NoSpec

vars == <<stage, spec>>

\* The stages of FinalizerProtocol: none, open (without finalizer), guarded
\* (with it), closing (with it and a deletion timestamp).
Init ==
  /\ stage = [o \in Objects |-> "none"]
  /\ spec = [o \in Objects |-> NoSpec]

Move(o, from, to) == stage[o] = from /\ stage' = [stage EXCEPT ![o] = to]

Ask(o, s) == spec' = [spec EXCEPT ![o] = s]

-----------------------------------------------------------------------------
(* Clients *)

Create(o) == Move(o, "none", "open") /\ \E s \in Specs : Ask(o, s)

\* The Kubernetes API accepts a new spec of a closing object too.
Edit(o) == stage[o] # "none" /\ UNCHANGED stage /\ \E s \in Specs : Ask(o, s)

Delete(o) ==
  \/ Move(o, "open", "none") /\ Ask(o, NoSpec)
  \/ Move(o, "guarded", "closing") /\ UNCHANGED spec

ClientStep(o) == Create(o) \/ Edit(o) \/ Delete(o)

-----------------------------------------------------------------------------
(* The operator *)

Guard(o) == Move(o, "open", "guarded") /\ UNCHANGED spec

Finish(o) == Move(o, "closing", "none") /\ Ask(o, NoSpec)

OperatorStep(o) == Guard(o) \/ Finish(o)

Next == \E o \in Objects : ClientStep(o) \/ OperatorStep(o)

Spec == Init /\ [][Next]_vars
=============================================================================
