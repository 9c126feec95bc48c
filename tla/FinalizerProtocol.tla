-------------------------- MODULE FinalizerProtocol --------------------------
(***************************************************************************)
(* What a Kubernetes finalizer promises, apart from any controller: an     *)
(* object owns external resources (a Knative Service, DomainMappings, a    *)
(* namespace) only while its finalizer keeps it from disappearing, so the  *)
(* object cannot vanish and leave them behind.  The one exception the      *)
(* operator's code makes is explicit: a clean-up call whose error is only  *)
(* logged ABANDONS what it was to delete.                                  *)
(*                                                                         *)
(* AppController implements this specification.                            *)
(***************************************************************************)
CONSTANT Objects

VARIABLES
  stage,      \* stage[o]: where the object is in its life
  holding,    \* objects of which some external resource exists
  abandoned   \* objects for which a failed clean-up was given up

vars == <<stage, holding, abandoned>>

\* none: does not exist; open: exists without finalizer; guarded: has the
\* finalizer; closing: has the finalizer and a deletion timestamp.
Stages == {"none", "open", "guarded", "closing"}

Guarded(o) == stage[o] \in {"guarded", "closing"}

Init ==
  /\ stage = [o \in Objects |-> "none"]
  /\ holding = {}
  /\ abandoned = {}

Move(o, from, to) ==
  /\ stage[o] = from
  /\ stage' = [stage EXCEPT ![o] = to]
  /\ UNCHANGED <<holding, abandoned>>

Create(o) == Move(o, "none", "open")
Guard(o) == Move(o, "open", "guarded")
RequestDeletion(o) == Move(o, "open", "none") \/ Move(o, "guarded", "closing")

\* Still possible while closing: a controller may act on an older version.
Acquire(o) ==
  /\ Guarded(o)
  /\ holding' = holding \cup {o}
  /\ UNCHANGED <<stage, abandoned>>

Release(o) ==
  /\ holding' = holding \ {o}
  /\ UNCHANGED <<stage, abandoned>>

\* A clean-up that failed, perhaps after taking effect, and is not retried.
Abandon(o) ==
  /\ abandoned' = abandoned \cup {o}
  /\ holding' \in {holding, holding \ {o}}
  /\ UNCHANGED stage

Finish(o) ==
  /\ o \notin holding \/ o \in abandoned
  /\ Move(o, "closing", "none")

Next ==
  \E o \in Objects :
    \/ Create(o) \/ Guard(o) \/ RequestDeletion(o)
    \/ Acquire(o) \/ Release(o) \/ Abandon(o) \/ Finish(o)

Spec == Init /\ [][Next]_vars
=============================================================================
