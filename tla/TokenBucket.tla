----------------------------- MODULE TokenBucket -----------------------------
(***************************************************************************)
(* What a rate limiter promises: every client has a bucket that is full at *)
(* first, gains a unit with every tick up to its capacity, and pays Cost   *)
(* for a request.  A request is admitted exactly when the bucket holds its *)
(* cost.  Buckets are for ever, and nobody looks at a clock.               *)
(*                                                                         *)
(* RateLimiter implements this specification.                              *)
(***************************************************************************)
EXTENDS Naturals

CONSTANTS Clients, Burst, Cost, Nobody

Capacity == Burst * Cost

VARIABLES
  level,    \* level[c]: what client c's bucket holds
  verdict   \* the last answer to a request

vars == <<level, verdict>>

Init ==
  /\ level = [c \in Clients |-> Capacity]
  /\ verdict = [client |-> Nobody, admitted |-> FALSE]

Answer(c, ok) == verdict' = [client |-> c, admitted |-> ok]

Admit(c) ==
  /\ level[c] >= Cost
  /\ level' = [level EXCEPT ![c] = @ - Cost]
  /\ Answer(c, TRUE)

Refuse(c) ==
  /\ level[c] < Cost
  /\ Answer(c, FALSE)
  /\ UNCHANGED level

Tick ==
  /\ level' = [c \in Clients |-> IF level[c] < Capacity THEN level[c] + 1 ELSE level[c]]
  /\ UNCHANGED verdict

Next == Tick \/ \E c \in Clients : Admit(c) \/ Refuse(c)

Spec == Init /\ [][Next]_vars
=============================================================================
