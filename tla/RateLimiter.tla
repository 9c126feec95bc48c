----------------------------- MODULE RateLimiter -----------------------------
(***************************************************************************)
(* The API server's rate limiter (apiserver/middleware/ratelimit.go).      *)
(*                                                                         *)
(* A client's bucket is made by its first request, refilled only when a    *)
(* request looks at it, and thrown away by a cleanup goroutine when it was *)
(* not looked at for some time.  Requests and cleanup hold one mutex from  *)
(* before they read the clock to the end, so each is one step.             *)
(*                                                                         *)
(* Time and tokens are counted in small units: a token is Cost units, and  *)
(* a tick is the time in which Rate adds one unit.                         *)
(***************************************************************************)
EXTENDS Integers

CONSTANTS
  Clients,     \* the keys that extractIP returns
  Burst,       \* RateLimitConfig.Burst
  Cost,        \* units in a token
  StaleAfter,  \* RateLimitConfig.StaleAfter, in ticks
  Nobody, NoBucket,
  MaxTime      \* bound on the clock

Capacity == Burst * Cost

ASSUME ParametersAssumption ==
  /\ Burst \in Nat \ {0} /\ Cost \in Nat \ {0}
  /\ StaleAfter \in Nat /\ MaxTime \in Nat

\* An unused bucket is full before it is stale: 2 seconds against 10 minutes in
\* DefaultRateLimitConfig.
ASSUME RefillAssumption == StaleAfter >= Capacity

tokenBucket == [tokens : 0 .. Capacity, lastTime : Nat]

ASSUME NoneAssumption == NoBucket \notin tokenBucket /\ Nobody \notin Clients

VARIABLES
  clock,      \* time.Now()
  buckets,    \* buckets[c]: client c's bucket, or NoBucket
  verdict,    \* the last answer to a request
  opened,     \* history: when the window of observation began
  spent       \* history: spent[c]: the cost of what c was admitted since then

vars == <<clock, buckets, verdict, opened, spent>>

Init ==
  /\ clock = 0
  /\ buckets = [c \in Clients |-> NoBucket]
  /\ verdict = [client |-> Nobody, admitted |-> FALSE]
  /\ opened = 0 /\ spent = [c \in Clients |-> 0]

newTokenBucket == [tokens |-> Capacity, lastTime |-> clock]

BucketOf(c) == IF buckets[c] = NoBucket THEN newTokenBucket ELSE buckets[c]

\* The definitions called "Mistake..." are plausible bugs of the definition that
\* follows them.  The model does not use them; they show what a property notices.

\* No limit on what is saved up.
MistakeRefilled(b) == b.tokens + (clock - b.lastTime)

Refilled(b) ==
  LET sum == b.tokens + (clock - b.lastTime)
  IN IF sum > Capacity THEN Capacity ELSE sum

\* The last token cannot be spent.
MistakeEnough(tokens) == tokens > Cost

Enough(tokens) == tokens >= Cost

\* rateLimiter.allow and tokenBucket.allow.
Allow(c) ==
  LET tokens == Refilled(BucketOf(c))
      ok == Enough(tokens)
      price == IF ok THEN Cost ELSE 0
  IN /\ buckets' = [buckets EXCEPT
                      ![c] = [tokens |-> tokens - price, lastTime |-> clock]]
     /\ verdict' = [client |-> c, admitted |-> ok]
     /\ spent' = [spent EXCEPT ![c] = @ + price]
     /\ UNCHANGED <<clock, opened>>

\* Any bucket not used just now is thrown away.
MistakeStale(c) == buckets[c] # NoBucket /\ clock > buckets[c].lastTime

Stale(c) == buckets[c] # NoBucket /\ clock - buckets[c].lastTime > StaleAfter

\* The ticker may be late or early, so cleanup may run at any time.
cleanup ==
  /\ \E c \in Clients : Stale(c)
  /\ buckets' = [c \in Clients |-> IF Stale(c) THEN NoBucket ELSE buckets[c]]
  /\ UNCHANGED <<clock, verdict, opened, spent>>

Tick ==
  /\ clock < MaxTime
  /\ clock' = clock + 1
  /\ UNCHANGED <<buckets, verdict, opened, spent>>

\* History only: begin to count.
OpenWindow ==
  /\ opened' = clock /\ spent' = [c \in Clients |-> 0]
  /\ UNCHANGED <<clock, buckets, verdict>>

Next == cleanup \/ Tick \/ OpenWindow \/ \E c \in Clients : Allow(c)

Spec == Init /\ [][Next]_vars

-----------------------------------------------------------------------------
(* Properties *)

TypeOK ==
  /\ clock \in Nat /\ opened \in 0 .. clock
  /\ buckets \in [Clients -> tokenBucket \cup {NoBucket}]
  /\ verdict \in [client : Clients \cup {Nobody}, admitted : BOOLEAN]
  /\ spent \in [Clients -> Nat]

\* In every window of time, whenever it begins and however often the client's
\* bucket was thrown away and made again in it, a client is admitted no more
\* than a full bucket and what the rate adds in that time.
RateRespected == \A c \in Clients : spent[c] <= Capacity + (clock - opened)

\* What the bucket of a client would hold if it were refilled now.
Level(c) == Refilled(BucketOf(c))

Buckets == INSTANCE TokenBucket WITH level <- [c \in Clients |-> Level(c)]

\* Refilling late and forgetting idle clients cannot be told from a bucket that
\* is kept for ever and refilled all the time: no request is refused, or
\* admitted, because of either.
ImplementsTokenBucket == Buckets!Spec
=============================================================================
