-------------------------- MODULE RateLimiterProofs --------------------------
(***************************************************************************)
(* Proofs about RateLimiter, for any number of clients, any burst and cost *)
(* and any time after which a bucket that is certainly full is stale.      *)
(***************************************************************************)
EXTENDS RateLimiter, TLAPS

\* A bucket's size is a number of units.
LEMMA CapacityType == Capacity \in Nat /\ Cost \in Nat \ {0} /\ Cost <= Capacity
<1>1. \A b, c \in Nat \ {0} : b * c \in Nat /\ c <= b * c
  OBVIOUS
<1> QED BY <1>1, ParametersAssumption DEF Capacity

\* A bucket is never ahead of the clock.
PastInv == \A c \in Clients : buckets[c] # NoBucket => buckets[c].lastTime <= clock

\* What a client was admitted in the window, and what it has saved up, came from
\* the full bucket it may have begun with and from the rate since.
SpentInv ==
  \A c \in Clients :
    IF buckets[c] = NoBucket THEN spent[c] <= clock - opened
    ELSE IF buckets[c].lastTime < opened THEN spent[c] = 0
    ELSE spent[c] + buckets[c].tokens <= Capacity + (buckets[c].lastTime - opened)

IInv == TypeOK /\ PastInv /\ SpentInv

\* Refilling never takes away tokens and never gives more than the bucket holds.
LEMMA RefilledFacts ==
  ASSUME TypeOK, PastInv, NEW c \in Clients
  PROVE  /\ Level(c) \in 0 .. Capacity
         /\ buckets[c] = NoBucket => Level(c) = Capacity
         /\ buckets[c] # NoBucket =>
              /\ Level(c) <= buckets[c].tokens + (clock - buckets[c].lastTime)
              /\ buckets[c].tokens <= Level(c)
              /\ clock - buckets[c].lastTime >= Capacity => Level(c) = Capacity
<1>1. CASE buckets[c] = NoBucket
  <2>1. BucketOf(c) = newTokenBucket /\ clock \in Nat
    BY <1>1 DEF BucketOf, TypeOK
  <2>2. Level(c) = Capacity
    BY <2>1, CapacityType DEF Level, Refilled, newTokenBucket
  <2> QED BY <1>1, <2>2, CapacityType
<1>2. CASE buckets[c] # NoBucket
  <2>1. /\ BucketOf(c) = buckets[c] /\ clock \in Nat
        /\ buckets[c].tokens \in 0 .. Capacity /\ buckets[c].lastTime \in Nat
        /\ buckets[c].lastTime <= clock
    BY <1>2 DEF BucketOf, TypeOK, PastInv, tokenBucket
  <2>2. Level(c) = IF buckets[c].tokens + (clock - buckets[c].lastTime) > Capacity
                   THEN Capacity
                   ELSE buckets[c].tokens + (clock - buckets[c].lastTime)
    BY <2>1 DEF Level, Refilled
  <2> QED BY <1>2, <2>1, <2>2, CapacityType
<1> QED BY <1>1, <1>2

\* What a request pays, and what it leaves in its bucket.
LEMMA AllowFacts ==
  ASSUME TypeOK, PastInv, NEW c \in Clients, Allow(c)
  PROVE  \E price \in {0, Cost} :
           /\ price = IF Level(c) >= Cost THEN Cost ELSE 0
           /\ buckets' = [buckets EXCEPT
                            ![c] = [tokens |-> Level(c) - price, lastTime |-> clock]]
           /\ verdict' = [client |-> c, admitted |-> Level(c) >= Cost]
           /\ spent' = [spent EXCEPT ![c] = @ + price]
           /\ UNCHANGED <<clock, opened>>
           /\ Level(c) - price \in 0 .. Capacity
<1> DEFINE price == IF Level(c) >= Cost THEN Cost ELSE 0
<1>1. Level(c) \in 0 .. Capacity
  BY RefilledFacts
<1>2. Level(c) - price \in 0 .. Capacity /\ price \in {0, Cost}
  BY <1>1, CapacityType
<1> QED BY <1>2 DEF Allow, Level, Enough

-----------------------------------------------------------------------------
(* The inductive invariant *)

\* Types and times, step by step.
LEMMA TypeStep == TypeOK /\ PastInv /\ [Next]_vars => TypeOK' /\ PastInv'
<1> SUFFICES ASSUME TypeOK, PastInv, [Next]_vars PROVE TypeOK' /\ PastInv'
  OBVIOUS
<1> USE CapacityType
<1>1. ASSUME NEW c \in Clients, Allow(c) PROVE TypeOK' /\ PastInv'
  <2>1. PICK price \in {0, Cost} :
          /\ buckets' = [buckets EXCEPT
                           ![c] = [tokens |-> Level(c) - price, lastTime |-> clock]]
          /\ verdict' = [client |-> c, admitted |-> Level(c) >= Cost]
          /\ spent' = [spent EXCEPT ![c] = @ + price]
          /\ UNCHANGED <<clock, opened>>
          /\ Level(c) - price \in 0 .. Capacity
    BY <1>1, AllowFacts
  <2>2. [tokens |-> Level(c) - price, lastTime |-> clock] \in tokenBucket
    BY <2>1 DEF tokenBucket, TypeOK
  <2>3. buckets' \in [Clients -> tokenBucket \cup {NoBucket}]
    BY <2>1, <2>2 DEF TypeOK
  <2>4. spent' \in [Clients -> Nat]
    BY <2>1 DEF TypeOK
  <2>5. verdict' \in [client : Clients \cup {Nobody}, admitted : BOOLEAN]
    BY <2>1
  <2>6. PastInv'
    BY <2>1 DEF PastInv, TypeOK
  <2> QED BY <2>1, <2>3, <2>4, <2>5, <2>6 DEF TypeOK
<1>2. CASE cleanup
  BY <1>2 DEF cleanup, TypeOK, PastInv
<1>3. CASE Tick
  BY <1>3 DEF Tick, TypeOK, PastInv, tokenBucket
<1>4. CASE OpenWindow
  BY <1>4 DEF OpenWindow, TypeOK, PastInv
<1>5. CASE UNCHANGED vars
  BY <1>5 DEF vars, TypeOK, PastInv
<1> QED BY <1>1, <1>2, <1>3, <1>4, <1>5 DEF Next

\* A request pays from what its bucket has; a bucket that is thrown away was
\* full, so a new one gives nothing away.
LEMMA SpentStep == IInv /\ [Next]_vars => SpentInv'
<1> SUFFICES ASSUME IInv, [Next]_vars, NEW d \in Clients
             PROVE  (IF buckets[d] = NoBucket THEN spent[d] <= clock - opened
                     ELSE IF buckets[d].lastTime < opened THEN spent[d] = 0
                     ELSE spent[d] + buckets[d].tokens
                            <= Capacity + (buckets[d].lastTime - opened))'
  BY DEF SpentInv
<1>0. /\ TypeOK /\ PastInv /\ SpentInv
      /\ clock \in Nat /\ opened \in Nat /\ opened <= clock /\ spent[d] \in Nat
      /\ buckets[d] # NoBucket => /\ buckets[d].tokens \in 0 .. Capacity
                                  /\ buckets[d].lastTime \in Nat
                                  /\ buckets[d].lastTime <= clock
      /\ Capacity \in Nat /\ Cost \in Nat
  BY CapacityType DEF IInv, TypeOK, PastInv, tokenBucket
<1>1. ASSUME NEW c \in Clients, Allow(c), c = d
      PROVE  /\ buckets'[d] # NoBucket /\ buckets'[d].lastTime = clock
             /\ spent'[d] + buckets'[d].tokens <= Capacity + (clock - opened)
             /\ UNCHANGED <<clock, opened>>
  <2>1. PICK price \in {0, Cost} :
          /\ buckets' = [buckets EXCEPT
                           ![c] = [tokens |-> Level(c) - price, lastTime |-> clock]]
          /\ spent' = [spent EXCEPT ![c] = @ + price]
          /\ UNCHANGED <<clock, opened>>
          /\ Level(c) - price \in 0 .. Capacity
    BY <1>0, <1>1, AllowFacts
  <2>2. /\ buckets'[d] = [tokens |-> Level(d) - price, lastTime |-> clock]
        /\ spent'[d] = spent[d] + price
    BY <1>0, <1>1, <2>1 DEF TypeOK
  <2>3. spent[d] + Level(d) <= Capacity + (clock - opened)
    <3>1. CASE buckets[d] = NoBucket
      BY <1>0, <3>1, RefilledFacts DEF SpentInv
    <3>2. CASE buckets[d] # NoBucket /\ buckets[d].lastTime < opened
      BY <1>0, <3>2, RefilledFacts DEF SpentInv
    <3>3. CASE buckets[d] # NoBucket /\ buckets[d].lastTime >= opened
      BY <1>0, <3>3, RefilledFacts DEF SpentInv
    <3> QED BY <1>0, <3>1, <3>2, <3>3
  <2>4. buckets'[d] \in tokenBucket
    BY <1>0, <1>1, <2>1, <2>2 DEF tokenBucket
  <2>5. Level(d) \in 0 .. Capacity
    BY <1>0, RefilledFacts
  <2>6. spent'[d] + buckets'[d].tokens = spent[d] + Level(d)
    BY <1>0, <2>1, <2>2, <2>5
  <2> QED BY <2>1, <2>2, <2>3, <2>4, <2>6, NoneAssumption
<1>2. ASSUME NEW c \in Clients, Allow(c), c # d
      PROVE  buckets'[d] = buckets[d] /\ spent'[d] = spent[d] /\ UNCHANGED <<clock, opened>>
  BY <1>0, <1>2, AllowFacts DEF TypeOK
<1>3. CASE cleanup
  <2>1. CASE ~Stale(d)
    BY <1>0, <1>3, <2>1 DEF cleanup, SpentInv
  <2>2. CASE Stale(d)
    BY <1>0, <1>3, <2>2, RefillAssumption, ParametersAssumption
    DEF cleanup, Stale, SpentInv
  <2> QED BY <2>1, <2>2
<1>4. CASE Tick
  BY <1>0, <1>4 DEF Tick, SpentInv
<1>5. CASE OpenWindow
  <2>1. opened' = clock /\ spent'[d] = 0 /\ UNCHANGED <<clock, buckets>>
    BY <1>5 DEF OpenWindow
  <2> QED BY <1>0, <2>1
<1>6. CASE UNCHANGED vars
  BY <1>0, <1>6 DEF vars, SpentInv
<1>7. ASSUME NEW c \in Clients, Allow(c)
      PROVE  (IF buckets[d] = NoBucket THEN spent[d] <= clock - opened
              ELSE IF buckets[d].lastTime < opened THEN spent[d] = 0
              ELSE spent[d] + buckets[d].tokens
                     <= Capacity + (buckets[d].lastTime - opened))'
  <2>1. CASE c = d
    BY <1>0, <1>1, <1>7, <2>1
  <2>2. CASE c # d
    BY <1>0, <1>2, <1>7, <2>2 DEF SpentInv
  <2> QED BY <2>1, <2>2
<1> QED BY <1>3, <1>4, <1>5, <1>6, <1>7 DEF Next

\* The inductive invariant holds at first, when nobody has a bucket.
LEMMA InvInit == Init => IInv
BY DEF Init, IInv, TypeOK, PastInv, SpentInv

\* The inductive invariant: the types, and what spent[c] can have come from.
THEOREM Invariance == Spec => []IInv
<1>1. IInv /\ [Next]_vars => IInv'
  BY TypeStep, SpentStep DEF IInv
<1> QED BY <1>1, InvInit, PTL DEF Spec

\* Tokens stay between nothing and a full bucket, whenever requests and cleanups
\* come.
THEOREM TypeCorrect == Spec => []TypeOK
<1>1. IInv => TypeOK
  BY DEF IInv
<1> QED BY <1>1, Invariance, PTL

\* In no window of time is a client admitted more than a full bucket and what
\* the rate adds in that time.
THEOREM RateRespectedSafe == Spec => []RateRespected
<1>1. IInv => RateRespected
  <2> SUFFICES ASSUME IInv, NEW c \in Clients
               PROVE  spent[c] <= Capacity + (clock - opened)
    BY DEF RateRespected
  <2>1. /\ clock \in Nat /\ opened \in 0 .. clock /\ spent[c] \in Nat
        /\ buckets[c] # NoBucket => /\ buckets[c].tokens \in 0 .. Capacity
                                    /\ buckets[c].lastTime \in 0 .. clock
    BY DEF IInv, TypeOK, PastInv, tokenBucket
  <2> QED BY <2>1, CapacityType DEF IInv, SpentInv
<1> QED BY <1>1, Invariance, PTL

-----------------------------------------------------------------------------
(* RateLimiter implements TokenBucket *)

\* A client whose bucket is not touched has the level it had.
LEMMA SameLevel ==
  ASSUME NEW d \in Clients, buckets'[d] = buckets[d], UNCHANGED clock
  PROVE  Level(d)' = Level(d)
BY DEF Level, Refilled, BucketOf, newTokenBucket

\* A request is answered from its bucket as if that had been refilled all along.
LEMMA AllowImplements ==
  ASSUME TypeOK, PastInv, NEW c \in Clients, Allow(c)
  PROVE  Buckets!Next
<1> USE CapacityType
<1>1. PICK price \in {0, Cost} :
        /\ price = IF Level(c) >= Cost THEN Cost ELSE 0
        /\ buckets' = [buckets EXCEPT
                         ![c] = [tokens |-> Level(c) - price, lastTime |-> clock]]
        /\ verdict' = [client |-> c, admitted |-> Level(c) >= Cost]
        /\ UNCHANGED <<clock, opened>>
        /\ Level(c) - price \in 0 .. Capacity
  BY AllowFacts
<1>2. \A d \in Clients \ {c} : Level(d)' = Level(d)
  BY <1>1, SameLevel DEF TypeOK
<1>3. Level(c)' = Level(c) - price
  <2>1. buckets'[c] = [tokens |-> Level(c) - price, lastTime |-> clock]
    BY <1>1 DEF TypeOK
  <2>2. buckets'[c] \in tokenBucket /\ clock \in Nat /\ clock' = clock
    BY <1>1, <2>1 DEF tokenBucket, TypeOK
  <2>3. BucketOf(c)' = buckets'[c]
    BY <2>2, NoneAssumption DEF BucketOf
  <2> QED BY <1>1, <2>1, <2>2, <2>3 DEF Level, Refilled
<1>4. Level(c) \in 0 .. Capacity
  BY RefilledFacts
<1> DEFINE level == [d \in Clients |-> Level(d)]
<1>5. level' = [level EXCEPT ![c] = @ - price]
  BY <1>2, <1>3
<1>6. CASE Level(c) >= Cost
  <2>1. Buckets!Admit(c)
    BY <1>1, <1>5, <1>6 DEF Buckets!Admit, Buckets!Answer
  <2> QED BY <2>1 DEF Buckets!Next
<1>7. CASE Level(c) < Cost
  <2>1. price = 0 /\ ~(Level(c) >= Cost)
    BY <1>1, <1>4, <1>7
  <2>2. Level(c)' = Level(c)
    BY <1>3, <1>4, <2>1
  <2>3. \A d \in Clients : Level(d)' = Level(d)
    BY <1>2, <2>2
  <2>4. level' = level
    BY <2>3
  <2>5. verdict' = [client |-> c, admitted |-> FALSE]
    <3>1. (Level(c) >= Cost) = FALSE
      BY <2>1
    <3> QED BY <1>1, <3>1
  <2>6. Buckets!Refuse(c)
    BY <1>7, <2>4, <2>5 DEF Buckets!Refuse, Buckets!Answer
  <2> QED BY <2>6 DEF Buckets!Next
<1> QED BY <1>4, <1>6, <1>7

\* A tick adds a unit to every bucket that is not full, seen or not.
LEMMA TickImplements ==
  ASSUME TypeOK, PastInv, Tick
  PROVE  Buckets!Next
<1> USE CapacityType
<1>1. ASSUME NEW c \in Clients
      PROVE  Level(c)' = IF Level(c) < Capacity THEN Level(c) + 1 ELSE Level(c)
  <2>1. clock' = clock + 1 /\ buckets' = buckets /\ clock \in Nat
    BY DEF Tick, TypeOK
  <2>2. CASE buckets[c] = NoBucket
    BY <2>1, <2>2 DEF Level, Refilled, BucketOf, newTokenBucket
  <2>3. CASE buckets[c] # NoBucket
    <3>1. /\ buckets[c].tokens \in 0 .. Capacity /\ buckets[c].lastTime \in Nat
          /\ buckets[c].lastTime <= clock
      BY <2>3 DEF TypeOK, PastInv, tokenBucket
    <3>2. BucketOf(c) = buckets[c] /\ BucketOf(c)' = buckets[c]
      BY <2>1, <2>3 DEF BucketOf
    <3> QED BY <2>1, <3>1, <3>2 DEF Level, Refilled
  <2> QED BY <2>2, <2>3
<1>2. Buckets!Tick
  BY <1>1 DEF Buckets!Tick, Tick, Buckets!Capacity, Capacity
<1> QED BY <1>2 DEF Buckets!Next

\* A stale bucket is full when it is thrown away, so nobody can tell.
LEMMA CleanupImplements ==
  ASSUME TypeOK, PastInv, cleanup
  PROVE  UNCHANGED Buckets!vars
<1>1. ASSUME NEW c \in Clients PROVE Level(c)' = Level(c)
  <2>1. CASE ~Stale(c)
    BY <2>1, SameLevel DEF cleanup
  <2>2. CASE Stale(c)
    <3>1. buckets'[c] = NoBucket /\ clock' = clock /\ clock \in Nat
      BY <2>2 DEF cleanup, TypeOK
    <3>2. Level(c)' = Capacity
      BY <3>1, CapacityType DEF Level, Refilled, BucketOf, newTokenBucket
    <3>3. buckets[c] # NoBucket /\ clock - buckets[c].lastTime >= Capacity
      BY <2>2, RefillAssumption, ParametersAssumption, CapacityType
      DEF Stale, TypeOK, tokenBucket
    <3> QED BY <3>2, <3>3, RefilledFacts
  <2> QED BY <2>1, <2>2
<1> QED BY <1>1 DEF cleanup, Buckets!vars

\* The limiter, with its lazy refill and its cleanup, is a token bucket for every
\* client.
THEOREM Implements == Spec => ImplementsTokenBucket
<1>1. Init => Buckets!Init
  <2> SUFFICES ASSUME Init PROVE Buckets!Init
    OBVIOUS
  <2>1. TypeOK /\ PastInv
    BY InvInit DEF IInv
  <2>2. \A c \in Clients : Level(c) = Capacity
    BY <2>1, RefilledFacts DEF Init
  <2> QED BY <2>2 DEF Buckets!Init, Init, Buckets!Capacity, Capacity
<1>2. IInv /\ [Next]_vars => [Buckets!Next]_(Buckets!vars)
  <2> SUFFICES ASSUME IInv, [Next]_vars PROVE [Buckets!Next]_(Buckets!vars)
    OBVIOUS
  <2>1. TypeOK /\ PastInv
    BY DEF IInv
  <2>2. CASE OpenWindow \/ UNCHANGED vars
    BY <2>2, SameLevel DEF OpenWindow, vars, Buckets!vars
  <2> QED
    BY <2>1, <2>2, AllowImplements, TickImplements, CleanupImplements DEF Next
<1> QED BY <1>1, <1>2, Invariance, PTL DEF Spec, ImplementsTokenBucket, Buckets!Spec
=============================================================================
