-------------------------- MODULE AuthenticationProofs --------------------------
(***************************************************************************)
(* Theorems about Authentication for any number of concurrent requests, of *)
(* signing keys and API keys, of changes made to them and of faults.       *)
(***************************************************************************)
EXTENDS Authentication, TLAPS

KeySteps == {"lookup", "touch", "owner"}

\* What every goroutine has fetched was published; API keys need their tenant.
KnownInv ==
  /\ keySet \subseteq 1 .. newest
  /\ \A a \in Actors : req[a].keys \subseteq 1 .. newest
  /\ apiKeys # {} => tenant

\* Where the provider has no URL no key set is found.
IssuerInv ==
  issuer \/ /\ keySet = {} /\ jwksURL = "unknown"
            /\ \A a \in Actors : req[a].step \notin {"fetch", "store", "return"}

\* A request's way through the chain is that of its kind of token.
OnItsWay(c) ==
  req[c].step # "idle" =>
    /\ req[c].result = "none"
    /\ req[c].token.kind = "apiKey" <=> req[c].step \in KeySteps
    /\ req[c].step = "getKeySet" => ~req[c].retried

\* What is not valid will be seen not to be.
Detected(c) ==
  req[c].step # "idle" /\ "invalid" \in excuses[c] =>
    \/ req[c].expired /\ req[c].token.kind # "apiKey"
    \/ req[c].token.kind = "oidc" /\ (req[c].step = "jwt" \/ ~issuer)
    \/ /\ req[c].token.kind = "apiKey" /\ req[c].step = "lookup"
       /\ req[c].token.key \in made \ apiKeys

Blamed(c) == excuses[c] \cap {"invalid", "excused"} # {}

\* What is valid will be seen to be: the key that verifies it is published,
\* fetched or stored, and nothing has gone to JWTAuth that is not for it.
Verifiable(c) ==
  req[c].step # "idle" /\ ~Blamed(c) =>
    /\ req[c].token.kind = "apiKey" => req[c].token.key \in apiKeys
    /\ req[c].token.kind # "apiKey" => ~req[c].expired
    /\ req[c].token.kind = "oidc" =>
         /\ issuer /\ req[c].token.key \in Published /\ req[c].step # "jwt"
         /\ req[c].step = "store" => req[c].token.key \in req[c].keys
         /\ req[c].step = "return" => req[c].token.key \in keySet

\* What a request is about to store is no older than what is there.
Fresh(c) ==
  req[c].step = "store" /\ "overtaken" \notin excuses[c] =>
    \A k \in keySet : \E n \in req[c].keys : k <= n

ClientInv(c) ==
  /\ OnItsWay(c) /\ Detected(c) /\ Verifiable(c) /\ Fresh(c)
  /\ req[c].result = "refused" => Blamed(c)
  /\ req[c].result = "accepted" => "invalid" \notin excuses[c]

IInv == TypeOK /\ KnownInv /\ IssuerInv /\ \A c \in Clients : ClientInv(c)

-----------------------------------------------------------------------------
(* Lemmas about the moves of a goroutine *)

\* The fetched key sets and the missing one are the sets of keys.
LEMMA KeySetType == KeySets \cup {NoKeys} = SUBSET (1 .. MaxKeys)
<1>1. NoKeys \in SUBSET (1 .. MaxKeys)
  BY DEF NoKeys
<1>2. KeySets = (SUBSET (1 .. MaxKeys)) \ {NoKeys}
  BY DEF KeySets, NoKeys
<1>3. ASSUME NEW S, NEW x \in S PROVE (S \ {x}) \cup {x} = S
  OBVIOUS
<1>4. ((SUBSET (1 .. MaxKeys)) \ {NoKeys}) \cup {NoKeys} = SUBSET (1 .. MaxKeys)
  BY <1>1, <1>3
<1> QED BY <1>2, <1>4, Zenon

\* The fields of a goroutine's record.
LEMMA RequestFacts ==
  ASSUME TypeOK, NEW a \in Actors
  PROVE  /\ req[a] \in Request
         /\ req[a].step \in Steps /\ req[a].token \in Token
         /\ req[a].keys \in SUBSET (1 .. MaxKeys)
BY KeySetType DEF TypeOK, Request

\* A goroutine at rest has its type, whatever the last result.
LEMMA IdleType ==
  /\ Idle \in Request
  /\ Idle.step = "idle" /\ Idle.token = NoToken /\ Idle.result = "none"
  /\ Idle.keys = {} /\ ~Idle.expired /\ ~Idle.retried
<1>1. "idle" \in Steps
  BY DEF Steps
<1>2. NoToken \in Token
  BY BoundsAssumption DEF NoToken, Token
<1>3. NoKeys \in KeySets \cup {NoKeys}
  OBVIOUS
<1> QED BY <1>1, <1>2, <1>3 DEF Idle, Request, NoKeys

\* A goroutine goes to another step and keeps everything else.
LEMMA GoToFacts ==
  ASSUME TypeOK, NEW a \in Actors, NEW s \in Steps, GoTo(a, s)
  PROVE  /\ req' \in [Actors -> Request]
         /\ req'[a].step = s /\ req'[a].token = req[a].token
         /\ req'[a].expired = req[a].expired /\ req'[a].keys = req[a].keys
         /\ req'[a].retried = req[a].retried /\ req'[a].result = req[a].result
         /\ \A b \in Actors \ {a} : req'[b] = req[b]
BY DEF TypeOK, GoTo, Request

\* A request is answered, or the starter ends.
LEMMA AnswerFacts ==
  ASSUME TypeOK, NEW a \in Actors,
         NEW r \in {"none", "accepted", "refused", "panic"}, Answer(a, r)
  PROVE  /\ req' \in [Actors -> Request]
         /\ req'[a].step = "idle" /\ req'[a].result = r /\ req'[a].keys = {}
         /\ \A b \in Actors \ {a} : req'[b] = req[b]
<1>1. [Idle EXCEPT !.result = r] \in Request
  BY IdleType DEF Request
<1>2. /\ [Idle EXCEPT !.result = r].step = "idle"
      /\ [Idle EXCEPT !.result = r].result = r
      /\ [Idle EXCEPT !.result = r].keys = {}
  BY IdleType DEF Request
<1> QED BY <1>1, <1>2 DEF Answer, TypeOK

\* The starter is no client, and both are actors.
LEMMA ActorFacts ==
  /\ Starter \in Actors /\ Clients \subseteq Actors
  /\ Starter \notin Clients /\ Nobody \notin Clients
BY NoneAssumption DEF Actors

\* Excusing a request adds to its excuses.
LEMMA ExcuseFacts ==
  ASSUME TypeOK, NEW who, NEW e \in Excuses, Excuse(who, e)
  PROVE  /\ excuses' \in [Clients -> SUBSET Excuses]
         /\ \A c \in Clients : /\ c \in who => excuses'[c] = excuses[c] \cup {e}
                               /\ c \notin who => excuses'[c] = excuses[c]
BY DEF TypeOK, Excuse

\* The excuses one by one.
LEMMA ExcusesAre == {"invalid", "excused", "overtaken"} = Excuses
BY DEF Excuses

\* The steps one by one.
LEMMA StepsAre ==
  /\ {"idle", "lookup", "touch", "owner", "getKeySet", "lock", "jwt",
      "url", "discover", "fetch", "store", "return"} = Steps
  /\ {"url", "discover", "fetch", "store", "return"} = Locked
BY DEF Steps, Locked, FetchSteps

\* What the counters allow.
LEMMA CountFacts ==
  ASSUME TypeOK
  PROVE  /\ Fault \/ NoFault => faults' \in 0 .. MaxFaults
         /\ Change => changes' \in 0 .. MaxChanges
BY BoundsAssumption DEF TypeOK, Fault, NoFault, Change

\* What validateToken does next: a request either answers, goes to JWTAuth, or
\* goes to refresh the key set, once.
LEMMA ValidateFacts ==
  ASSUME TypeOK, NEW c \in Clients, NEW ks, Validate(c, ks)
  PROVE  /\ req' \in [Actors -> Request]
         /\ \A b \in Actors \ {c} : req'[b] = req[b]
         /\ \/ /\ Verifies(c, ks) /\ ~req[c].expired
               /\ req'[c].step = "idle" /\ req'[c].result = "accepted"
               /\ req'[c].keys = {}
            \/ /\ req'[c].step = "jwt"
               /\ \/ Verifies(c, ks) /\ req[c].expired
                  \/ ~Verifies(c, ks) /\ req[c].retried
               /\ req'[c].token = req[c].token
               /\ req'[c].expired = req[c].expired
               /\ req'[c].result = req[c].result /\ req'[c].keys = req[c].keys
               /\ req'[c].retried = req[c].retried
            \/ /\ req'[c].step = "lock" /\ req'[c].retried
               /\ ~Verifies(c, ks) /\ ~req[c].retried
               /\ req'[c].token = req[c].token
               /\ req'[c].expired = req[c].expired
               /\ req'[c].result = req[c].result /\ req'[c].keys = req[c].keys
<1>1. c \in Actors
  BY ActorFacts
<1>2. CASE Verifies(c, ks) /\ ~req[c].expired /\ Answer(c, "accepted")
  BY <1>1, <1>2, AnswerFacts
<1>3. CASE GoTo(c, "jwt") /\ \/ Verifies(c, ks) /\ req[c].expired
                             \/ ~Verifies(c, ks) /\ req[c].retried
  BY <1>1, <1>3, GoToFacts, StepsAre
<1>4. CASE /\ ~Verifies(c, ks) /\ ~req[c].retried
           /\ req' = [req EXCEPT ![c].step = "lock", ![c].retried = TRUE]
  <2>1. "lock" \in Steps
    BY StepsAre
  <2> QED BY <1>1, <1>4, <2>1 DEF TypeOK, Request
<1> QED BY <1>2, <1>3, <1>4 DEF Validate

-----------------------------------------------------------------------------
(* Types, and who holds the lock *)

\* The types hold when the server starts for the first time.
LEMMA TypeInit == Init => TypeOK
<1> SUFFICES ASSUME Init PROVE TypeOK
  OBVIOUS
<1>1. req \in [Actors -> Request] /\ \A c \in Clients : req[c].step = "idle"
  <2>1. [Idle EXCEPT !.step = "url"] \in Request
    BY IdleType, StepsAre DEF Request
  <2>2. req = AtStart
    BY DEF Init
  <2> QED BY <2>1, <2>2, IdleType, ActorFacts DEF AtStart
<1>2. tenant \in BOOLEAN /\ enabled \in BOOLEAN /\ issuer \in BOOLEAN
  BY Zenon DEF Init
<1>3. keySet \in KeySets \cup {NoKeys}
  BY Zenon DEF Init
<1>4. excuses \in [Clients -> SUBSET Excuses]
  BY DEF Init
<1>5. \A c \in Clients : lock = c <=> req[c].step \in Locked
  <2>1. "idle" \notin Locked
    BY StepsAre
  <2>2. lock = Nobody
    BY DEF Init
  <2> QED BY <1>1, <2>1, <2>2, ActorFacts
<1>6. /\ oldest \in 1 .. newest /\ newest \in 1 .. MaxKeys
      /\ sent \in 0 .. MaxRequests
      /\ changes \in 0 .. MaxChanges /\ faults \in 0 .. MaxFaults
  BY BoundsAssumption DEF Init
<1>7. apiKeys \subseteq made /\ made \subseteq KeyIds
      /\ jwksURL \in {"unknown", "known"} /\ lock \in Clients \cup {Nobody}
  BY DEF Init
<1> QED BY <1>1, <1>2, <1>3, <1>4, <1>5, <1>6, <1>7 DEF TypeOK

\* Who holds the lock, when one goroutine moves.
LEMMA LockMove ==
  ASSUME TypeOK, NEW a \in Actors, \A b \in Actors \ {a} : req'[b] = req[b],
         \/ a = Starter /\ lock' = lock
         \/ a \in Clients /\ lock' = lock
              /\ (req'[a].step \in Locked <=> req[a].step \in Locked)
         \/ a \in Clients /\ lock = Nobody /\ lock' = a /\ req'[a].step \in Locked
         \/ a \in Clients /\ lock = a /\ lock' = Nobody /\ req'[a].step \notin Locked
  PROVE  /\ lock' \in Clients \cup {Nobody}
         /\ \A c \in Clients : lock' = c <=> req'[c].step \in Locked
BY ActorFacts DEF TypeOK

\* Types, when one goroutine moves and the rest of the world stays as it is.
LEMMA MoveType ==
  ASSUME TypeOK, UNCHANGED <<world, sent, changes>>,
         req' \in [Actors -> Request], excuses' \in [Clients -> SUBSET Excuses],
         jwksURL' \in {"unknown", "known"}, keySet' \in KeySets \cup {NoKeys},
         lock' \in Clients \cup {Nobody}, faults' \in 0 .. MaxFaults,
         \A c \in Clients : lock' = c <=> req'[c].step \in Locked
  PROVE  TypeOK'
<1>1. tenant' \in BOOLEAN /\ enabled' \in BOOLEAN /\ issuer' \in BOOLEAN
  BY Zenon DEF TypeOK, world, store, config
<1> QED BY <1>1 DEF TypeOK, world, store, provider, config

\* The effect of every step of a request or of the starter: one goroutine moves.
LEMMA MoveStep ==
  ASSUME TypeOK,
         \/ \E c \in Clients : Serve(c) \/ GetKeySet(c) \/ Lock(c)
         \/ FetchJWKS(Starter) \/ StarterStores
  PROVE  TypeOK'
<1> USE DEF cache
<1>0. /\ excuses \in [Clients -> SUBSET Excuses] /\ faults \in 0 .. MaxFaults
      /\ jwksURL \in {"unknown", "known"} /\ keySet \in KeySets \cup {NoKeys}
      /\ oldest \in 1 .. newest /\ newest \in 1 .. MaxKeys
  BY DEF TypeOK
<1>a. ASSUME NEW c \in Clients, FaultOf(c) \/ Fine
      PROVE  excuses' \in [Clients -> SUBSET Excuses] /\ faults' \in 0 .. MaxFaults
  BY <1>0, <1>a, ExcuseFacts, ExcusesAre, CountFacts DEF FaultOf, Fine, Blameless
<1>b. ASSUME NEW c \in Clients, lock' = lock,
             req' \in [Actors -> Request], \A b \in Actors \ {c} : req'[b] = req[b],
             req'[c].step \in Locked <=> req[c].step \in Locked
      PROVE  /\ lock' \in Clients \cup {Nobody}
             /\ \A d \in Clients : lock' = d <=> req'[d].step \in Locked
  BY <1>b, LockMove, ActorFacts
<1>1. ASSUME NEW c \in Clients, Lookup(c) PROVE TypeOK'
  <2>1. /\ req' \in [Actors -> Request] /\ req'[c].step \in {"touch", "idle"}
        /\ \A b \in Actors \ {c} : req'[b] = req[b]
    BY <1>1, GoToFacts, AnswerFacts, StepsAre, ActorFacts DEF Lookup
  <2> QED BY <1>0, <1>1, <1>a, <1>b, <2>1, StepsAre, MoveType DEF Lookup
<1>2. ASSUME NEW c \in Clients, Touch(c) PROVE TypeOK'
  <2>1. /\ req' \in [Actors -> Request] /\ req'[c].step = "owner"
        /\ \A b \in Actors \ {c} : req'[b] = req[b]
    BY <1>2, GoToFacts, StepsAre, ActorFacts DEF Touch
  <2> QED BY <1>0, <1>2, <1>b, <2>1, StepsAre, MoveType DEF Touch
<1>3. ASSUME NEW c \in Clients, Owner(c) PROVE TypeOK'
  <2>1. /\ req' \in [Actors -> Request] /\ req'[c].step = "idle"
        /\ \A b \in Actors \ {c} : req'[b] = req[b]
    BY <1>3, AnswerFacts, ActorFacts DEF Owner
  <2> QED BY <1>0, <1>3, <1>a, <1>b, <2>1, StepsAre, MoveType DEF Owner
<1>4. ASSUME NEW c \in Clients, GetKeySet(c) PROVE TypeOK'
  <2>1. /\ req' \in [Actors -> Request] /\ req'[c].step \in {"lock", "idle", "jwt"}
        /\ \A b \in Actors \ {c} : req'[b] = req[b]
    BY <1>4, GoToFacts, AnswerFacts, ValidateFacts, StepsAre, ActorFacts
    DEF GetKeySet
  <2> QED BY <1>0, <1>4, <1>b, <2>1, StepsAre, MoveType DEF GetKeySet
<1>5. ASSUME NEW c \in Clients, Lock(c) PROVE TypeOK'
  <2>1. /\ req' \in [Actors -> Request] /\ req'[c].step = "url"
        /\ \A b \in Actors \ {c} : req'[b] = req[b]
    BY <1>5, GoToFacts, StepsAre, ActorFacts DEF Lock
  <2>2. /\ lock' \in Clients \cup {Nobody}
        /\ \A d \in Clients : lock' = d <=> req'[d].step \in Locked
    BY <1>5, <2>1, StepsAre, LockMove, ActorFacts DEF Lock
  <2> QED BY <1>0, <1>5, <2>1, <2>2, MoveType DEF Lock
<1>6. ASSUME NEW c \in Clients, ReturnKeySet(c) PROVE TypeOK'
  <2>1. /\ req' \in [Actors -> Request] /\ req'[c].step \in {"lock", "idle", "jwt"}
        /\ \A b \in Actors \ {c} : req'[b] = req[b]
    BY <1>6, ValidateFacts DEF ReturnKeySet
  <2>2. lock = c
    BY <1>6, StepsAre DEF ReturnKeySet, TypeOK
  <2>3. /\ lock' \in Clients \cup {Nobody}
        /\ \A d \in Clients : lock' = d <=> req'[d].step \in Locked
    BY <1>6, <2>1, <2>2, StepsAre, LockMove, ActorFacts DEF ReturnKeySet
  <2> QED BY <1>0, <1>6, <2>1, <2>3, MoveType DEF ReturnKeySet
<1>7. ASSUME NEW a \in Actors, FetchFails(a) PROVE TypeOK'
  <2>1. /\ req' \in [Actors -> Request] /\ req'[a].step \in {"jwt", "idle"}
        /\ \A b \in Actors \ {a} : req'[b] = req[b]
    BY <1>7, GoToFacts, AnswerFacts, StepsAre DEF FetchFails
  <2>2. a \in Clients => lock = a
    BY <1>7, StepsAre DEF FetchFails, TypeOK
  <2>3. /\ lock' \in Clients \cup {Nobody}
        /\ \A d \in Clients : lock' = d <=> req'[d].step \in Locked
    BY <1>7, <2>1, <2>2, StepsAre, LockMove, ActorFacts DEF FetchFails
  <2>4. excuses' \in [Clients -> SUBSET Excuses] /\ faults' \in 0 .. MaxFaults
    BY <1>0, <1>7, <1>a, CountFacts DEF FetchFails, Blameless
  <2> QED BY <1>0, <1>7, <2>1, <2>3, <2>4, MoveType DEF FetchFails
<1>8. ASSUME NEW a \in Actors, FindURL(a) \/ Discover(a) PROVE TypeOK'
  <2>1. /\ req' \in [Actors -> Request] /\ req'[a].step \in {"discover", "fetch"}
        /\ \A b \in Actors \ {a} : req'[b] = req[b]
    BY <1>8, GoToFacts, StepsAre DEF FindURL, Discover
  <2>2. req[a].step \in Locked /\ lock' = lock
    BY <1>8, StepsAre DEF FindURL, Discover
  <2>3. /\ lock' \in Clients \cup {Nobody}
        /\ \A d \in Clients : lock' = d <=> req'[d].step \in Locked
    BY <2>1, <2>2, StepsAre, LockMove DEF Actors
  <2> QED BY <1>0, <1>8, <2>1, <2>3, MoveType DEF FindURL, Discover
<1>9. ASSUME NEW a \in Actors, Fetch(a) PROVE TypeOK'
  <2>1. /\ req' \in [Actors -> Request] /\ req'[a].step = "store"
        /\ \A b \in Actors \ {a} : req'[b] = req[b]
    <3>1. Published \in SUBSET (1 .. MaxKeys) /\ "store" \in Steps
      BY <1>0, StepsAre, BoundsAssumption DEF Published
    <3> DEFINE new == [req[a] EXCEPT !.step = "store", !.keys = Published]
    <3>2. Published \in KeySets \cup {NoKeys}
      BY <3>1, KeySetType
    <3>3. new \in Request /\ new.step = "store"
      BY <3>1, <3>2, RequestFacts DEF Request
    <3>4. req' = [req EXCEPT ![a] = new]
      BY <1>9 DEF Fetch, TypeOK
    <3> HIDE DEF new
    <3> QED BY <3>3, <3>4 DEF TypeOK
  <2>2. req[a].step \in Locked /\ lock' = lock
    BY <1>9, StepsAre DEF Fetch
  <2>3. /\ lock' \in Clients \cup {Nobody}
        /\ \A d \in Clients : lock' = d <=> req'[d].step \in Locked
    BY <2>1, <2>2, StepsAre, LockMove DEF Actors
  <2> QED BY <1>0, <1>9, <2>1, <2>3, MoveType DEF Fetch
<1>10. ASSUME NEW c \in Clients, Panic(c) PROVE TypeOK'
  <2>1. /\ req' \in [Actors -> Request] /\ req'[c].step = "idle"
        /\ \A b \in Actors \ {c} : req'[b] = req[b]
    BY <1>10, AnswerFacts, ActorFacts DEF Panic
  <2>2. lock = c
    BY <1>10, StepsAre DEF Panic, ReadsHalfURL, TypeOK
  <2>3. /\ lock' \in Clients \cup {Nobody}
        /\ \A d \in Clients : lock' = d <=> req'[d].step \in Locked
    BY <1>10, <2>1, <2>2, StepsAre, LockMove, ActorFacts DEF Panic
  <2> QED BY <1>0, <1>10, <2>1, <2>3, MoveType DEF Panic
<1>11. ASSUME NEW c \in Clients, StoreKeySet(c) PROVE TypeOK'
  <2>1. /\ req' \in [Actors -> Request] /\ req'[c].step = "return"
        /\ \A b \in Actors \ {c} : req'[b] = req[b]
    BY <1>11, StepsAre, ActorFacts DEF StoreKeySet, TypeOK, Request
  <2>2. keySet' \in KeySets \cup {NoKeys}
    BY <1>11, RequestFacts, KeySetType, ActorFacts DEF StoreKeySet
  <2>3. excuses' \in [Clients -> SUBSET Excuses]
    BY <1>0, <1>11 DEF StoreKeySet
  <2>4. /\ lock' \in Clients \cup {Nobody}
        /\ \A d \in Clients : lock' = d <=> req'[d].step \in Locked
    <3>1. lock' = lock /\ req[c].step \in Locked /\ req'[c].step \in Locked
      BY <1>11, <2>1, StepsAre DEF StoreKeySet
    <3> QED BY <1>b, <2>1, <3>1, Zenon
  <2> QED BY <1>0, <1>11, <2>1, <2>2, <2>3, <2>4, MoveType DEF StoreKeySet
<1>12. CASE StarterStores
  <2>1. /\ req' \in [Actors -> Request]
        /\ \A b \in Actors \ {Starter} : req'[b] = req[b]
    BY <1>12, AnswerFacts, ActorFacts DEF StarterStores
  <2>2. keySet' \in KeySets \cup {NoKeys}
    BY <1>12, RequestFacts, KeySetType, ActorFacts DEF StarterStores
  <2>3. excuses' \in [Clients -> SUBSET Excuses]
    BY <1>0, <1>12, ExcusesAre DEF StarterStores, StarterWrites
  <2>4. /\ lock' \in Clients \cup {Nobody}
        /\ \A d \in Clients : lock' = d <=> req'[d].step \in Locked
    BY <1>12, <2>1, LockMove, ActorFacts DEF StarterStores
  <2> QED BY <1>0, <1>12, <2>1, <2>2, <2>3, <2>4, MoveType DEF StarterStores
<1>13. ASSUME NEW c \in Clients, JWTAuth(c) PROVE TypeOK'
  <2>1. /\ req' \in [Actors -> Request] /\ req'[c].step = "idle"
        /\ \A b \in Actors \ {c} : req'[b] = req[b]
    BY <1>13, AnswerFacts, ActorFacts DEF JWTAuth
  <2> QED BY <1>0, <1>13, <1>b, <2>1, StepsAre, MoveType DEF JWTAuth
<1> QED BY <1>1, <1>2, <1>3, <1>4, <1>5, <1>6, <1>7, <1>8, <1>9, <1>10, <1>11,
           <1>12, <1>13, ActorFacts DEF Serve, FetchJWKS

\* A request arrives.
LEMMA StartType ==
  ASSUME TypeOK, NEW c \in Clients, NEW t \in Issued, Start(c, t)
  PROVE  /\ TypeOK'
         /\ \A b \in Actors \ {c} : req'[b] = req[b]
         /\ req'[c].step = FirstStep(t) /\ req'[c].token = t
         /\ req'[c].result = "none" /\ ~req'[c].expired /\ ~req'[c].retried
         /\ req'[c].keys = {}
<1>0. c \in Actors /\ c # Starter
  BY ActorFacts
<1>1. t \in Token /\ FirstStep(t) \in Steps /\ FirstStep(t) \notin Locked
  BY StepsAre DEF Issued, FirstStep
<1> DEFINE new == [Idle EXCEPT !.token = t, !.step = FirstStep(t)]
<1>2. /\ new \in Request /\ new.step = FirstStep(t) /\ new.token = t
      /\ new.result = "none" /\ ~new.expired /\ ~new.retried /\ new.keys = {}
  BY <1>1, IdleType DEF Request
<1>3. req' = [req EXCEPT ![c] = new]
  BY DEF Start
<1> HIDE DEF new
<1>4. /\ req' \in [Actors -> Request] /\ req'[c] = new
      /\ \A b \in Actors \ {c} : req'[b] = req[b]
  BY <1>0, <1>2, <1>3 DEF TypeOK
<1>5. \A d \in Clients : lock' = d <=> req'[d].step \in Locked
  <2>1. req[c].step \notin Locked /\ lock' = lock
    BY StepsAre DEF Start, cache
  <2> QED BY <1>1, <1>2, <1>4, <2>1, ActorFacts DEF TypeOK
<1>6. excuses' \in [Clients -> SUBSET Excuses]
  BY ExcusesAre DEF Start, TypeOK
<1>7. sent' \in 0 .. MaxRequests
  BY BoundsAssumption DEF Start, TypeOK
<1>8. tenant' \in BOOLEAN /\ enabled' \in BOOLEAN /\ issuer' \in BOOLEAN
  BY Zenon DEF Start, TypeOK, world, store, config
<1>9. /\ lock' \in Clients \cup {Nobody} /\ keySet' \in KeySets \cup {NoKeys}
      /\ jwksURL' \in {"unknown", "known"}
      /\ changes' \in 0 .. MaxChanges /\ faults' \in 0 .. MaxFaults
      /\ oldest' \in 1 .. newest' /\ newest' \in 1 .. MaxKeys
      /\ apiKeys' \subseteq made' /\ made' \subseteq KeyIds
  BY DEF Start, TypeOK, world, store, provider, cache
<1> QED BY <1>2, <1>4, <1>5, <1>6, <1>7, <1>8, <1>9 DEF TypeOK

\* The server starts anew.
LEMMA RestartType ==
  ASSUME TypeOK, Restart
  PROVE  /\ TypeOK'
         /\ \A c \in Clients : req'[c] = Idle /\ excuses'[c] = {}
         /\ \A a \in Actors : req'[a].keys = {}
<1>1. /\ req' \in [Actors -> Request] /\ \A c \in Clients : req'[c] = Idle
      /\ \A a \in Actors : req'[a].keys = {}
  <2> DEFINE url == [Idle EXCEPT !.step = "url"]
  <2>1. url \in Request /\ url.keys = {}
    BY IdleType, StepsAre DEF Request
  <2>2. req' = AtStart
    BY DEF Restart
  <2> HIDE DEF url
  <2>3. AtStart = [a \in Actors |-> IF a = Starter /\ enabled /\ issuer THEN url ELSE Idle]
    BY DEF AtStart, url
  <2> QED BY <2>1, <2>2, <2>3, IdleType, ActorFacts
<1>2. tenant' \in BOOLEAN /\ enabled' \in BOOLEAN /\ issuer' \in BOOLEAN
  BY Zenon DEF Restart, TypeOK, world, store, config
<1>3. \A c \in Clients : lock' = c <=> req'[c].step \in Locked
  <2>1. "idle" \notin Locked
    BY StepsAre
  <2>2. lock' = Nobody
    BY DEF Restart
  <2> QED BY <1>1, <2>1, <2>2, ActorFacts, IdleType
<1>4. excuses' \in [Clients -> SUBSET Excuses] /\ \A c \in Clients : excuses'[c] = {}
  BY DEF Restart
<1>5. keySet' \in KeySets \cup {NoKeys} /\ lock' \in Clients \cup {Nobody}
  BY Zenon DEF Restart
<1>6. faults' \in 0 .. MaxFaults
  BY CountFacts DEF Restart
<1>7. /\ jwksURL' \in {"unknown", "known"}
      /\ changes' \in 0 .. MaxChanges /\ sent' \in 0 .. MaxRequests
      /\ oldest' \in 1 .. newest' /\ newest' \in 1 .. MaxKeys
      /\ apiKeys' \subseteq made' /\ made' \subseteq KeyIds
  BY DEF Restart, TypeOK, world, store, provider
<1> QED BY <1>1, <1>2, <1>3, <1>4, <1>5, <1>6, <1>7 DEF TypeOK

\* Types, when the goroutines and the cache stay as they are.
LEMMA WorldType ==
  ASSUME TypeOK, UNCHANGED <<config, cache, req, sent>>,
         excuses' \in [Clients -> SUBSET Excuses],
         changes' \in 0 .. MaxChanges, faults' = faults,
         oldest' \in 1 .. newest', newest' \in 1 .. MaxKeys,
         apiKeys' \subseteq made', made' \subseteq KeyIds, tenant' \in BOOLEAN
  PROVE  TypeOK'
<1>1. enabled' \in BOOLEAN /\ issuer' \in BOOLEAN /\ tenant' \in BOOLEAN
  BY Zenon DEF TypeOK, config
<1> QED BY <1>1 DEF TypeOK, cache

\* The steps of the environment keep the types.
LEMMA WorldStep ==
  ASSUME TypeOK,
         \/ \E k \in KeyIds : CreateAPIKey(k) \/ DeleteAPIKey(k)
         \/ DeleteTenant \/ Rotate \/ Retire
  PROVE  TypeOK' /\ UNCHANGED <<config, cache, req, sent>>
<1>0. /\ excuses \in [Clients -> SUBSET Excuses] /\ changes \in 0 .. MaxChanges
      /\ oldest \in 1 .. newest /\ newest \in 1 .. MaxKeys
      /\ apiKeys \subseteq made /\ made \subseteq KeyIds
  BY DEF TypeOK
<1>t. tenant \in BOOLEAN
  BY Zenon DEF TypeOK
<1>1. ASSUME NEW k \in KeyIds, CreateAPIKey(k)
      PROVE  TypeOK' /\ UNCHANGED <<config, cache, req, sent>>
  <2>1. tenant' \in BOOLEAN
    BY <1>t, <1>1, Zenon DEF CreateAPIKey
  <2> QED BY <1>0, <1>1, <2>1, CountFacts, WorldType DEF CreateAPIKey, provider
<1>2. ASSUME NEW k \in KeyIds, DeleteAPIKey(k)
      PROVE  TypeOK' /\ UNCHANGED <<config, cache, req, sent>>
  <2>1. tenant' \in BOOLEAN
    BY <1>t, <1>2, Zenon DEF DeleteAPIKey
  <2>2. excuses' \in [Clients -> SUBSET Excuses]
    BY <1>2, ExcuseFacts, ExcusesAre DEF DeleteAPIKey
  <2> QED BY <1>0, <1>2, <2>1, <2>2, CountFacts, WorldType
          DEF DeleteAPIKey, provider
<1>3. ASSUME DeleteTenant PROVE TypeOK' /\ UNCHANGED <<config, cache, req, sent>>
  <2>1. tenant' \in BOOLEAN
    BY <1>3, Zenon DEF DeleteTenant
  <2>2. excuses' \in [Clients -> SUBSET Excuses]
    BY <1>3, ExcuseFacts, ExcusesAre DEF DeleteTenant
  <2> QED BY <1>0, <1>3, <2>1, <2>2, CountFacts, WorldType
          DEF DeleteTenant, provider
<1>4. ASSUME Rotate PROVE TypeOK' /\ UNCHANGED <<config, cache, req, sent>>
  <2>1. tenant' \in BOOLEAN
    BY <1>t, <1>4, Zenon DEF Rotate, store
  <2>2. oldest' \in 1 .. newest' /\ newest' \in 1 .. MaxKeys
    BY <1>0, <1>4, BoundsAssumption DEF Rotate
  <2> QED BY <1>0, <1>4, <2>1, <2>2, CountFacts, WorldType DEF Rotate, store
<1>5. ASSUME Retire PROVE TypeOK' /\ UNCHANGED <<config, cache, req, sent>>
  <2>1. tenant' \in BOOLEAN
    BY <1>t, <1>5, Zenon DEF Retire, store
  <2>2. oldest' \in 1 .. newest' /\ newest' \in 1 .. MaxKeys
    BY <1>0, <1>5, BoundsAssumption DEF Retire
  <2>3. excuses' \in [Clients -> SUBSET Excuses]
    BY <1>5, ExcuseFacts, ExcusesAre DEF Retire
  <2> QED BY <1>0, <1>5, <2>1, <2>2, <2>3, CountFacts, WorldType
          DEF Retire, store
<1> QED BY <1>1, <1>2, <1>3, <1>4, <1>5

\* A token expires.
LEMMA ExpireType ==
  ASSUME TypeOK, NEW c \in Clients, Expire(c)
  PROVE  /\ TypeOK'
         /\ \A b \in Actors \ {c} : req'[b] = req[b]
         /\ req'[c].expired /\ req'[c].step = req[c].step
         /\ req'[c].token = req[c].token /\ req'[c].result = req[c].result
         /\ req'[c].retried = req[c].retried /\ req'[c].keys = req[c].keys
         /\ excuses'[c] = excuses[c] \cup {"invalid"}
         /\ \A d \in Clients \ {c} : excuses'[d] = excuses[d]
<1>0. c \in Actors /\ req[c] \in Request
  BY ActorFacts, RequestFacts
<1> DEFINE new == [req[c] EXCEPT !.expired = TRUE]
<1>1. /\ new \in Request /\ new.expired
      /\ new.step = req[c].step /\ new.token = req[c].token
      /\ new.result = req[c].result /\ new.retried = req[c].retried
      /\ new.keys = req[c].keys
  BY <1>0 DEF Request
<1>2. req' = [req EXCEPT ![c] = new]
  BY <1>0 DEF Expire, TypeOK
<1> HIDE DEF new
<1>3. /\ req' \in [Actors -> Request] /\ req'[c] = new
      /\ \A b \in Actors \ {c} : req'[b] = req[b]
  BY <1>0, <1>1, <1>2 DEF TypeOK
<1>4. /\ excuses' \in [Clients -> SUBSET Excuses]
      /\ excuses'[c] = excuses[c] \cup {"invalid"}
      /\ \A d \in Clients \ {c} : excuses'[d] = excuses[d]
  BY ExcuseFacts, ExcusesAre DEF Expire
<1>5. \A d \in Clients : lock' = d <=> req'[d].step \in Locked
  BY <1>1, <1>3, ActorFacts DEF Expire, TypeOK, cache
<1>6. TypeOK'
  BY <1>3, <1>4, <1>5, MoveType DEF Expire, TypeOK, cache
<1> QED BY <1>1, <1>3, <1>4, <1>6

\* Types are kept by every step.
LEMMA TypeStep == TypeOK /\ [Next]_vars => TypeOK'
<1>1. ASSUME TypeOK, Next PROVE TypeOK'
  BY <1>1, StartType, MoveStep, WorldStep, ExpireType, RestartType
  DEF Next, Environment
<1>2. ASSUME TypeOK, UNCHANGED vars PROVE TypeOK'
  <2>1. /\ UNCHANGED <<oldest, newest, apiKeys, made, tenant, enabled, issuer, jwksURL>>
        /\ UNCHANGED <<keySet, lock, req, excuses, sent, changes, faults>>
    BY <1>2 DEF vars, world, provider, store, config, cache
  <2>2. tenant' \in BOOLEAN /\ enabled' \in BOOLEAN /\ issuer' \in BOOLEAN
    BY <1>2, <2>1, Zenon DEF TypeOK
  <2> QED BY <1>2, <2>1, <2>2 DEF TypeOK
<1> QED BY <1>1, <1>2

\* The variables have their types, and the write lock is held by exactly the
\* request that is between m.mu.Lock and the deferred unlock of refreshKeySet.
THEOREM TypeCorrect == Spec => []TypeOK
<1> QED BY TypeInit, TypeStep, PTL DEF Spec

-----------------------------------------------------------------------------
(* What has been fetched was published *)

\* A step changes key sets only to what is published or was fetched.
LEMMA KnownStep ==
  ASSUME TypeOK, KnownInv, [Next]_vars
  PROVE  KnownInv'
<1>0. /\ oldest \in 1 .. newest /\ newest \in 1 .. MaxKeys
      /\ keySet \subseteq 1 .. newest
      /\ \A a \in Actors : req[a].keys \subseteq 1 .. newest
      /\ apiKeys # {} => tenant
  BY DEF TypeOK, KnownInv
<1>n. Published \subseteq 1 .. newest
  BY <1>0, BoundsAssumption DEF Published
<1> DEFINE Same == UNCHANGED <<newest, apiKeys, tenant>>
           Moves(a) == /\ \A b \in Actors \ {a} : req'[b] = req[b]
                       /\ req'[a].keys \in {{}, req[a].keys, Published}
           Stores(a) == keySet' \in {keySet, {}, req[a].keys}
<1>1. ASSUME NEW a \in Actors, Same, Moves(a), Stores(a) PROVE KnownInv'
  <2>1. req[a].keys \subseteq 1 .. newest
    BY <1>0
  <2>2. keySet' \subseteq 1 .. newest /\ req'[a].keys \subseteq 1 .. newest
    BY <1>0, <1>n, <1>1, <2>1, Zenon
  <2>3. \A b \in Actors : req'[b].keys \subseteq 1 .. newest
    BY <1>0, <1>1, <2>2, Zenon
  <2> QED BY <1>0, <1>1, <2>2, <2>3, Zenon DEF KnownInv
<1>2. ASSUME NEW c \in Clients, Serve(c) \/ GetKeySet(c) \/ Lock(c)
      PROVE  KnownInv'
  <2>0. c \in Actors
    BY ActorFacts
  <2>1. Same
    BY <1>2 DEF Serve, FetchJWKS, GetKeySet, Lock, Lookup, Touch, Owner, FetchFails,
       FindURL, Discover, Fetch, Panic, StoreKeySet, ReturnKeySet, JWTAuth,
       world, provider, store
  <2>2. Stores(c)
    BY <1>2 DEF Serve, FetchJWKS, GetKeySet, Lock, Lookup, Touch, Owner, FetchFails,
       FindURL, Discover, Fetch, Panic, StoreKeySet, ReturnKeySet, JWTAuth, cache
  <2>3. Moves(c)
    <3>1. CASE Lookup(c) \/ Touch(c) \/ Owner(c) \/ Panic(c) \/ JWTAuth(c)
      BY <2>0, <3>1, GoToFacts, AnswerFacts, StepsAre
      DEF Lookup, Touch, Owner, Panic, JWTAuth
    <3>2. CASE FetchFails(c) \/ FindURL(c) \/ Discover(c) \/ Lock(c)
      BY <2>0, <3>2, GoToFacts, AnswerFacts, StepsAre
      DEF FetchFails, FindURL, Discover, Lock
    <3>3. CASE GetKeySet(c) \/ ReturnKeySet(c)
      BY <2>0, <3>3, GoToFacts, AnswerFacts, ValidateFacts, StepsAre
      DEF GetKeySet, ReturnKeySet
    <3>4. CASE Fetch(c)
      BY <2>0, <3>4, RequestFacts DEF Fetch, TypeOK, Request
    <3>5. CASE StoreKeySet(c)
      BY <2>0, <3>5, RequestFacts DEF StoreKeySet, TypeOK, Request, NoKeys
    <3> QED BY <1>2, <3>1, <3>2, <3>3, <3>4, <3>5 DEF Serve, FetchJWKS
  <2> QED BY <1>1, <2>0, <2>1, <2>2, <2>3
<1>3. ASSUME FetchJWKS(Starter) \/ StarterStores PROVE KnownInv'
  <2>0. Starter \in Actors
    BY ActorFacts
  <2>1. Same
    BY <1>3 DEF FetchJWKS, FetchFails, FindURL, Discover, Fetch, StarterStores,
       world, provider, store
  <2>2. Stores(Starter)
    BY <1>3 DEF FetchJWKS, FetchFails, FindURL, Discover, Fetch, StarterStores, cache
  <2>3. Moves(Starter)
    <3>1. CASE FetchFails(Starter) \/ FindURL(Starter) \/ Discover(Starter)
      BY <2>0, <3>1, GoToFacts, AnswerFacts, StepsAre
      DEF FetchFails, FindURL, Discover
    <3>2. CASE Fetch(Starter)
      BY <2>0, <3>2, RequestFacts DEF Fetch, TypeOK, Request
    <3>3. CASE StarterStores
      BY <2>0, <3>3, AnswerFacts DEF StarterStores
    <3> QED BY <1>3, <3>1, <3>2, <3>3 DEF FetchJWKS
  <2> QED BY <1>1, <2>0, <2>1, <2>2, <2>3
<1>4. ASSUME NEW c \in Clients, NEW t \in Issued, Start(c, t) PROVE KnownInv'
  <2>1. c \in Actors /\ Same /\ keySet' = keySet
    BY <1>4, ActorFacts DEF Start, world, provider, store, cache
  <2>2. Moves(c)
    BY <1>4, StartType
  <2> QED BY <1>1, <2>1, <2>2
<1>5. ASSUME NEW c \in Clients, Expire(c) PROVE KnownInv'
  <2>1. c \in Actors /\ Same /\ keySet' = keySet
    BY <1>5, ActorFacts DEF Expire, world, provider, store, cache
  <2>2. Moves(c)
    BY <1>5, ExpireType
  <2> QED BY <1>1, <2>1, <2>2
<1>6. ASSUME Restart PROVE KnownInv'
  <2>1. Same /\ keySet' = {}
    BY <1>6 DEF Restart, world, provider, store, NoKeys
  <2> QED BY <1>0, <1>6, <2>1, RestartType DEF KnownInv
<1>7. ASSUME NEW k \in KeyIds, CreateAPIKey(k) \/ DeleteAPIKey(k) PROVE KnownInv'
  BY <1>0, <1>7 DEF CreateAPIKey, DeleteAPIKey, provider, cache, KnownInv
<1>8. ASSUME DeleteTenant \/ Rotate \/ Retire PROVE KnownInv'
  <2>1. UNCHANGED <<keySet, req>> /\ (apiKeys' # {} => tenant')
    BY <1>0, <1>8 DEF DeleteTenant, Rotate, Retire, store, cache
  <2>2. 1 .. newest \subseteq 1 .. newest'
    BY <1>0, <1>8, BoundsAssumption DEF DeleteTenant, Rotate, Retire, provider
  <2> QED BY <1>0, <2>1, <2>2, Zenon DEF KnownInv
<1>9. CASE UNCHANGED vars
  BY <1>0, <1>9 DEF vars, world, provider, store, cache, KnownInv
<1> QED BY <1>2, <1>3, <1>4, <1>5, <1>6, <1>7, <1>8, <1>9 DEF Next, Environment

\* Without a URL no step gets as far as fetching a key set.
LEMMA IssuerStep ==
  ASSUME TypeOK, IssuerInv, [Next]_vars
  PROVE  IssuerInv'
<1> DEFINE Far == {"fetch", "store", "return"}
           Cached == UNCHANGED <<keySet, jwksURL>>
           Moves(a) == /\ \A b \in Actors \ {a} : req'[b] = req[b]
                       /\ req'[a].step \notin Far
<1>i. issuer' = issuer
  BY DEF Next, Environment, Start, Serve, FetchJWKS, GetKeySet, Lock, Lookup, Touch,
     Owner, FetchFails, FindURL, Discover, Fetch, Panic, StoreKeySet, ReturnKeySet,
     JWTAuth, StarterStores, CreateAPIKey, DeleteAPIKey, DeleteTenant, Expire,
     Rotate, Retire, Restart, vars, world, config
<1> SUFFICES ASSUME ~issuer PROVE IssuerInv'
  BY <1>i DEF IssuerInv
<1>0. /\ keySet = {} /\ jwksURL = "unknown"
      /\ \A a \in Actors : req[a].step \notin Far
  BY DEF IssuerInv
<1>1. ASSUME NEW a \in Actors, Cached, Moves(a) PROVE IssuerInv'
  BY <1>0, <1>1 DEF IssuerInv
<1>a. ASSUME NEW a \in Actors, FetchJWKS(a) PROVE Cached /\ Moves(a)
  <2>1. CASE FetchFails(a)
    BY <2>1, GoToFacts, AnswerFacts, StepsAre DEF FetchFails
  <2>2. CASE FindURL(a)
    BY <1>0, <2>2, GoToFacts, StepsAre DEF FindURL, cache
  <2>3. ~Discover(a) /\ ~Fetch(a)
    BY <1>0 DEF Discover, Fetch
  <2> QED BY <1>a, <2>1, <2>2, <2>3 DEF FetchJWKS
<1>2. ASSUME NEW c \in Clients, Serve(c) \/ GetKeySet(c) \/ Lock(c)
      PROVE  IssuerInv'
  <2>0. c \in Actors
    BY ActorFacts
  <2>1. CASE Lookup(c) \/ Touch(c) \/ Owner(c) \/ Panic(c) \/ JWTAuth(c)
    <3>1. Cached
      BY <2>1 DEF Lookup, Touch, Owner, Panic, JWTAuth, cache
    <3>2. Moves(c)
      BY <2>0, <2>1, GoToFacts, AnswerFacts, StepsAre
      DEF Lookup, Touch, Owner, Panic, JWTAuth
    <3> QED BY <1>1, <2>0, <3>1, <3>2
  <2>2. CASE GetKeySet(c) \/ Lock(c)
    <3>1. Cached
      BY <2>2 DEF GetKeySet, Lock, cache
    <3>2. Moves(c)
      BY <1>0, <2>0, <2>2, GoToFacts, AnswerFacts, StepsAre
      DEF GetKeySet, Lock, NoKeys
    <3> QED BY <1>1, <2>0, <3>1, <3>2
  <2>3. ~StoreKeySet(c) /\ ~ReturnKeySet(c)
    BY <1>0, <2>0 DEF StoreKeySet, ReturnKeySet
  <2> QED BY <1>1, <1>2, <1>a, <2>0, <2>1, <2>2, <2>3 DEF Serve
<1>3. CASE FetchJWKS(Starter) \/ StarterStores
  <2>1. ~StarterStores
    BY <1>0, ActorFacts DEF StarterStores
  <2> QED BY <1>1, <1>3, <1>a, <2>1, ActorFacts
<1>4. ASSUME NEW c \in Clients, NEW t \in Issued, Start(c, t) PROVE IssuerInv'
  <2>1. Cached /\ c \in Actors /\ FirstStep(t) \notin Far
    BY <1>4, ActorFacts DEF Start, cache, FirstStep
  <2> QED BY <1>1, <1>4, <2>1, StartType
<1>5. ASSUME NEW c \in Clients, Expire(c) PROVE IssuerInv'
  <2>1. Cached /\ c \in Actors
    BY <1>5, ActorFacts DEF Expire, cache
  <2>2. Moves(c)
    BY <1>0, <1>5, <2>1, ExpireType
  <2> QED BY <1>1, <2>1, <2>2
<1>6. CASE Restart
  <2>1. keySet' = {} /\ jwksURL' = "unknown" /\ req' = AtStart
    BY <1>6 DEF Restart, NoKeys
  <2>2. AtStart = [a \in Actors |-> Idle]
    BY DEF AtStart
  <2> QED BY <2>1, <2>2, IdleType DEF IssuerInv
<1>7. CASE (\E k \in KeyIds : CreateAPIKey(k) \/ DeleteAPIKey(k))
             \/ DeleteTenant \/ Rotate \/ Retire
  BY <1>0, <1>7, WorldStep DEF IssuerInv, cache
<1>8. CASE UNCHANGED vars
  BY <1>0, <1>8 DEF IssuerInv, vars, cache
<1> QED BY <1>2, <1>3, <1>4, <1>5, <1>6, <1>7, <1>8 DEF Next, Environment

-----------------------------------------------------------------------------
(* What every request keeps to *)

\* A request that does not move keeps to it as long as the world does not
\* change, and nobody stores a key set between its own store and return.
LEMMA OthersKeep ==
  ASSUME NEW c \in Clients, ClientInv(c),
         req'[c] = req[c], excuses'[c] = excuses[c],
         UNCHANGED <<oldest, newest, apiKeys, made, issuer>>,
         keySet' = keySet \/ req[c].step \notin {"store", "return"}
  PROVE  ClientInv(c)'
<1>1. OnItsWay(c)' /\ Detected(c)'
  BY DEF ClientInv, OnItsWay, Detected
<1>2. Blamed(c)' <=> Blamed(c)
  BY DEF Blamed
<1>3. Verifiable(c)'
  BY <1>2 DEF ClientInv, Verifiable, Published
<1>4. Fresh(c)'
  BY DEF ClientInv, Fresh
<1> QED BY <1>1, <1>2, <1>3, <1>4 DEF ClientInv

\* An answer that is neither, or that is right.
LEMMA AnswerKeeps ==
  ASSUME TypeOK, NEW c \in Clients, req'[c].step = "idle",
         req'[c].result = "refused" => Blamed(c)',
         req'[c].result = "accepted" => "invalid" \notin excuses'[c]
  PROVE  ClientInv(c)'
BY DEF ClientInv, OnItsWay, Detected, Verifiable, Fresh

\* The steps of APIKeyAuth.
LEMMA KeyKeeps ==
  ASSUME IInv, TypeOK', NEW c \in Clients, Lookup(c) \/ Touch(c) \/ Owner(c)
  PROVE  ClientInv(c)'
<1>0. /\ TypeOK /\ ClientInv(c) /\ (apiKeys # {} => tenant)
      /\ c \in Actors /\ UNCHANGED <<oldest, newest, apiKeys, made, tenant, issuer>>
  BY ActorFacts DEF IInv, KnownInv, Lookup, Touch, Owner, world, store, provider,
     config
<1>1. /\ FaultOf(c) => excuses'[c] = excuses[c] \cup {"excused"}
      /\ Fine => excuses'[c] = excuses[c]
  BY <1>0, ExcuseFacts, ExcusesAre DEF FaultOf, Fine, Blameless
<1>2. (FaultOf(c) => Blamed(c)') /\ (Fine => (Blamed(c)' <=> Blamed(c)))
  BY <1>1 DEF Blamed
<1>k. req[c].token.kind = "apiKey" /\ req[c].result = "none"
  BY <1>0 DEF ClientInv, OnItsWay, Lookup, Touch, Owner, KeySteps
<1>3. CASE GoTo(c, "touch") /\ Lookup(c) /\ Fine /\ req[c].token.key \in apiKeys
  <2>1. /\ req'[c].step = "touch" /\ req'[c].token = req[c].token
        /\ req'[c].result = req[c].result /\ req'[c].expired = req[c].expired
    BY <1>0, <1>3, GoToFacts, StepsAre
  <2> QED BY <1>0, <1>1, <1>2, <1>3, <1>k, <2>1
          DEF ClientInv, OnItsWay, Detected, Verifiable, Fresh, KeySteps, Lookup
<1>4. CASE Touch(c)
  <2>1. /\ req'[c].step = "owner" /\ req'[c].token = req[c].token
        /\ req'[c].result = req[c].result /\ req'[c].expired = req[c].expired
        /\ excuses'[c] = excuses[c]
    BY <1>0, <1>4, GoToFacts, StepsAre DEF Touch
  <2>2. Blamed(c)' <=> Blamed(c)
    BY <2>1 DEF Blamed
  <2> QED BY <1>0, <1>4, <1>k, <2>1, <2>2
          DEF ClientInv, OnItsWay, Detected, Verifiable, Fresh, KeySteps, Touch
<1>5. CASE Answer(c, "refused") /\ FaultOf(c)
  BY <1>0, <1>2, <1>5, AnswerFacts, AnswerKeeps
<1>6. CASE Answer(c, "refused") /\ Fine /\ Lookup(c) /\ req[c].token.key \notin apiKeys
  <2>1. Blamed(c)
    BY <1>0, <1>6, <1>k DEF ClientInv, Verifiable, Lookup
  <2> QED BY <1>0, <1>2, <1>6, <2>1, AnswerFacts, AnswerKeeps
<1>7. CASE Answer(c, "refused") /\ Fine /\ Owner(c) /\ ~tenant
  <2>1. Blamed(c)
    BY <1>0, <1>7, <1>k DEF ClientInv, Verifiable, Owner
  <2> QED BY <1>0, <1>2, <1>7, <2>1, AnswerFacts, AnswerKeeps
<1>8. CASE Answer(c, "accepted") /\ Fine /\ Owner(c)
  <2>1. "invalid" \notin excuses[c]
    BY <1>0, <1>8, <1>k DEF ClientInv, Detected, Owner
  <2> QED BY <1>0, <1>1, <1>8, <2>1, AnswerFacts, AnswerKeeps
<1> QED BY <1>3, <1>4, <1>5, <1>6, <1>7, <1>8 DEF Lookup, Owner

\* What validateToken makes of a key set: one that verifies the token, if the
\* request is to be accepted, when it has refreshed it itself.
LEMMA ValidateKeeps ==
  ASSUME IInv, TypeOK', NEW c \in Clients, Validate(c, keySet),
         req[c].step \in {"getKeySet", "return"},
         UNCHANGED <<world, keySet, excuses>>
  PROVE  ClientInv(c)'
<1>0. /\ TypeOK /\ ClientInv(c)
      /\ c \in Actors /\ UNCHANGED <<oldest, newest, apiKeys, made, tenant, issuer>>
  BY ActorFacts DEF IInv, world, store, provider, config
<1>1. Blamed(c)' <=> Blamed(c)
  BY DEF Blamed
<1>k. req[c].token.kind # "apiKey" /\ req[c].result = "none"
  BY <1>0 DEF ClientInv, OnItsWay, KeySteps
<1>2. CASE /\ Verifies(c, keySet) /\ ~req[c].expired
           /\ req'[c].step = "idle" /\ req'[c].result = "accepted"
  <2>1. issuer
    BY <1>2 DEF IInv, IssuerInv, Verifies
  <2>2. "invalid" \notin excuses[c]
    BY <1>0, <1>2, <1>k, <2>1 DEF ClientInv, Detected
  <2> QED BY <1>0, <1>2, <2>2, AnswerKeeps
<1>3. CASE /\ req'[c].step = "jwt"
           /\ \/ Verifies(c, keySet) /\ req[c].expired
              \/ ~Verifies(c, keySet) /\ req[c].retried
           /\ req'[c].token = req[c].token /\ req'[c].expired = req[c].expired
           /\ req'[c].result = req[c].result
  <2>1. req[c].token.kind = "oidc" => Blamed(c)
    BY <1>0, <1>3, <1>k DEF ClientInv, OnItsWay, Verifiable, Verifies
  <2>2. OnItsWay(c)' /\ Fresh(c)'
    BY <1>3, <1>k DEF OnItsWay, Fresh, KeySteps
  <2>3. Detected(c)'
    BY <1>0, <1>3, <1>k DEF ClientInv, Detected
  <2>4. Verifiable(c)'
    BY <1>0, <1>1, <1>3, <1>k, <2>1 DEF ClientInv, Verifiable
  <2> QED BY <1>3, <1>k, <2>2, <2>3, <2>4 DEF ClientInv
<1>4. CASE /\ req'[c].step = "lock"
           /\ req'[c].token = req[c].token /\ req'[c].expired = req[c].expired
           /\ req'[c].result = req[c].result
  <2>2. OnItsWay(c)' /\ Fresh(c)'
    BY <1>4, <1>k DEF OnItsWay, Fresh, KeySteps
  <2>3. Detected(c)'
    BY <1>0, <1>4, <1>k DEF ClientInv, Detected
  <2>4. Verifiable(c)'
    BY <1>0, <1>1, <1>4, <1>k DEF ClientInv, Verifiable, Published
  <2> QED BY <1>4, <1>k, <2>2, <2>3, <2>4 DEF ClientInv
<1> QED BY <1>0, <1>2, <1>3, <1>4, ValidateFacts

\* A step on the way to a new key set, which changes nothing else.
LEMMA WayKeeps ==
  ASSUME IInv, TypeOK', NEW c \in Clients, NEW s \in Steps, GoTo(c, s),
         req[c].step \in Locked \cup {"getKeySet", "lock"},
         s \in {"lock", "url", "discover", "fetch"},
         UNCHANGED <<world, excuses>>
  PROVE  ClientInv(c)'
<1>0. /\ TypeOK /\ ClientInv(c)
      /\ c \in Actors /\ UNCHANGED <<oldest, newest, apiKeys, made, tenant, issuer>>
  BY ActorFacts DEF IInv, world, store, provider, config
<1>1. Blamed(c)' <=> Blamed(c)
  BY DEF Blamed
<1>2. /\ req'[c].step = s /\ req'[c].token = req[c].token
      /\ req'[c].result = req[c].result /\ req'[c].expired = req[c].expired
  BY <1>0, GoToFacts
<1>k. /\ req[c].token.kind # "apiKey" /\ req[c].result = "none"
      /\ req[c].step \notin {"idle", "jwt", "lookup", "touch", "owner"}
  BY <1>0, StepsAre DEF ClientInv, OnItsWay, KeySteps
<1>3. OnItsWay(c)' /\ Fresh(c)'
  BY <1>2, <1>k DEF OnItsWay, Fresh, KeySteps
<1>4. Detected(c)'
  BY <1>0, <1>2, <1>k DEF ClientInv, Detected
<1>5. Verifiable(c)'
  BY <1>0, <1>1, <1>2, <1>k DEF ClientInv, Verifiable, Published
<1> QED BY <1>2, <1>k, <1>3, <1>4, <1>5 DEF ClientInv

\* The other steps of a request: a fetch fails, fetches or stores a key set, the
\* router recovers from a panic, JWTAuth decides.
LEMMA FetchKeeps ==
  ASSUME IInv, TypeOK', NEW c \in Clients,
         FetchFails(c) \/ Fetch(c) \/ StoreKeySet(c) \/ Panic(c) \/ JWTAuth(c)
  PROVE  ClientInv(c)'
<1>0. /\ TypeOK /\ ClientInv(c)
      /\ c \in Actors /\ c # Starter
      /\ UNCHANGED <<oldest, newest, apiKeys, made, tenant, issuer>>
      /\ oldest \in 1 .. newest /\ newest \in 1 .. MaxKeys
      /\ keySet \subseteq 1 .. newest
  BY ActorFacts DEF IInv, KnownInv, TypeOK, FetchFails, Fetch, StoreKeySet, Panic,
                    JWTAuth, world, store, provider, config
<1>1. CASE FetchFails(c)
  <2>1. \/ excuses'[c] = excuses[c] \cup {"excused"}
        \/ excuses'[c] = excuses[c] /\ ~issuer
    BY <1>0, <1>1, ExcuseFacts, ExcusesAre DEF FetchFails, FaultOf, Fine, Blameless
  <2>2. Blamed(c) => Blamed(c)'
    BY <2>1 DEF Blamed
  <2>3. req[c].token.kind = "oidc" => Blamed(c)'
    <3>1. CASE issuer
      BY <2>1, <3>1 DEF Blamed
    <3>2. CASE ~issuer
      BY <1>0, <1>1, <2>2, <3>2 DEF ClientInv, Verifiable, FetchFails
    <3> QED BY <3>1, <3>2
  <2>4. /\ req'[c].step = "jwt" /\ req'[c].token = req[c].token
        /\ req'[c].result = req[c].result /\ req'[c].expired = req[c].expired
    BY <1>0, <1>1, GoToFacts, StepsAre DEF FetchFails
  <2>k. req[c].token.kind # "apiKey" /\ req[c].result = "none"
    BY <1>0, <1>1 DEF FetchFails, ClientInv, OnItsWay, KeySteps
  <2>5. OnItsWay(c)' /\ Fresh(c)'
    BY <2>4, <2>k DEF OnItsWay, Fresh, KeySteps
  <2>6. Verifiable(c)'
    BY <1>0, <1>1, <2>2, <2>3, <2>4, <2>k DEF FetchFails, ClientInv, Verifiable
  <2>7. Detected(c)'
    BY <1>0, <1>1, <2>1, <2>4, <2>k DEF FetchFails, ClientInv, Detected
  <2> QED BY <2>4, <2>k, <2>5, <2>6, <2>7 DEF ClientInv
<1>2. CASE Fetch(c)
  <2>1. excuses'[c] = excuses[c] /\ keySet' = keySet
    BY <1>2 DEF Fetch, cache
  <2>2. Blamed(c)' <=> Blamed(c)
    BY <2>1 DEF Blamed
  <2>3. /\ req'[c].step = "store" /\ req'[c].token = req[c].token
        /\ req'[c].result = req[c].result /\ req'[c].expired = req[c].expired
        /\ req'[c].keys = Published
    BY <1>0, <1>2, RequestFacts DEF Fetch, TypeOK, Request
  <2>k. req[c].token.kind # "apiKey" /\ req[c].result = "none"
    BY <1>0, <1>2 DEF Fetch, ClientInv, OnItsWay, KeySteps
  <2>4. \A k \in keySet : \E n \in Published : k <= n
    BY <1>0, BoundsAssumption DEF Published
  <2>5. OnItsWay(c)' /\ Fresh(c)'
    BY <2>1, <2>3, <2>k, <2>4 DEF OnItsWay, Fresh, KeySteps
  <2>6. Detected(c)'
    BY <1>0, <1>2, <2>1, <2>3, <2>k DEF Fetch, ClientInv, Detected
  <2>7. Verifiable(c)'
    BY <1>0, <1>2, <2>2, <2>3, <2>k DEF Fetch, ClientInv, Verifiable, Published
  <2> QED BY <2>3, <2>k, <2>5, <2>6, <2>7 DEF ClientInv
<1>3. CASE StoreKeySet(c)
  <2>1. excuses'[c] = excuses[c] \ {"overtaken"}
    BY <1>0, <1>3 DEF StoreKeySet, TypeOK
  <2>2. Blamed(c)' <=> Blamed(c)
    BY <2>1 DEF Blamed
  <2>3. /\ req'[c].step = "return" /\ req'[c].token = req[c].token
        /\ req'[c].result = req[c].result /\ req'[c].expired = req[c].expired
        /\ keySet' = req[c].keys
    BY <1>0, <1>3, RequestFacts DEF StoreKeySet, TypeOK, Request
  <2>k. req[c].token.kind # "apiKey" /\ req[c].result = "none"
    BY <1>0, <1>3 DEF StoreKeySet, ClientInv, OnItsWay, KeySteps
  <2>4. OnItsWay(c)' /\ Fresh(c)'
    BY <2>3, <2>k DEF OnItsWay, Fresh, KeySteps
  <2>5. Detected(c)'
    BY <1>0, <1>3, <2>1, <2>3, <2>k DEF StoreKeySet, ClientInv, Detected
  <2>6. Verifiable(c)'
    BY <1>0, <1>3, <2>2, <2>3, <2>k
    DEF StoreKeySet, ClientInv, Verifiable, Published
  <2> QED BY <2>3, <2>k, <2>4, <2>5, <2>6 DEF ClientInv
<1>4. CASE Panic(c)
  BY <1>0, <1>4, AnswerFacts, AnswerKeeps DEF Panic
<1>5. CASE JWTAuth(c)
  <2>1. excuses'[c] = excuses[c]
    BY <1>5 DEF JWTAuth
  <2>2. Blamed(c)' <=> Blamed(c)
    BY <2>1 DEF Blamed
  <2>k. /\ req[c].token.kind \in {"oidc", "admin"}
        /\ req[c].step # "idle"
    BY <1>0, <1>5, RequestFacts DEF JWTAuth, ClientInv, OnItsWay, KeySteps, Token
  <2>3. CASE req[c].token.kind = "admin" /\ ~req[c].expired
    <3>1. "invalid" \notin excuses[c]
      BY <1>0, <2>3, <2>k DEF ClientInv, Detected
    <3>2. Answer(c, "accepted")
      BY <1>5, <2>3 DEF JWTAuth
    <3> QED BY <1>0, <2>1, <3>1, <3>2, AnswerFacts, AnswerKeeps
  <2>4. CASE ~(req[c].token.kind = "admin" /\ ~req[c].expired)
    <3>1. Blamed(c)
      BY <1>0, <1>5, <2>4, <2>k DEF JWTAuth, ClientInv, Verifiable
    <3>2. Answer(c, "refused")
      BY <1>5, <2>4 DEF JWTAuth
    <3> QED BY <1>0, <2>2, <3>1, <3>2, AnswerFacts, AnswerKeeps
  <2> QED BY <2>3, <2>4
<1> QED BY <1>1, <1>2, <1>3, <1>4, <1>5

\* Every step of a request.
LEMMA MoverKeeps ==
  ASSUME IInv, TypeOK', NEW c \in Clients, Serve(c) \/ GetKeySet(c) \/ Lock(c)
  PROVE  ClientInv(c)'
<1>0. TypeOK /\ c \in Actors
  BY ActorFacts DEF IInv
<1>1. CASE Lookup(c) \/ Touch(c) \/ Owner(c)
  BY <1>1, KeyKeeps
<1>2. CASE FetchFails(c) \/ Fetch(c) \/ StoreKeySet(c) \/ Panic(c) \/ JWTAuth(c)
  BY <1>2, FetchKeeps
<1>3. CASE FindURL(c) \/ Discover(c) \/ Lock(c)
  BY <1>3, WayKeeps, StepsAre DEF FindURL, Discover, Lock
<1>4. CASE ReturnKeySet(c)
  BY <1>4, ValidateKeeps DEF ReturnKeySet
<1>5. CASE GetKeySet(c)
  <2>1. CASE GoTo(c, "lock")
    BY <1>5, <2>1, WayKeeps, StepsAre DEF GetKeySet
  <2>2. CASE Validate(c, keySet)
    BY <1>5, <2>2, ValidateKeeps DEF GetKeySet, cache
  <2>3. CASE Answer(c, "panic")
    BY <1>0, <2>3, AnswerFacts, AnswerKeeps
  <2> QED BY <1>5, <2>1, <2>2, <2>3 DEF GetKeySet
<1> QED BY <1>1, <1>2, <1>3, <1>4, <1>5 DEF Serve, FetchJWKS

\* A step of a request leaves the others to what they are at: only the one that
\* holds the lock stores a key set.
LEMMA OneMoves ==
  ASSUME TypeOK, NEW c \in Clients, Serve(c) \/ GetKeySet(c) \/ Lock(c),
         NEW d \in Clients \ {c}
  PROVE  /\ req'[d] = req[d] /\ excuses'[d] = excuses[d]
         /\ UNCHANGED <<oldest, newest, apiKeys, made, issuer>>
         /\ keySet' = keySet \/ req[d].step \notin {"store", "return"}
<1>0. c \in Actors /\ d \in Actors \ {c} /\ d \in Clients
  BY ActorFacts
<1>1. req'[d] = req[d]
  <2>1. CASE Lookup(c) \/ Touch(c) \/ Owner(c) \/ Panic(c) \/ JWTAuth(c)
    BY <1>0, <2>1, GoToFacts, AnswerFacts, StepsAre
    DEF Lookup, Touch, Owner, Panic, JWTAuth
  <2>2. CASE FetchFails(c) \/ FindURL(c) \/ Discover(c) \/ Lock(c)
    BY <1>0, <2>2, GoToFacts, AnswerFacts, StepsAre
    DEF FetchFails, FindURL, Discover, Lock
  <2>3. CASE GetKeySet(c) \/ ReturnKeySet(c)
    BY <1>0, <2>3, GoToFacts, AnswerFacts, ValidateFacts, StepsAre
    DEF GetKeySet, ReturnKeySet
  <2>4. CASE Fetch(c) \/ StoreKeySet(c)
    BY <1>0, <2>4 DEF Fetch, StoreKeySet, TypeOK
  <2> QED BY <2>1, <2>2, <2>3, <2>4 DEF Serve, FetchJWKS
<1>2. excuses'[d] = excuses[d]
  <2>1. CASE FaultOf(c)
    BY <1>0, <2>1, ExcuseFacts, ExcusesAre DEF FaultOf
  <2>2. CASE UNCHANGED excuses
    BY <2>2
  <2>3. CASE StoreKeySet(c)
    BY <1>0, <2>3 DEF StoreKeySet, TypeOK
  <2> QED BY <1>0, <2>1, <2>2, <2>3, ActorFacts
          DEF Serve, FetchJWKS, GetKeySet, Lock, Lookup, Touch, Owner, FetchFails,
              FindURL, Discover, Fetch, Panic, ReturnKeySet, JWTAuth, Fine, Blameless
<1>3. UNCHANGED <<oldest, newest, apiKeys, made, issuer>>
  BY DEF Serve, FetchJWKS, GetKeySet, Lock, Lookup, Touch, Owner, FetchFails,
         FindURL, Discover, Fetch, Panic, StoreKeySet, ReturnKeySet, JWTAuth,
         world, provider, store, config
<1>4. keySet' = keySet \/ req[d].step \notin {"store", "return"}
  <2>1. CASE StoreKeySet(c)
    <3>1. lock = c /\ lock # d
      BY <1>0, <2>1, StepsAre DEF StoreKeySet, TypeOK
    <3> QED BY <1>0, <3>1, StepsAre DEF TypeOK
  <2>2. CASE keySet' = keySet
    BY <2>2
  <2> QED BY <2>1, <2>2
          DEF Serve, FetchJWKS, GetKeySet, Lock, Lookup, Touch, Owner, FetchFails,
              FindURL, Discover, Fetch, Panic, ReturnKeySet, JWTAuth, cache
<1> QED BY <1>1, <1>2, <1>3, <1>4

\* The steps of the starter: when it stores a key set, it excuses the requests
\* that are between fetching one and returning it.
LEMMA StarterKeeps ==
  ASSUME IInv, FetchJWKS(Starter) \/ StarterStores, NEW d \in Clients
  PROVE  ClientInv(d)'
<1>0. /\ TypeOK /\ ClientInv(d)
      /\ Starter \in Actors /\ d \in Actors \ {Starter}
  BY ActorFacts DEF IInv
<1>1. CASE FetchJWKS(Starter)
  <2>1. req'[d] = req[d]
    <3>1. CASE FetchFails(Starter) \/ FindURL(Starter) \/ Discover(Starter)
      BY <1>0, <3>1, GoToFacts, AnswerFacts, StepsAre
      DEF FetchFails, FindURL, Discover
    <3>2. CASE Fetch(Starter)
      BY <1>0, <3>2 DEF Fetch, TypeOK
    <3> QED BY <1>1, <3>1, <3>2 DEF FetchJWKS
  <2>2. /\ excuses'[d] = excuses[d] /\ keySet' = keySet
        /\ UNCHANGED <<oldest, newest, apiKeys, made, issuer>>
    BY <1>1, ActorFacts DEF FetchJWKS, FetchFails, FindURL, Discover, Fetch,
       Blameless, cache, world, provider, store, config
  <2> QED BY <1>0, <2>1, <2>2, OthersKeep
<1>2. CASE StarterStores
  <2>1. req'[d] = req[d]
    BY <1>0, <1>2, AnswerFacts DEF StarterStores
  <2>2. UNCHANGED <<oldest, newest, apiKeys, made, issuer>>
    BY <1>2 DEF StarterStores, world, provider, store, config
  <2>3. /\ req[d].step = "store" => excuses'[d] = excuses[d] \cup {"overtaken"}
        /\ req[d].step = "return" => excuses'[d] = excuses[d] \cup {"excused"}
        /\ req[d].step \notin {"store", "return"} => excuses'[d] = excuses[d]
    BY <1>0, <1>2 DEF StarterStores, StarterWrites, TypeOK
  <2>4. CASE req[d].step \notin {"store", "return"}
    BY <1>0, <2>1, <2>2, <2>3, <2>4, OthersKeep
  <2>5. CASE req[d].step = "store"
    <3>1. Blamed(d)' <=> Blamed(d)
      BY <2>3, <2>5 DEF Blamed
    <3>2. OnItsWay(d)' /\ Fresh(d)' /\ Detected(d)'
      BY <1>0, <2>1, <2>2, <2>3, <2>5 DEF ClientInv, OnItsWay, Fresh, Detected
    <3>3. Verifiable(d)'
      BY <1>0, <2>1, <2>2, <2>5, <3>1 DEF ClientInv, Verifiable, Published
    <3> QED BY <1>0, <2>1, <2>3, <2>5, <3>1, <3>2, <3>3 DEF ClientInv, OnItsWay
  <2>6. CASE req[d].step = "return"
    <3>1. Blamed(d)'
      BY <2>3, <2>6 DEF Blamed
    <3>2. OnItsWay(d)' /\ Fresh(d)' /\ Detected(d)' /\ Verifiable(d)'
      BY <1>0, <2>1, <2>2, <2>3, <2>6, <3>1
      DEF ClientInv, OnItsWay, Fresh, Detected, Verifiable
    <3> QED BY <1>0, <2>1, <2>3, <2>6, <3>1, <3>2 DEF ClientInv, OnItsWay
  <2> QED BY <2>4, <2>5, <2>6
<1> QED BY <1>1, <1>2

\* A request that arrives keeps to it from the start.
LEMMA StartKeeps ==
  ASSUME IInv, NEW c \in Clients, NEW t \in Issued, Start(c, t)
  PROVE  \A d \in Clients : ClientInv(d)'
<1>0. /\ TypeOK /\ \A d \in Clients : ClientInv(d)
      /\ UNCHANGED <<oldest, newest, apiKeys, made, tenant, keySet, enabled, issuer>>
      /\ c \in Actors /\ apiKeys \subseteq made
  BY ActorFacts DEF IInv, TypeOK, Start, world, provider, store, config, cache
<1>1. /\ \A b \in Actors \ {c} : req'[b] = req[b]
      /\ req'[c].step = FirstStep(t) /\ req'[c].token = t
      /\ req'[c].result = "none" /\ ~req'[c].expired /\ ~req'[c].retried
  BY <1>0, StartType
<1>2. /\ \A d \in Clients \ {c} : excuses'[d] = excuses[d]
      /\ "invalid" \in excuses'[c] <=>
           \/ t.kind = "oidc" /\ ~(enabled /\ issuer)
           \/ t.kind = "apiKey" /\ t.key \notin apiKeys
      /\ "excused" \in excuses'[c] <=> t.kind = "oidc" /\ t.key \notin Published
  BY <1>0 DEF Start, TypeOK
<1>3. ASSUME NEW d \in Clients \ {c} PROVE ClientInv(d)'
  BY <1>0, <1>1, <1>2, <1>3, OthersKeep, ActorFacts
<1>4. t.kind = "apiKey" => t.key \in made
  <2>1. t.kind = "apiKey" => t.kind # "oidc" /\ t.kind # "admin"
    OBVIOUS
  <2> QED BY <2>1 DEF Issued
<1>5. OnItsWay(c)' /\ Fresh(c)' /\ Detected(c)'
  BY <1>0, <1>1, <1>2, <1>4
  DEF OnItsWay, Fresh, Detected, KeySteps, FirstStep
<1>6. Blamed(c)' <=> "invalid" \in excuses'[c] \/ "excused" \in excuses'[c]
  BY DEF Blamed
<1>7. Verifiable(c)'
  BY <1>0, <1>1, <1>2, <1>6 DEF Verifiable, FirstStep, Published
<1>8. ClientInv(c)'
  BY <1>1, <1>5, <1>7 DEF ClientInv
<1> QED BY <1>3, <1>8

\* What the world's changes do to a request: what they take from it excuses it.
LEMMA WorldKeeps ==
  ASSUME IInv, NEW d \in Clients,
         \/ \E k \in KeyIds : CreateAPIKey(k) \/ DeleteAPIKey(k)
         \/ DeleteTenant \/ Rotate \/ Retire
  PROVE  ClientInv(d)'
<1>0. /\ TypeOK /\ ClientInv(d) /\ req' = req
      /\ keySet' = keySet /\ issuer' = issuer
      /\ oldest \in 1 .. newest /\ newest \in 1 .. MaxKeys
      /\ apiKeys \subseteq made
  BY WorldStep DEF IInv, TypeOK, config, cache
<1>1. excuses'[d] = excuses[d] \/ excuses'[d] = excuses[d] \cup {"excused"}
  BY <1>0, ExcuseFacts, ExcusesAre
  DEF CreateAPIKey, DeleteAPIKey, DeleteTenant, Rotate, Retire
<1>2. Blamed(d) => Blamed(d)'
  BY <1>1 DEF Blamed
<1>3. req[d].token.kind = "apiKey" /\ req[d].token.key \in apiKeys =>
        Blamed(d)' \/ req[d].token.key \in apiKeys'
  <2>1. CASE \E k \in KeyIds : CreateAPIKey(k)
    BY <2>1 DEF CreateAPIKey
  <2>2. ASSUME NEW k \in KeyIds, DeleteAPIKey(k), req[d].token.key \in apiKeys,
               req[d].token.kind = "apiKey", req[d].token.key \notin apiKeys'
        PROVE  Blamed(d)'
    <3>1. d \in Using({k})
      BY <2>2 DEF DeleteAPIKey, Using
    <3>2. "excused" \in excuses'[d]
      BY <1>0, <2>2, <3>1, ExcuseFacts, ExcusesAre DEF DeleteAPIKey
    <3> QED BY <3>2 DEF Blamed
  <2>3. ASSUME DeleteTenant, req[d].token.key \in apiKeys,
               req[d].token.kind = "apiKey"
        PROVE  Blamed(d)'
    <3>1. d \in Using(apiKeys)
      BY <2>3 DEF Using
    <3>2. "excused" \in excuses'[d]
      BY <1>0, <2>3, <3>1, ExcuseFacts, ExcusesAre DEF DeleteTenant
    <3> QED BY <3>2 DEF Blamed
  <2>4. CASE Rotate \/ Retire
    BY <2>4 DEF Rotate, Retire, store
  <2> QED BY <2>1, <2>2, <2>3, <2>4
<1>4. req[d].token.kind = "oidc" /\ req[d].token.key \in Published =>
        Blamed(d)' \/ req[d].token.key \in Published'
  <2>1. CASE (\E k \in KeyIds : CreateAPIKey(k) \/ DeleteAPIKey(k)) \/ DeleteTenant
    BY <2>1 DEF CreateAPIKey, DeleteAPIKey, DeleteTenant, provider, Published
  <2>2. CASE Rotate
    BY <1>0, <2>2, BoundsAssumption DEF Rotate, Published
  <2>3. ASSUME Retire, req[d].token.kind = "oidc",
               req[d].token.key \in Published, req[d].token.key \notin Published'
        PROVE  Blamed(d)'
    <3>1. req[d].token.key = oldest
      BY <1>0, <2>3, BoundsAssumption DEF Retire, Published
    <3>2. req[d].token = [kind |-> "oidc", key |-> oldest]
      BY <1>0, <2>3, <3>1, RequestFacts, ActorFacts DEF Token
    <3>3. "excused" \in excuses'[d]
      BY <1>0, <2>3, <3>2, ExcuseFacts, ExcusesAre DEF Retire
    <3> QED BY <3>3 DEF Blamed
  <2> QED BY <2>1, <2>2, <2>3
<1>5. (made \ apiKeys) \subseteq (made' \ apiKeys')
  BY DEF CreateAPIKey, DeleteAPIKey, DeleteTenant, Rotate, Retire, store
<1>6. OnItsWay(d)' /\ Fresh(d)'
  BY <1>0, <1>1 DEF ClientInv, OnItsWay, Fresh
<1>7. Detected(d)'
  BY <1>0, <1>1, <1>5 DEF ClientInv, Detected
<1>8. Verifiable(d)'
  BY <1>0, <1>2, <1>3, <1>4 DEF ClientInv, Verifiable
<1> QED BY <1>0, <1>1, <1>2, <1>6, <1>7, <1>8 DEF ClientInv

\* A token expires.
LEMMA ExpireKeeps ==
  ASSUME IInv, NEW c \in Clients, Expire(c)
  PROVE  \A d \in Clients : ClientInv(d)'
<1>0. /\ TypeOK /\ \A d \in Clients : ClientInv(d)
      /\ UNCHANGED <<oldest, newest, apiKeys, made, issuer, keySet>>
  BY DEF IInv, Expire, world, provider, store, config, cache
<1>1. /\ \A b \in Actors \ {c} : req'[b] = req[b]
      /\ req'[c].expired /\ req'[c].step = req[c].step
      /\ req'[c].token = req[c].token /\ req'[c].result = req[c].result
      /\ req'[c].retried = req[c].retried /\ req'[c].keys = req[c].keys
      /\ excuses'[c] = excuses[c] \cup {"invalid"}
      /\ \A d \in Clients \ {c} : excuses'[d] = excuses[d]
  BY <1>0, ExpireType
<1>2. ASSUME NEW d \in Clients \ {c} PROVE ClientInv(d)'
  BY <1>0, <1>1, OthersKeep, ActorFacts
<1>3. Blamed(c)'
  BY <1>1 DEF Blamed
<1>4. OnItsWay(c)' /\ Fresh(c)' /\ Detected(c)' /\ Verifiable(c)'
  BY <1>0, <1>1, <1>3
  DEF Expire, ClientInv, OnItsWay, Fresh, Detected, Verifiable
<1>5. req'[c].result = "none"
  BY <1>0, <1>1 DEF Expire, ClientInv, OnItsWay
<1> QED BY <1>2, <1>4, <1>5 DEF ClientInv

-----------------------------------------------------------------------------
(* The theorems *)

\* The inductive invariant holds at first.
LEMMA IInvInit == Init => IInv
<1> SUFFICES ASSUME Init PROVE IInv
  OBVIOUS
<1>1. TypeOK
  BY TypeInit
<1>2. \A a \in Actors : req[a].keys = {}
  <2>1. [Idle EXCEPT !.step = "url"].keys = {}
    BY IdleType DEF Idle, NoKeys
  <2> QED BY <2>1, IdleType DEF Init, AtStart
<1>3. KnownInv
  BY <1>2 DEF Init, KnownInv, NoKeys
<1>i. IssuerInv
  <2>1. ~issuer => req = [a \in Actors |-> Idle]
    BY DEF Init, AtStart
  <2> QED BY <2>1, IdleType DEF Init, IssuerInv, NoKeys
<1>4. ASSUME NEW c \in Clients PROVE ClientInv(c)
  <2>1. req[c] = Idle /\ excuses[c] = {}
    BY ActorFacts DEF Init, AtStart
  <2> QED BY <2>1, IdleType
          DEF ClientInv, OnItsWay, Detected, Verifiable, Fresh
<1> QED BY <1>1, <1>3, <1>4, <1>i DEF IInv

\* Every step keeps the inductive invariant.
LEMMA IInvStep == IInv /\ [Next]_vars => IInv'
<1> SUFFICES ASSUME IInv, [Next]_vars PROVE IInv'
  OBVIOUS
<1>0. TypeOK /\ TypeOK' /\ KnownInv' /\ IssuerInv'
  BY TypeStep, KnownStep, IssuerStep DEF IInv
<1>1. ASSUME NEW c \in Clients, Serve(c) \/ GetKeySet(c) \/ Lock(c),
             NEW d \in Clients
      PROVE  ClientInv(d)'
  <2>1. CASE d = c
    BY <1>0, <1>1, <2>1, MoverKeeps
  <2>2. CASE d # c
    BY <1>0, <1>1, <2>2, OneMoves, OthersKeep DEF IInv
  <2> QED BY <2>1, <2>2
<1>2. CASE FetchJWKS(Starter) \/ StarterStores
  BY <1>0, <1>2, StarterKeeps DEF IInv
<1>3. CASE \E c \in Clients, t \in Issued : Start(c, t)
  BY <1>0, <1>3, StartKeeps DEF IInv
<1>4. CASE \/ \E k \in KeyIds : CreateAPIKey(k) \/ DeleteAPIKey(k)
           \/ DeleteTenant \/ Rotate \/ Retire
  BY <1>0, <1>4, WorldKeeps DEF IInv
<1>5. CASE \E c \in Clients : Expire(c)
  BY <1>0, <1>5, ExpireKeeps DEF IInv
<1>6. CASE Restart
  <2>1. ASSUME NEW c \in Clients PROVE ClientInv(c)'
    <3>1. req'[c] = Idle /\ excuses'[c] = {}
      BY <1>0, <1>6, RestartType
    <3> QED BY <3>1, IdleType
            DEF ClientInv, OnItsWay, Detected, Verifiable, Fresh
  <2> QED BY <1>0, <2>1 DEF IInv
<1>7. CASE UNCHANGED vars
  <2>1. ASSUME NEW c \in Clients PROVE ClientInv(c)'
    BY <1>7, OthersKeep DEF IInv, vars, world, provider, store, config, cache
  <2> QED BY <1>0, <2>1 DEF IInv
<1> QED BY <1>0, <1>1, <1>2, <1>3, <1>4, <1>5, <1>6, <1>7
        DEF IInv, Next, Environment

\* Every request keeps to its way through the chain; what is wrong with it will
\* be found, and what is not will be seen not to be.
THEOREM Invariance == Spec => []IInv
<1> QED BY IInvInit, IInvStep, PTL DEF Spec

\* A request with a token that is valid throughout is refused only because a
\* call failed, or because of what the starter stores without the lock; one is
\* accepted only for what its token says.
THEOREM VerdictForReasonSafe == Spec => []VerdictForReason
<1>1. IInv => RefusedForReason
  BY DEF IInv, ClientInv, Blamed, RefusedForReason
<1>2. IInv => AcceptedForReason
  BY DEF IInv, ClientInv, AcceptedForReason
<1>3. IInv => VerdictForReason
  BY <1>1, <1>2 DEF VerdictForReason
<1> QED BY <1>3, Invariance, PTL

\* Of two requests that refresh the key set at once the slower does not undo
\* the work of the faster.
THEOREM NeverOlderSafe == Spec => NeverOlder
<1>1. ASSUME IInv, NEW c \in Clients, StoreKeySet(c), Older
      PROVE  "overtaken" \in excuses[c]
  <2> SUFFICES ASSUME "overtaken" \notin excuses[c] PROVE FALSE
    OBVIOUS
  <2>1. PICK k \in keySet : \A n \in keySet' : n < k
    BY <1>1 DEF Older
  <2>2. PICK n \in req[c].keys : k <= n
    BY <1>1, <2>1 DEF IInv, ClientInv, Fresh, StoreKeySet
  <2>3. n < k /\ k \in Nat /\ n \in Nat
    <3>1. c \in Actors /\ keySet' = req[c].keys
      BY <1>1, ActorFacts DEF StoreKeySet
    <3>2. keySet \subseteq 1 .. newest /\ req[c].keys \subseteq 1 .. newest
      BY <1>1, <3>1 DEF IInv, KnownInv
    <3>3. newest \in Nat
      BY <1>1, BoundsAssumption DEF IInv, TypeOK
    <3> QED BY <2>1, <2>2, <3>1, <3>2, <3>3
  <2> QED BY <2>2, <2>3
<1>2. IInv /\ [Next]_vars =>
        [\A c \in Clients : StoreKeySet(c) /\ Older => "overtaken" \in excuses[c]]_vars
  BY <1>1
<1> QED BY <1>2, Invariance, PTL DEF Spec, NeverOlder

\* An API key that was deleted, or went with its tenant, does not come back.
THEOREM RevokedForGoodSafe == Spec => RevokedForGood
<1>1. ASSUME [Next]_vars PROVE [(made \ apiKeys) \cap apiKeys' = {}]_vars
  <2>1. ASSUME NEW k \in KeyIds, CreateAPIKey(k)
        PROVE  (made \ apiKeys) \cap apiKeys' = {}
    BY <2>1 DEF CreateAPIKey
  <2>2. ASSUME Next, \A k \in KeyIds : ~CreateAPIKey(k)
        PROVE  apiKeys' \subseteq apiKeys
    BY <2>2
    DEF Next, Environment, Start, Serve, FetchJWKS, GetKeySet, Lock, Lookup, Touch,
        Owner, FetchFails, FindURL, Discover, Fetch, Panic, StoreKeySet,
        ReturnKeySet, JWTAuth, StarterStores, DeleteAPIKey, DeleteTenant, Expire,
        Rotate, Retire, Restart, world, store
  <2>3. apiKeys' \subseteq apiKeys => (made \ apiKeys) \cap apiKeys' = {}
    OBVIOUS
  <2> QED BY <1>1, <2>1, <2>2, <2>3
<1> QED BY <1>1, PTL DEF Spec, RevokedForGood

-----------------------------------------------------------------------------
(* Progress, as far as it is a matter of safety *)

\* A request goes along the chain, back once at the most, or to its end.
Advances(c) ==
  /\ \/ req'[c].step \in {req[c].step, "idle"}
     \/ <<req[c].step, req'[c].step>> \in Chain
     \/ /\ req[c].step = "return" /\ req'[c].step = "lock"
        /\ ~req[c].retried /\ req'[c].retried
  /\ req[c].retried => req'[c].retried \/ "idle" \in {req[c].step, req'[c].step}

\* Who does not move, or is answered, advances.
LEMMA RestAdvances ==
  ASSUME NEW c \in Clients, req'[c] = req[c] \/ req'[c].step = "idle"
  PROVE  Advances(c)
BY DEF Advances

\* One step along the chain.
LEMMA GoToAdvances ==
  ASSUME TypeOK, NEW c \in Clients, NEW s \in Steps, GoTo(c, s),
         <<req[c].step, s>> \in Chain
  PROVE  Advances(c)
BY GoToFacts, ActorFacts DEF Advances

\* What validateToken does is a step along the chain, or the one back.
LEMMA ValidateAdvances ==
  ASSUME TypeOK, NEW c \in Clients, NEW ks, Validate(c, ks),
         req[c].step \in {"getKeySet", "return"}
  PROVE  Advances(c)
<1>1. CASE req'[c].step = "idle"
  BY <1>1, RestAdvances
<1>2. CASE req'[c].step = "jwt" /\ req'[c].retried = req[c].retried
  BY <1>2 DEF Advances, Chain
<1>3. CASE req'[c].step = "lock" /\ ~req[c].retried /\ req'[c].retried
  BY <1>3 DEF Advances, Chain
<1> QED BY <1>1, <1>2, <1>3, ValidateFacts

\* Every step of a request advances it.
LEMMA MoverAdvances ==
  ASSUME TypeOK, NEW c \in Clients, Serve(c) \/ GetKeySet(c) \/ Lock(c)
  PROVE  Advances(c)
<1>0. c \in Actors /\ c # Starter
  BY ActorFacts
<1>a. ASSUME NEW r \in {"none", "accepted", "refused", "panic"}, Answer(c, r)
      PROVE  Advances(c)
  BY <1>0, <1>a, AnswerFacts, RestAdvances
<1>1. CASE Lookup(c)
  <2>1. CASE GoTo(c, "touch")
    BY <1>1, <2>1, StepsAre, GoToAdvances DEF Lookup, Chain
  <2> QED BY <1>1, <1>a, <2>1 DEF Lookup
<1>2. CASE Touch(c)
  BY <1>2, StepsAre, GoToAdvances DEF Touch, Chain
<1>3. CASE Owner(c)
  BY <1>3, <1>a DEF Owner
<1>4. CASE GetKeySet(c)
  <2>1. CASE GoTo(c, "lock")
    BY <1>4, <2>1, StepsAre, GoToAdvances DEF GetKeySet, Chain
  <2> QED BY <1>4, <1>a, <2>1, ValidateAdvances DEF GetKeySet
<1>5. CASE Lock(c)
  BY <1>5, StepsAre, GoToAdvances DEF Lock, Chain
<1>6. CASE ReturnKeySet(c)
  BY <1>6, ValidateAdvances DEF ReturnKeySet
<1>7. CASE FetchFails(c)
  BY <1>0, <1>7, StepsAre, GoToAdvances DEF FetchFails, Chain
<1>8. CASE FindURL(c)
  <2>1. PICK s \in {"discover", "fetch"} : GoTo(c, s)
    BY <1>8 DEF FindURL
  <2> QED BY <1>8, <2>1, StepsAre, GoToAdvances DEF FindURL, Chain
<1>9. CASE Discover(c)
  BY <1>9, StepsAre, GoToAdvances DEF Discover, Chain
<1>10. CASE Fetch(c)
  <2>1. /\ req'[c].step = "store" /\ req'[c].retried = req[c].retried
    BY <1>0, <1>10, RequestFacts DEF Fetch, TypeOK, Request
  <2> QED BY <1>10, <2>1 DEF Fetch, Advances, Chain
<1>11. CASE Panic(c)
  BY <1>11, <1>a DEF Panic
<1>12. CASE StoreKeySet(c)
  <2>1. /\ req'[c].step = "return" /\ req'[c].retried = req[c].retried
    BY <1>0, <1>12, RequestFacts DEF StoreKeySet, TypeOK, Request
  <2> QED BY <1>12, <2>1 DEF StoreKeySet, Advances, Chain
<1>13. CASE JWTAuth(c)
  BY <1>13, <1>a DEF JWTAuth
<1> QED BY <1>1, <1>2, <1>3, <1>4, <1>5, <1>6, <1>7, <1>8, <1>9, <1>10, <1>11,
           <1>12, <1>13 DEF Serve, FetchJWKS

\* A step of the starter is none of a request.
LEMMA StarterMoves ==
  ASSUME TypeOK, NEW c \in Clients, FetchJWKS(Starter) \/ StarterStores
  PROVE  req'[c] = req[c]
<1>0. Starter \in Actors /\ c \in Actors \ {Starter}
  BY ActorFacts
<1>1. CASE FetchFails(Starter) \/ FindURL(Starter) \/ Discover(Starter)
  BY <1>0, <1>1, GoToFacts, AnswerFacts, StepsAre
  DEF FetchFails, FindURL, Discover
<1>2. CASE Fetch(Starter)
  BY <1>0, <1>2 DEF Fetch, TypeOK
<1>3. CASE StarterStores
  BY <1>0, <1>3, AnswerFacts DEF StarterStores
<1> QED BY <1>1, <1>2, <1>3 DEF FetchJWKS

\* However often the keys rotate, a token makes the server fetch the key set twice
\* at the most: a request has only so many steps to its answer.
THEOREM RefreshesOnceMoreSafe == Spec => RefreshesOnceMore
<1>1. ASSUME IInv, Next, NEW c \in Clients PROVE Advances(c)
  <2>0. TypeOK
    BY <1>1 DEF IInv
  <2>1. ASSUME NEW d \in Clients, Serve(d) \/ GetKeySet(d) \/ Lock(d)
        PROVE  Advances(c)
    <3>1. CASE d = c
      BY <2>0, <2>1, <3>1, MoverAdvances
    <3>2. CASE d # c
      BY <1>1, <2>0, <2>1, <3>2, OneMoves, RestAdvances
    <3> QED BY <3>1, <3>2
  <2>2. CASE FetchJWKS(Starter) \/ StarterStores
    BY <2>0, <2>2, StarterMoves, RestAdvances
  <2>3. ASSUME NEW d \in Clients, NEW t \in Issued, Start(d, t)
        PROVE  Advances(c)
    <3>1. CASE d = c
      <4>1. /\ req[c].step = "idle" /\ req'[c].step = FirstStep(t)
        BY <2>0, <2>3, <3>1, StartType DEF Start
      <4> QED BY <4>1 DEF FirstStep, Advances, Chain
    <3>2. CASE d # c
      BY <2>0, <2>3, <3>2, StartType, ActorFacts, RestAdvances
    <3> QED BY <3>1, <3>2
  <2>4. CASE \/ \E k \in KeyIds : CreateAPIKey(k) \/ DeleteAPIKey(k)
             \/ DeleteTenant \/ Rotate \/ Retire
    BY <2>0, <2>4, WorldStep, RestAdvances
  <2>5. ASSUME NEW d \in Clients, Expire(d) PROVE Advances(c)
    <3>1. CASE d = c
      BY <2>0, <2>5, <3>1, ExpireType DEF Advances
    <3>2. CASE d # c
      BY <2>0, <2>5, <3>2, ExpireType, ActorFacts, RestAdvances
    <3> QED BY <3>1, <3>2
  <2>6. CASE Restart
    BY <2>0, <2>6, RestartType, IdleType, RestAdvances
  <2> QED BY <1>1, <2>1, <2>2, <2>3, <2>4, <2>5, <2>6 DEF Next, Environment
<1>2. IInv /\ [Next]_vars =>
        [\A c \in Clients :
           /\ \/ req'[c].step \in {req[c].step, "idle"}
              \/ <<req[c].step, req'[c].step>> \in Chain
              \/ /\ req[c].step = "return" /\ req'[c].step = "lock"
                 /\ ~req[c].retried /\ req'[c].retried
           /\ req[c].retried => req'[c].retried \/ "idle" \in {req[c].step, req'[c].step}]_vars
  BY <1>1 DEF Advances
<1> QED BY <1>2, Invariance, PTL DEF Spec, RefreshesOnceMore
=============================================================================
