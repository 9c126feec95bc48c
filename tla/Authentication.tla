---------------------------- MODULE Authentication ----------------------------
(***************************************************************************)
(* How the API server authenticates a request: the chain that              *)
(* apiserver/router/router.go builds of APIKeyAuth, OIDCAuth and JWTAuth   *)
(* (apiserver/middleware), over the table of API keys and the cached key   *)
(* set of the identity provider.                                           *)
(*                                                                         *)
(* Requests run concurrently.  A request fetches and replaces the key set  *)
(* under a lock; the goroutine that OIDCAuth starts runs the same code     *)
(* without it.  Memory is read and written by the word, and the interface  *)
(* keySet and the string jwksURL have two: who reads one of them while the *)
(* other side sets it for the first time may see one half, and panics on   *)
(* using it.  (One that sees the old half only has read before the write.) *)
(***************************************************************************)
EXTENDS Integers

CONSTANTS
  Clients,      \* handler goroutines
  Starter,      \* the goroutine of OIDCAuth
  KeyIds,       \* API keys
  Nobody,
  MaxKeys,      \* bound on the provider's signing keys
  MaxRequests,  \* bound on the requests sent
  MaxChanges,   \* bound on the changes made to keys and tenants
  MaxFaults     \* bound on failing calls and restarts

Actors == Clients \cup {Starter}

\* A key set that was fetched is not empty; the empty one stands for nil.
KeySets == (SUBSET (1 .. MaxKeys)) \ {{}}
NoKeys == {}

ASSUME BoundsAssumption ==
  /\ MaxKeys \in Nat \ {0} /\ MaxRequests \in Nat
  /\ MaxChanges \in Nat /\ MaxFaults \in Nat

ASSUME NoneAssumption ==
  Starter \notin Clients /\ Nobody \notin Actors

VARIABLES
  oldest, newest, \* the provider publishes and signs with oldest .. newest
  apiKeys,        \* the rows of api_keys
  made,           \* history: every API key there has been
  tenant,         \* the row of the keys' tenant exists
  enabled,        \* OIDCConfig.Enabled
  issuer,         \* OIDCConfig.IssuerURL is not empty
  jwksURL,        \* m.jwksURL: "unknown" or "known"
  keySet,         \* m.keySet
  lock,           \* who holds m.mu for writing, or Nobody
  req,            \* req[a]: what goroutine a is at
  excuses,        \* history: what the refusal of a's request may be owed to
  sent, changes, faults

provider == <<oldest, newest>>
store == <<apiKeys, made, tenant>>
cache == <<jwksURL, keySet, lock>>
config == <<enabled, issuer>>
world == <<provider, store, config>>
vars == <<world, cache, req, excuses, sent, changes, faults>>

Published == oldest .. newest

\* A token of the provider, signed with one of its keys; a token of
\* HandleAdminLogin, which verifies with no key of the provider; an API key.
Token == [kind : {"oidc", "admin"}, key : 0 .. MaxKeys]
           \cup [kind : {"apiKey"}, key : KeyIds]

NoToken == [kind |-> "admin", key |-> 0]

FetchSteps == {"url", "discover", "fetch", "store"}
Locked == FetchSteps \cup {"return"}
Steps == Locked \cup {"idle", "lookup", "touch", "owner", "getKeySet",
                      "lock", "jwt"}

\* keys: the local variable ks of fetchJWKS; retried: validateToken refreshes
\* the key set because its first one did not verify the token.
Request == [step : Steps, token : Token, expired : BOOLEAN,
            keys : KeySets \cup {NoKeys}, retried : BOOLEAN,
            result : {"none", "accepted", "refused", "panic"}]

Idle == [step |-> "idle", token |-> NoToken, expired |-> FALSE, keys |-> NoKeys,
         retried |-> FALSE, result |-> "none"]

\* "invalid": the token has expired, its provider is not enabled or has no URL, the
\* API key was deleted before; "excused": it was withdrawn, a call failed, or the starter
\* raced with the request; "overtaken": the starter stored a key set after the
\* request had fetched one.
Excuses == {"invalid", "excused", "overtaken"}

\* OIDCAuth starts its goroutine, other requests have yet to come.
AtStart == [a \in Actors |-> IF a = Starter /\ enabled /\ issuer
                               THEN [Idle EXCEPT !.step = "url"] ELSE Idle]

Init ==
  /\ oldest = 1 /\ newest = 1
  /\ apiKeys = {} /\ made = {} /\ tenant = TRUE
  /\ enabled \in BOOLEAN /\ issuer \in BOOLEAN
  /\ jwksURL = "unknown" /\ keySet = NoKeys /\ lock = Nobody
  /\ req = AtStart
  /\ excuses = [c \in Clients |-> {}]
  /\ sent = 0 /\ changes = 0 /\ faults = 0

Fault == faults < MaxFaults /\ faults' = faults + 1
NoFault == UNCHANGED faults
Change == changes < MaxChanges /\ changes' = changes + 1

GoTo(a, s) == req' = [req EXCEPT ![a].step = s]
Answer(c, r) == req' = [req EXCEPT ![c] = [Idle EXCEPT !.result = r]]

Excuse(who, e) ==
  excuses' = [c \in Clients |-> IF c \in who THEN excuses[c] \cup {e}
                                             ELSE excuses[c]]
Blameless == UNCHANGED excuses

\* A call of c fails.
FaultOf(c) == Fault /\ Excuse({c}, "excused")
Fine == NoFault /\ Blameless

-----------------------------------------------------------------------------
(* A request arrives.  One without a token is refused at once. *)

Issued == {t \in Token : CASE t.kind = "oidc" -> t.key \in 1 .. newest
                           [] t.kind = "admin" -> t.key = 0
                           [] t.kind = "apiKey" -> t.key \in made}

FirstStep(t) == IF t.kind = "apiKey" THEN "lookup"
                ELSE IF enabled THEN "getKeySet" ELSE "jwt"

\* A token that has expired before is one that Expire takes now.
Start(c, t) ==
  /\ req[c].step = "idle" /\ sent < MaxRequests
  /\ sent' = sent + 1
  /\ req' = [req EXCEPT ![c] = [Idle EXCEPT !.token = t, !.step = FirstStep(t)]]
  /\ excuses' = [excuses EXCEPT ![c] =
       {e \in {"invalid"} : \/ t.kind = "oidc" /\ ~(enabled /\ issuer)
                            \/ t.kind = "apiKey" /\ t.key \notin apiKeys}
         \cup {e \in {"excused"} : t.kind = "oidc" /\ t.key \notin Published}]
  /\ UNCHANGED <<world, cache, changes, faults>>

-----------------------------------------------------------------------------
(* APIKeyAuth, ValidateAPIKey: three statements, each of its own *)

Lookup(c) ==
  /\ req[c].step = "lookup"
  /\ \/ req[c].token.key \in apiKeys /\ GoTo(c, "touch") /\ Fine
     \/ req[c].token.key \notin apiKeys /\ Answer(c, "refused") /\ Fine
     \/ Answer(c, "refused") /\ FaultOf(c)
  /\ UNCHANGED <<world, cache, sent, changes>>

\* An update that inserts the row if there is none.
MistakeTouch(c) ==
  /\ req[c].step = "touch"
  /\ apiKeys' = apiKeys \cup {req[c].token.key}
  /\ GoTo(c, "owner")
  /\ UNCHANGED <<provider, made, tenant, config, cache, excuses, sent, changes,
                 faults>>

\* UPDATE ... SET last_used_at, of a row that may be gone; errors are ignored.
Touch(c) ==
  /\ req[c].step = "touch"
  /\ GoTo(c, "owner")
  /\ UNCHANGED <<world, cache, excuses, sent, changes, faults>>

Owner(c) ==
  /\ req[c].step = "owner"
  /\ \/ tenant /\ Answer(c, "accepted") /\ Fine
     \/ ~tenant /\ Answer(c, "refused") /\ Fine
     \/ Answer(c, "refused") /\ FaultOf(c)
  /\ UNCHANGED <<world, cache, sent, changes>>

-----------------------------------------------------------------------------
(* OIDCAuth: validateToken, getKeySet and refreshKeySet *)

Verifies(c, ks) == req[c].token.kind = "oidc" /\ req[c].token.key \in ks

\* A key set that does not verify the token is not fetched again.
MistakeValidate(c, ks) ==
  \/ Verifies(c, ks) /\ Answer(c, "accepted")
  \/ ~Verifies(c, ks) /\ GoTo(c, "jwt")

\* What validateToken makes of a key set.  A token that does not verify is tried
\* once more with a fresh one; then it falls through to JWTAuth, as one does
\* that verifies and has expired.
Validate(c, ks) ==
  \/ Verifies(c, ks) /\ ~req[c].expired /\ Answer(c, "accepted")
  \/ Verifies(c, ks) /\ req[c].expired /\ GoTo(c, "jwt")
  \/ /\ ~Verifies(c, ks) /\ ~req[c].retried
     /\ req' = [req EXCEPT ![c].step = "lock", ![c].retried = TRUE]
  \/ ~Verifies(c, ks) /\ req[c].retried /\ GoTo(c, "jwt")

\* Under the read lock: no request is writing.  The starter may be.
GetKeySet(c) ==
  /\ req[c].step = "getKeySet" /\ lock = Nobody
  /\ \/ keySet = NoKeys /\ GoTo(c, "lock")
     \/ keySet # NoKeys /\ Validate(c, keySet)
     \/ keySet = NoKeys /\ req[Starter].step = "store" /\ Answer(c, "panic")
  /\ UNCHANGED <<world, cache, excuses, sent, changes, faults>>

\* Refreshing does not exclude other requests.
MistakeLock(c) ==
  /\ req[c].step = "lock"
  /\ lock' = c /\ GoTo(c, "url")
  /\ UNCHANGED <<world, jwksURL, keySet, excuses, sent, changes, faults>>

Lock(c) ==
  /\ req[c].step = "lock" /\ lock = Nobody
  /\ lock' = c /\ GoTo(c, "url")
  /\ UNCHANGED <<world, jwksURL, keySet, excuses, sent, changes, faults>>

\* return m.keySet, and the deferred unlock.  It need not be the set that the
\* request stored: the starter may have stored its own since.
ReturnKeySet(c) ==
  /\ req[c].step = "return"
  /\ Validate(c, keySet)
  /\ lock' = Nobody
  /\ UNCHANGED <<world, jwksURL, keySet, excuses, sent, changes, faults>>

-----------------------------------------------------------------------------
(* fetchJWKS, by a request that holds the lock or by the starter *)

\* A fetch that fails leaves the lock as it is.
MistakeFetchFails(a) ==
  /\ req[a].step \in {"discover", "fetch"}
  /\ \/ a \in Clients /\ GoTo(a, "jwt") /\ FaultOf(a)
     \/ a = Starter /\ Answer(a, "none") /\ Fault /\ Blameless
  /\ UNCHANGED <<world, cache, sent, changes>>

\* Either call fails, or takes more than 10 seconds; without an issuer the first
\* has no host to go to.  The key set stays what it was, the lock is released, the
\* token is left to JWTAuth.
FetchFails(a) ==
  /\ req[a].step \in {"discover", "fetch"}
  /\ \/ /\ a \in Clients /\ GoTo(a, "jwt")
        /\ FaultOf(a) \/ (~issuer /\ Fine)
        /\ lock' = Nobody
     \/ a = Starter /\ Answer(a, "none") /\ Fault /\ Blameless /\ UNCHANGED lock
  /\ UNCHANGED <<world, jwksURL, keySet, sent, changes>>

FindURL(a) ==
  /\ req[a].step = "url"
  /\ GoTo(a, IF jwksURL = "unknown" THEN "discover" ELSE "fetch")
  /\ UNCHANGED <<world, cache, excuses, sent, changes, faults>>

\* a reads a URL that b may be writing.
ReadsHalfURL(a, b) == /\ req[a].step = "url" /\ req[b].step = "discover"
                      /\ jwksURL = "unknown"

\* The panic unwinds past the deferred unlock, and is recovered by the router.
\* The starter has no one to recover it: see Restart.
Panic(c) ==
  /\ ReadsHalfURL(c, Starter)
  /\ Answer(c, "panic")
  /\ lock' = Nobody
  /\ UNCHANGED <<world, jwksURL, keySet, excuses, sent, changes, faults>>

Discover(a) ==
  /\ req[a].step = "discover" /\ issuer
  /\ jwksURL' = "known"
  /\ GoTo(a, "fetch")
  /\ UNCHANGED <<world, keySet, lock, excuses, sent, changes, faults>>

Fetch(a) ==
  /\ req[a].step = "fetch"
  /\ req' = [req EXCEPT ![a].step = "store", ![a].keys = Published]
  /\ UNCHANGED <<world, cache, excuses, sent, changes, faults>>

\* m.keySet = ks, by a request: nobody reads it meanwhile.
StoreKeySet(c) ==
  /\ req[c].step = "store"
  /\ keySet' = req[c].keys
  /\ req' = [req EXCEPT ![c].step = "return", ![c].keys = NoKeys]
  /\ excuses' = [excuses EXCEPT ![c] = @ \ {"overtaken"}]
  /\ UNCHANGED <<world, jwksURL, lock, sent, changes, faults>>

\* The starter's write comes before that of a request that has fetched a key
\* set, or between that write and the request's return.
StarterWrites ==
  excuses' = [c \in Clients |-> excuses[c]
    \cup (IF req[c].step = "store" THEN {"overtaken"} ELSE {})
    \cup (IF req[c].step = "return" THEN {"excused"} ELSE {})]

\* m.keySet = ks, by the starter, also while a request holds the lock.
StarterStores ==
  /\ req[Starter].step = "store"
  /\ keySet' = req[Starter].keys
  /\ Answer(Starter, "none")
  /\ StarterWrites
  /\ UNCHANGED <<world, jwksURL, lock, sent, changes, faults>>

-----------------------------------------------------------------------------
(* The rest of the chain *)

\* Any token that has not expired is taken for one of HandleAdminLogin.
MistakeJWTAuth(c) ==
  /\ req[c].step = "jwt"
  /\ Answer(c, IF req[c].expired THEN "refused" ELSE "accepted")
  /\ UNCHANGED <<world, cache, excuses, sent, changes, faults>>

\* JWTAuth takes the tokens of HandleAdminLogin, which are signed with HMAC.
JWTAuth(c) ==
  /\ req[c].step = "jwt"
  /\ Answer(c, IF req[c].token.kind = "admin" /\ ~req[c].expired
                 THEN "accepted" ELSE "refused")
  /\ UNCHANGED <<world, cache, excuses, sent, changes, faults>>

-----------------------------------------------------------------------------
(* What happens meanwhile *)

\* api_keys.tenant_id refers to a tenant.
CreateAPIKey(k) ==
  /\ k \notin made /\ tenant /\ Change
  /\ apiKeys' = apiKeys \cup {k} /\ made' = made \cup {k}
  /\ UNCHANGED <<provider, tenant, config, cache, req, excuses, sent, faults>>

Using(ks) == {c \in Clients : /\ req[c].token.kind = "apiKey"
                               /\ req[c].token.key \in ks}

DeleteAPIKey(k) ==
  /\ k \in apiKeys /\ Change
  /\ apiKeys' = apiKeys \ {k}
  /\ Excuse(Using({k}), "excused")
  /\ UNCHANGED <<provider, made, tenant, config, cache, req, sent, faults>>

\* ON DELETE CASCADE.
DeleteTenant ==
  /\ tenant /\ Change
  /\ tenant' = FALSE /\ apiKeys' = {}
  /\ Excuse(Using(apiKeys), "excused")
  /\ UNCHANGED <<provider, made, config, cache, req, sent, faults>>

Expire(c) ==
  /\ req[c].step # "idle" /\ req[c].token.kind # "apiKey" /\ ~req[c].expired
  /\ req' = [req EXCEPT ![c].expired = TRUE]
  /\ Excuse({c}, "invalid")
  /\ UNCHANGED <<world, cache, sent, changes, faults>>

Rotate ==
  /\ newest < MaxKeys /\ Change
  /\ newest' = newest + 1
  /\ UNCHANGED <<oldest, store, config, cache, req, excuses, sent, faults>>

Retire ==
  /\ oldest < newest /\ Change
  /\ oldest' = oldest + 1
  /\ Excuse({c \in Clients : req[c].token = [kind |-> "oidc", key |-> oldest]},
            "excused")
  /\ UNCHANGED <<newest, store, config, cache, req, sent, faults>>

\* The server stops, by itself or because the starter used half a URL.
Restart ==
  /\ \/ Fault
     \/ (\E c \in Clients : ReadsHalfURL(Starter, c)) /\ NoFault
  /\ jwksURL' = "unknown" /\ keySet' = NoKeys /\ lock' = Nobody
  /\ req' = AtStart
  /\ excuses' = [c \in Clients |-> {}]
  /\ UNCHANGED <<world, sent, changes>>

-----------------------------------------------------------------------------

FetchJWKS(a) == FetchFails(a) \/ FindURL(a) \/ Discover(a) \/ Fetch(a)

\* The steps of a request that wait for no one.
Serve(c) == Lookup(c) \/ Touch(c) \/ Owner(c) \/ FetchJWKS(c)
              \/ Panic(c) \/ StoreKeySet(c) \/ ReturnKeySet(c) \/ JWTAuth(c)

Environment ==
  \/ \E k \in KeyIds : CreateAPIKey(k) \/ DeleteAPIKey(k)
  \/ \E c \in Clients : Expire(c)
  \/ DeleteTenant \/ Rotate \/ Retire \/ Restart

Next ==
  \/ \E c \in Clients, t \in Issued : Start(c, t)
  \/ \E c \in Clients : Serve(c) \/ GetKeySet(c) \/ Lock(c)
  \/ FetchJWKS(Starter) \/ StarterStores
  \/ Environment

\* As long as some goroutine can go on, one does.
Fairness ==
  WF_vars(/\ \/ \E c \in Clients : Serve(c) \/ GetKeySet(c) \/ Lock(c)
             \/ FetchJWKS(Starter) \/ StarterStores
          /\ NoFault)

Spec == Init /\ [][Next]_vars /\ Fairness

-----------------------------------------------------------------------------
(* Properties *)

\* Types; and the write lock is held by exactly the request that is between
\* m.mu.Lock and the deferred unlock of refreshKeySet.
TypeOK ==
  /\ oldest \in 1 .. newest /\ newest \in 1 .. MaxKeys
  /\ apiKeys \subseteq made /\ made \subseteq KeyIds
  /\ tenant \in BOOLEAN /\ enabled \in BOOLEAN /\ issuer \in BOOLEAN
  /\ jwksURL \in {"unknown", "known"}
  /\ keySet \in KeySets \cup {NoKeys}
  /\ lock \in Clients \cup {Nobody}
  /\ req \in [Actors -> Request]
  /\ excuses \in [Clients -> SUBSET Excuses]
  /\ sent \in 0 .. MaxRequests
  /\ changes \in 0 .. MaxChanges /\ faults \in 0 .. MaxFaults
  /\ \A c \in Clients : lock = c <=> req[c].step \in Locked

\* A request with a token that is valid throughout is refused only because a
\* call failed, or because the starter stored its key set, without the lock,
\* between the request's store and its return: a key rotated in after the last
\* fetch is found by fetching once more, whatever other requests do meanwhile.
RefusedForReason ==
  \A c \in Clients :
    req[c].result = "refused" => excuses[c] \cap {"invalid", "excused"} # {}

\* A request is accepted only for what its token says: the provider's when it is
\* configured and the token has not expired, the server's own likewise, an API key
\* that had not been deleted when the request came.
AcceptedForReason ==
  \A c \in Clients : req[c].result = "accepted" => "invalid" \notin excuses[c]

\* Whatever overlaps with a request, its verdict is the one that its token
\* deserves, but for the failures and the race that RefusedForReason names.
VerdictForReason == RefusedForReason /\ AcceptedForReason

\* Replaced by one that the provider published earlier.
Older == /\ {keySet, keySet'} \subseteq KeySets
         /\ \E k \in keySet : \A n \in keySet' : n < k

\* A request replaces the cached key set only by one that the provider published
\* no earlier: of two that refresh it at once the slower does not undo the work
\* of the faster.  Only the starter, which takes no lock, may do so, or be
\* undone by a request that fetched before the starter stored.
NeverOlder ==
  [][\A c \in Clients : StoreKeySet(c) /\ Older => "overtaken" \in excuses[c]]_vars

\* An API key that was deleted, or went with its tenant, does not come back:
\* the update that every use of it makes does not restore it.
RevokedForGood == [][(made \ apiKeys) \cap apiKeys' = {}]_vars

\* The chain, from one step to the next.
Chain == {<<"idle", "lookup">>, <<"lookup", "touch">>, <<"touch", "owner">>,
          <<"idle", "getKeySet">>, <<"getKeySet", "lock">>, <<"lock", "url">>,
          <<"url", "discover">>, <<"url", "fetch">>, <<"discover", "fetch">>,
          <<"fetch", "store">>, <<"store", "return">>,
          <<"idle", "jwt">>, <<"getKeySet", "jwt">>, <<"discover", "jwt">>,
          <<"fetch", "jwt">>, <<"return", "jwt">>}

\* A request goes along the chain until it is answered.  It goes back once at the
\* most, to refresh the key set a second time: however often the provider
\* rotates its keys, one token does not make the server fetch them again and
\* again.
RefreshesOnceMore ==
  [][\A c \in Clients :
       /\ \/ req'[c].step \in {req[c].step, "idle"}
          \/ <<req[c].step, req'[c].step>> \in Chain
          \/ /\ req[c].step = "return" /\ req'[c].step = "lock"
             /\ ~req[c].retried /\ req'[c].retried
       /\ req[c].retried => req'[c].retried \/ "idle" \in {req[c].step, req'[c].step}]_vars

\* Every request is answered, whatever the provider does: a fetch that fails
\* does not keep the lock that all others wait for.
Answered == \A c \in Clients : req[c].step # "idle" ~> req[c].step = "idle"
=============================================================================
