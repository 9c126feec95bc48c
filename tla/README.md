# A verification of kuberless in TLA+

kuberless is a small platform-as-a-service on Kubernetes. Users describe
*tenants* and *apps* through an API server (or with kubectl); an operator turns
each App object into a Knative Service with its DomainMappings, and each Tenant
object into a namespace with a Capsule tenant, a network policy and a quota.
The modules in this directory model the parts of it that keep state and act
concurrently, TLC checks them on small instances, and TLAPS proves the most
important properties for every value of the constants.

Paths below are relative to the repository's `src/`.

## 1. Inventory

| Component | State | Operations | Interacts with |
|---|---|---|---|
| App controller, `operator/controller/app_controller.go`, `operator/reconciler/{knative,domain}.go` | App objects, Knative Services, DomainMappings (in Kubernetes); the informer's cache and the work queue (in memory) | `Reconcile`, `reconcileDelete`, `setFailed` | users and API server (App objects), Knative (status), Tenant objects (read) |
| Tenant controller, `operator/controller/tenant_controller.go`, `operator/reconciler/{namespace,capsule,cilium,resourcequota}.go` | Tenant objects, Namespaces, Capsule tenants, policies, quotas | `Reconcile`, `reconcileDelete`, `setFailed` | users and API server, App objects (list, delete), the namespace controller |
| App service, `apiserver/service/app.go`, `apiserver/handler/app.go` | `apps` rows in Postgres, App objects | Create, Update, Delete, Redeploy, UpdateEnv, PatchEnv, AddDomain, RemoveDomain | store, CRD client, the App controller through the App object |
| Tenant service, `apiserver/service/tenant.go` | `tenants`, `tenant_members` rows, Tenant objects | Create, Update, Delete, access check | store, CRD client |
| Store and adapters, `apiserver/store`, `apiserver/adapter` | Postgres | one SQL statement or CRD call per method | the services |
| Rate limiter, `apiserver/middleware/ratelimit.go` | a map of token buckets | `allow`, `cleanup` | every request |
| Authentication, `apiserver/middleware/{apikey,oidc,jwt}.go`, `apiserver/store/apikey.go` | `api_keys` rows; the cached key set of `oidc.go`, its URL and its lock | checks of API keys and tokens, refresh of the key set, the fetch at start-up | every request, the identity provider, the API key handlers |
| Log streaming, `adapter.go` `StreamLogs`, `apiserver/handler/logs.go` | one channel and one goroutine per request | list, open, scan, send; receive; cancel | pods, clients |
| Command line, `cli/` | a configuration file | `deploy` with its polling, `apps`, `env`, commands of one request | API server, and through it the operator |
| Router, start-up, other handlers | none after start-up | order of the middleware, decoding and encoding | |
| Frontend, charts, scripts, generated code | none that matters here | | |

What is hard, and where:

* *Stale reads.* The controllers read typed objects from informer caches
  (unstructured ones, such as Knative Services, are read live), so a reconcile
  may work on an object that was changed, deleted or created again since.
* *Whole-object writes.* Reconciles and requests write back everything they read.
  Kubernetes refuses such a write when the object has changed; Postgres does not.
* *Partial failure.* Every reconcile and every request is a sequence of remote
  calls, each of which can fail before or after it took effect. Some errors end
  the sequence, some are only logged.
* *Crashes.* Work queue, timers and requests in flight are lost on a restart.
* *Memory shared without a lock.* The goroutine that fetches the first key set
  writes the fields that requests read and replace under one.
* *Bounded channels.* A goroutine that sends to a client that has left must find out.
* *Lost answers.* A command may time out on a request that the server carries out.
* *Progress.* Knative Services and DomainMappings are not watched: the operator
  moves on only through events on its own objects, errors and `RequeueAfter`.

What makes each part correct:

* Both controllers: resources do not outlive the object that owns them; what users
  write is not taken back; nothing is forgotten; in the end the cluster is what
  the spec says.
* App service: the App object shows a committed state of the row, and follows it;
  what is deleted stays deleted; concurrent changes add up.
* Tenant service: a tenant has an owner, and row and object live and die together.
* Authentication: who is entitled gets in and nobody else does, while keys rotate, API
  keys are deleted and the cache is refreshed; no request waits for ever.
* Log streaming: no line is lost, doubled or out of order, "done" means complete, and
  the goroutine ends when its client is gone.
* Command line: a command changes the app it found, and what it reports is about what
  it did.
* Rate limiter: the rate holds in every window; forgetting idle clients is invisible.

All hazards are in `PROJECT.json`, each with its line and the properties on it.

## 2. Modules

| Module | What it is |
|---|---|
| `FinalizerProtocol` | abstract: an object owns outside resources only while a finalizer holds it, except for those whose clean-up was *abandoned* |
| `CustomResource` | abstract: the contract between clients and operator on one custom resource: who creates it, edits its spec, guards it, asks for its deletion and lets it go |
| `AppController`, `MCAppController` | the App controller on its runtime, with users, Knative and faults; implements `FinalizerProtocol` |
| `AppControllerProofs` | theorems about `AppController` |
| `TenantController`, `MCTenantController` | the Tenant controller, with the namespace controller and apps; implements `FinalizerProtocol` |
| `TenantControllerProofs` | theorems about `TenantController` |
| `AppService`, `MCAppService` | requests on one app of one tenant, call by call |
| `AppServiceProofs` | theorems about `AppService` |
| `TenantService` | requests on one tenant name, with the access check before them |
| `TenantServiceProofs` | theorems about `TenantService` |
| `Authentication` | concurrent requests through the chain of middleware, with key rotation, API keys and restarts |
| `AuthenticationProofs` | theorems about `Authentication` |
| `LogStream` | one request for logs: handler, goroutine, channel and pods |
| `LogStreamProofs` | theorems about `LogStream` |
| `CommandLine`, `MCCommandLine` | commands in several terminals on one app name, against server, operator and Knative |
| `CommandLineProofs` | theorems about `CommandLine` |
| `TokenBucket` | abstract: one bucket per client, kept for ever and refilled all the time |
| `RateLimiter` | lazy refill and clean-up of stale buckets; implements `TokenBucket` |
| `RateLimiterProofs` | theorems about `RateLimiter` |

`FinalizerProtocol` is the interface to the outside: what a custom resource may leave in
Knative, Capsule or the cluster, and when. `CustomResource` is the interface between the
two programs, which meet in App and Tenant objects and nowhere else. The controllers show
the operator's writes of such an object call by call and reduce its clients to `CreateApp`,
`EditSpec`, `DeleteApp` and their like; `AppService` and `TenantService` show a client's
writes call by call and reduce the operator to `Reconcile` and `Finish`. All four keep the
contract (`KeepsContract`), on the side that they show in detail *and* on the one that they
reduce: both sides of every model are moves of one and the same contract, and what a model
lets the other side do is not more than that. That it is not less is for the reader:
`OperatorStep` and `ClientStep` have two and three moves, and each model has them all. `TenantController`'s apps are stages of `FinalizerProtocol`, and what
happens to them there is what the protocol lets happen (`AppsKeepProtocol`).
`CommandLine` composes the layers from a user's point of view: a request to the server and a
reconcile are one step each there, because what happens inside them is what `AppService`
and `AppController` are about.

Definitions named `Mistake...` are not part of any model. Each is a plausible bug
of the definition after it; put in that definition's place it makes the property
named in `PROJECT.json` under `mutants` fail, which shows what the property sees.

### AppController

State: `app` (objects in the API server), `cache` and `stale` (the informer),
`service`, `mapping` (Knative), `queue`, `delayed` (the work queue and its
timers), `w` (the worker: where it is in `Reconcile`, and its local copy of the
object). Every call to the Kubernetes API is one action, named after what the code
does: `AddFinalizer`, `SetPending`, `PauseDelete`, `DeployService`, `ListDomains`,
`CreateDomain`, `PutStatus`, and so on; `Stage` is the order of the tests in
`Reconcile`. A call may succeed, be refused, fail without effect or fail *with*
effect (`Errored`).

Resource versions are replaced by what they are compared for: `w.fresh` says that
nobody wrote the object since the worker's copy was taken. `CacheSync` brings the
informer to the newest version at once; informers may skip versions, and a later
one is always possible next, so this loses only runs in which the cache lags
behind by one version when it could lag by two. One worker runs (the manager's
default), and one operator at a time: leader election is off by default and the
chart deploys one replica.

The Knative template is one field (`image`). `DeployService` is the Get and the Create
or Update after it; a conflict with Knative's own status write in between counts
as a failing call. A deployed Service is ready some time later
(`KnativeReports`), and may report the readiness of the previous template until
then, which is why `Service.seen` is there.

`lost` is a history variable: the apps for which a failed delete was only logged.

### TenantController

State: the Tenant with its informer, the namespace (`none`, `active`,
`terminating`) with an informer of its own, the Capsule tenant and the policy as
"does it exist", the quota as the plan it was computed from, with an informer, and
the apps as stages of `FinalizerProtocol`. Capsule tenant and policy are unstructured
objects, which controller-runtime's client reads from the API server; namespace,
quota and apps are read from the cache. `NamespaceGone` and `NamespaceDeletesApp` are
Kubernetes' namespace controller. `lost` here also records a namespace that was
not deleted because the cache did not show it.

Left out: labels of the namespace, the content of policy and Capsule spec, the count of
active apps in the status.

### AppService

State: `row` (Postgres), `cr` (the App object), `job` (one request per handler goroutine: which
call is next, the request, the id in its URL, the copy of the row). The steps of a
request are `Read`, then `InsertRow`, `UpdateRow` or `DeleteRow`, then `GetCR`,
`CreateCR`, `UpdateCR` or `DeleteCR`. `current` says whose copy of the object has the
latest resource version. `Applied` is what the eight operations do to the copy.

The service keeps an app's domains, comma-separated, in the variable `_domains` of its
environment: `env.domains` is `NoDomains` or the set of hosts that it lists, which is empty,
and the variable still there, when the last one was removed. `buildAppSpec` copies this
variable like any other and leaves `customDomains`, from which the operator makes
DomainMappings, empty (`Exported`). Timestamps are left out, so that a Redeploy is a write
of an equal spec, or of one with the variables in another order (`buildAppSpec` ranges over a
Go map).

Two history variables say when the object has to show the row. `alone` has the clients whose
request nothing has disturbed: no other request ran meanwhile, no call of it failed, and it
did not find an object that terminates. `excuses` has what came between row and object since
such a request last copied the one to the other: an overlap of requests, a fault, a conflict
with the operator's own write, an object that still terminates. The last call of an
undisturbed request empties it, whatever went wrong before: `InSyncUnlessExcused` says that
nothing else keeps the object from showing the row, and that no accident outlasts the next
undisturbed request that gets as far as the object.

One app name of one tenant is modelled: requests on different names share nothing.
A server without a Kubernetes client is not modelled.

### TenantService

State: `row` and `members` (Postgres), `cr` (the Tenant object), `issued` (the ids given
out), `job` (the requests, as in `AppService`). `Create` is `InsertRow`, `AddMember`, `CreateCR`;
`Update` and `Delete` begin with `Access`, the membership query of the middleware, and
`Read`. The rows of `members` refer to a tenant and go with it, as the schema says. The
service's store is `TenantStoreAdapter`: two statements on its own connection pool, not the
transaction of `store.CreateTenant`. Display name and plan, which an update may change, are
one field. `Reconcile` and `Finish` are what `TenantController` does to the object.
`excuses` is the history variable of `AppService`.

One tenant name is modelled, with as many tenants in turn as there are ids. Removing
members or adding others is not possible through the API.

### Authentication

State: the provider's signing keys (`oldest .. newest` are published), `apiKeys` and `tenant`
(Postgres), `jwksURL`, `keySet` and `lock` (the fields of `OIDCMiddleware`), `req` (where each
handler goroutine is, and the goroutine that `OIDCAuth` starts, called `Starter`). The steps
follow the chain that `router.go` builds: an API key goes through `Lookup`, `Touch` and `Owner`;
any other token through `GetKeySet`, and through `Lock`, `FindURL`, `Discover`, `Fetch`,
`StoreKeySet` and `ReturnKeySet` when the key set is missing or does not verify it; what is
left goes to `JWTAuth`.

The starter runs `fetchJWKS` and stores its result without the lock. `keySet` is an interface and
`jwksURL` a string, two words each. Who reads one while it is set for the first time may
see one word of the new value and one of the old; of the values this can give, a type
without data or a length without bytes panics on use, and the others are those of a
read before or after the write. A request's panic (`Panic`, and `GetKeySet` with the result
`"panic"`) is recovered by the router and releases the lock on its way; the starter's ends
the process (`Restart`).

`Touch` runs in the request; the update does nothing to a row that is gone. `enabled` and
`issuer` are chosen once: they are configuration, and either may be set without the other.
Enabled without a URL, the provider is not asked at start-up, and every token that is no API
key goes through a discovery that fails, under the lock, on its way to `JWTAuth`. `excuses` records, per request, what its refusal may be
owed to; the comment on `Excuses` has the list. Left out: the claims of a token, whose check
needs the token alone.

### LogStream

State: `pod` (each pod's life and how many lines it has written), `handler` (the loop in
`HandleGetLogs`), `producer` (the goroutine in `StreamLogs` with its local variables), `sent` and
`received` (the channel: what was sent and not yet received), `cancelled` (the request's
context). Every send, receive, select and close is an action. The send that reports a pod that
cannot be opened (`Report`) has no alternative; the send of a line has one
(`SendCancelled`). The text of a line is its number.

`first`, `last` and `cut` are history: the lines a stream stands for, and the streams that ended
early, which `scanner.Err` would tell but nobody asks.

### CommandLine

State: `app` (the row), `cr` (the App object), `service` (Knative), `job` (the command in each
terminal: which request is next, and the id it found). `deploy` is `Create`, then, if that
fails for whatever reason, `GetAppByName` and `Act`, then `Poll` until a verdict or `TimeOut`; the
other commands are `GetAppByName` and `Act`. A request can be applied and its answer lost
(`Request`). The bodies that `deploy` and `env` send, and the fields in which the
server looks for the variables, are modelled as far as the names of the fields go, since
that is where they differ.

`excuses` is history: whether a deploy found something of an earlier version or app of the
name (`previous`), and whether another command changed the app while it polled (`overlap`).

### RateLimiter

`Allow` and `cleanup` each hold the mutex from before they read the clock, so each is one
action. Tokens and time are whole numbers of units: a token is `Cost` units, and a
tick is the time in which one unit is added. Rounding of `float64` is outside the
model. `opened` and `spent` observe a window of time that may begin at any point.

## 3. Runs

| Run | Instance | Shows |
|---|---|---|
| `AppOne` | one app, all specs, 3 edits, 1 fault | types, `NoOrphans`, `NeverForgotten`, `KeepsContract`, `SettledStays`, `ImplementsProtocol`, `Convergence` |
| `AppTwo` | two apps created with the same host, 1 edit | `HostsStayWithOwner`, `Convergence` of the winner and the loser |
| `Tenant` | one tenant, one app, two specs, 4 edits, 1 fault | types, `NeverForgotten`, `KeepsContract`, `ImplementsProtocol` (and with it `NoOrphans`), `Convergence` |
| `TenantNamespace` | no fault, 2 edits | **violated**: a deleted tenant can leave a live namespace |
| `ApiTwo` | two clients, every kind of request, two variables, 4 requests, 1 fault | types, `InSyncUnlessExcused`, `CRWasCommitted`, `DeletedForGood`, `PatchMerges` |
| `ApiDelete` | two clients, no fault | **violated**: an object that comes back without a row |
| `ApiDomains` | two clients, domains, 2 requests, no fault | **violated**: a domain that was added is not among the object's |
| `ApiTenant` | two clients, two users, 4 requests, 1 fault | types, `InSyncUnlessExcused`, `AccessEndsWithTenant`, `ChangedByMembers` |
| `RateLimit` | two clients, capacity 4, 9 ticks | types, `RateRespected`, `ImplementsTokenBucket` |
| `Auth` | two clients and the starter, one API key, two signing keys, 2 requests, 2 changes, 1 fault | types, `VerdictForReason` (`RefusedForReason` and `AcceptedForReason`), `NeverOlder`, `RevokedForGood`, `Answered` |
| `Logs` | two pods of up to 2 lines, channel of 1, tail of 1, 1 fault | types, `InOrder`, `DoneMeansComplete`, `Released`, `Streamed` |
| `Deploy` | two terminals, 3 commands, two ids and two images, 1 fault | types, `Stored`, `VerdictIsOwn`, `ChangesWhatItFound` |

The violated properties are the findings of `PROJECT.json`; each quotes the line that
says otherwise.

### Known divergences

Some passing properties have a way out built in, because the code does not do what the
property would say without it. Where a property without the way out is named in brackets, it is
defined beside the other one and refuted by TLC: it has no run of its own, but put in the place
of the properties of the configuration that is named with it, it gives the trace. Beside the
findings these are:

* *A paused app can keep its Service* (`PausedIsStopped`, `AppOne.cfg` with two faults).
  `api/v1alpha1/app_types.go:115` describes a paused app as "scaled to zero and not accepting
  traffic". `Reconcile` writes the phase first; when the deletion of the Service then fails, the
  error is only logged (`operator/controller/app_controller.go:92-95`). The watch event of the phase's own write brings
  the app back once more, so that one failure is repaired, and a failure in the last
  reconcile is not. `NeverForgotten` and `Convergence` except the apps in `lost`.
* *The object misses what goes wrong in its own request.* Requests copy the row to the object once,
  and log an error of that (`apiserver/service/app.go:436-449`); there is no retry and
  nothing that compares the two later. `InSyncUnlessExcused` of `AppService` therefore excepts
  a failed call and a conflict with the operator's write until the next undisturbed request
  repairs them. `TenantService` has the same four excuses, and keeps them for good.
* *Two updates at once can leave the object with the older one* (`OverlapsSync`, `ApiTwo.cfg`).
  `app.go:436` names errors as the only thing that keeps `syncAppToK8s` from synchronising; it
  copies what its own request has changed, not the row, so that row and object may be written in
  different orders.
* *A new app can lose its object* (`ReusedNameSyncs`, `ApiTwo.cfg`). A create under the name of an
  app whose object still waits for its finalizer updates that object
  (`apiserver/adapter/adapter.go:553-558`), which then goes; the new app has a row, and no call has
  failed.
* *Domains reach the object as an environment variable only* (run `ApiDomains`). What
  `InSyncUnlessExcused` compares is that variable, not `customDomains`.
* *A tenant can be without an owner.* `apiserver/store/tenant.go:12` says that row and owner are
  inserted in one transaction. The service uses `TenantStoreAdapter` instead
  (`apiserver/adapter/adapter.go:74-78`), whose two statements are separate
  (`apiserver/service/tenant.go:116-130`). `InSyncUnlessExcused` of `TenantService` excepts failed
  calls.
* *A policy outlives the wish for it.* `api/v1alpha1/tenant_types.go:79`: "Whether to enforce network
  isolation between tenants". When it is turned off, the policy made earlier stays
  (`operator/reconciler/cilium.go:27-30`). `Convergence` of `TenantController` asks for the policy
  when isolation is on, and for nothing when it is off.
* *Overlapping patches lose one another* (`PatchesAddUp`, `ApiTwo.cfg`). `apiserver/service/app.go:318`
  says that `PatchEnv` merges into the existing set; it merges into the copy it read and writes
  that back whole (`app.go:338`, `apiserver/store/app.go:137-141`). `PatchMerges` asks for the merge
  where no other request runs at the same time.
* *A log goroutine can be left behind.* The send of the message about a pod that cannot be opened
  ignores the context (`apiserver/adapter/adapter.go:691`); with the channel full and the
  client gone it waits for ever. `Released` excepts exactly that state, `Stuck`.
* *A stream that is followed can end early* (`FollowsUntilCancelled`, `Logs.cfg`).
  `apiserver/handler/logs.go:22` promises an open channel until the client leaves; the goroutine
  goes once over the pods that it found and closes the channel after the last of them
  (`apiserver/adapter/adapter.go:682-712`), though another pod of the app may run.
  `DoneMeansComplete` asks for the pods that were found.
* *`env set` sets nothing* (`EnvStored`, `Deploy.cfg`). `cli/cmd/env.go:19` says "Set environment
  variables". The client sends the map of variables itself (`cli/client/client.go:313-315`), while
  the server looks for a field `envVars` (`apiserver/service/app.go:82-84`): an empty patch is
  applied, and the command prints that the variable is set. `deploy --env` has no effect either:
  the client's field is `env` (`client.go:226`), the server's `envVars` (`app.go:60`). `EnvVars` of
  every body is empty in the model too, and no passing property says anything of variables.
* *The first key set is fetched without the lock* (`apiserver/middleware/oidc.go:39`). The excuses of
  `RefusedForReason` and `NeverOlder`, and the panics, are its consequences.

Two comments disagree with the code without a property being concerned.
`apiserver/service/app.go:348` calls `_domains` a JSON list; it is written and read
comma-separated (`app.go:453-470`). `apiserver/adapter/adapter.go:414-415` says of `DeleteAPIKey`
that it verifies that the key belongs to the tenant; the key goes by its own id, as the
comment in the body says (`adapter.go:421-423`).

Bounds. `MaxEdits` and `MaxRequests` bound what users do, `MaxFaults` bounds failing calls
and restarts together, `MaxTime` bounds the clock; nothing else is cut off. Three edits create,
change and delete an app, or delete and create it again; four do the same for a tenant
and give it an app. With one fault, every call of a reconcile is interrupted in
turn, at every state of the cache, and what follows has to repair it without help.
Two clients and four requests are enough to create an app and have two more
requests overlap before or after a third; two variables let overlapping patches be of
different ones. In `Auth`, two requests refresh the key set against each other and the
starter while a key is rotated in and the old one retired; in `Logs` a channel of one
entry is full after the first, and a tail of one line is shorter than a log of two; in
`Deploy` two deploys and a third command of any kind overlap, and two ids let a name
be used again after a deletion. Specs in `Tenant` change plan and isolation
together, which halves the space and keeps both changes.

`CHECK_DEADLOCK FALSE` is in every configuration but `RateLimit.cfg`, whose clients can always
make another request: elsewhere a system with an empty queue whose users have used up their
budget has nothing to do, and a log stream and a command end.

Fairness. The worker goroutine runs (`WF` on `Work`); the work queue hands out each
key in its turn (`SF` on `Pick(k)`, because another key may be taken in between;
with one tenant `WF` is enough); watch events arrive and timers fire (`WF` on `CacheSync`,
`TimerFire`); Knative reports and the namespace controller works. Nothing is assumed
of users, faults, restarts, or the periodic resync (`Resync`), so no liveness
property is owed to the resync. In `LogStream` every goroutine runs: each of its actions that
needs no fault is taken in the end when it stays possible (`WF`), and the client reads
what it is sent or goes away (`Receive`, `Leave`); lines, ends of pods and faults are
never forced. In `Authentication` one condition is enough: as long as some goroutine can go on
without a fault, one does. Requests are bounded, so `Answered` shows that no goroutine is
left waiting for a lock that is never released. `CommandLine`, `AppService`, `TenantService` and
`RateLimiter` state no fairness: their properties are safety properties, since a service may
stop after any call and a command ends by its own timeout at the latest.

## 4. Proofs

TLAPS checks everything below without further assumptions than the named `ASSUME`s of
the modules, which say that the "No..." constants are not ordinary values, that
bounds are numbers and that users write well-formed specs; for `RateLimiter` also that a
bucket is full before it is stale (`RefillAssumption`), which `DefaultRateLimitConfig`
satisfies (2 seconds against 10 minutes).

`AppControllerProofs`: `TypeCorrect`, `NoOrphansSafe`, `NeverForgottenSafe`,
`HostsStayWithOwnerSafe`, `Implements` (of `FinalizerProtocol`), `KeepsContractSafe`,
`ReadyIsDeployedSafe`, `SettledStaysSafe`, `SettledIsConverged`, `ReconcileEndsSafe` and
`LoopsNotEmptySafe`.

* `NoOrphans` is not inductive: it needs to know that an object whose finalizer is about to
  be removed holds nothing any more, and that what the worker has in hand cannot be an
  older life of the object. The invariant `IInv` adds: the cache shows a version consistent
  with the object's history (`CacheInv`); the part of `Reconcile` the worker is in fits its
  copy, and a fresh copy *is* the object (`WorkInv`); the clean-up has released, or given
  up, everything it has passed (`ReleaseInv`); the mappings about to be deleted are the
  app's own (`DropInv`). Theorem `Invariance` proves it.
* Refinement follows step by step: writes of the object are moves of the protocol, calls on
  Knative acquire, release or abandon.
* `KeepsContract` rests on the same fact as optimistic concurrency itself: a write that
  takes effect was computed from the object that it replaces (`WorkInv`), so that all it
  changes is what the reconcile meant to change.
* `NeverForgotten` adds three facts to `IInv`: what is being paused is to be paused, and its
  phase says so before its Service goes (`PauseInv`); a worker whose copy is old has a watch
  event to come, or one in the queue (`NewsInv`); and an app that nothing will bring back is
  with the worker, gone or parked (`MemoryInv`). They make it inductive: a reconcile that
  ends without a requeue is then either on the latest copy, and leaves the app parked or
  gone, or on an old one, and the app comes back.
* `ReadyIsDeployed` speaks of a write at the end of some ten calls. The invariant under it
  says, for each of these calls, what the ones before it have achieved and that nobody undoes
  it meanwhile: mappings and Service of an app are written by its own reconcile only.

`Convergence` itself is a liveness property and stays with TLC, but what it rests on is
proved for every instance: an app that is settled is converged (`SettledIsConverged`) and
stays settled through reconciles, events, resyncs and the work on other apps
(`SettledStays`), so that `<>Settled` is all that is left; and on the way there the worker is
never lost to one reconcile, because its calls come in an order in which each ends it, goes
further or leaves less of a loop (`ReconcileEnds`), a loop is never entered empty
(`LoopsNotEmpty`), and no app is forgotten (`NeverForgotten`).

`TenantControllerProofs`: `TypeCorrect`, `NoOrphansSafe`, `Implements` (of the same protocol),
`KeepsContractSafe`, `NeverForgottenSafe`, `ActiveIsProvisionedSafe`, `SettledStaysSafe`,
`SettledIsConverged`, `AppsKeepProtocolSafe`, `ReconcileEndsSafe`, `LoopNotEmptySafe`. The
argument is that of the App controller with other resources, which is why the invariant
has the same parts; `WriteEffect` is the lemma that carries it: a write that takes effect
protects the tenant, changes its phase, or lets go of a terminating one. `NeverForgotten` is
simpler here, since every way out of a reconcile but the last one requeues (`Remembered`).
`ActiveIsProvisioned` is harder: the namespace may vanish under the reconcile, with quota and
policy, so `ProvisionInv` ties what each call has achieved to the life of the namespace.

`AppServiceProofs`: `TypeCorrect`, `CRWasCommittedSafe`, `InSyncSafe`, `DeletedForGoodSafe`,
`PatchMergesSafe`, `KeepsContractSafe`.
The invariant says that every copy on its way to the object was committed (`CommitInv`), that
an id about to be inserted is not in use and never was (`IdInv`), that an undisturbed request
is the only one, and copies the row as it is to an object that is as it found it (`AloneInv`),
which is why its last call may empty `excuses`, and that while these are empty the object is
behind only by what the one request has left to do (`SyncInv`). `PatchInv` adds, for an
undisturbed patch, that the copy about to be
written is the patch applied to the row as it still is. For the contract, `FinalizerInv` says
that an object that terminates still has its finalizer.

`TenantServiceProofs`: `TypeCorrect`, `AccessEndsWithTenantSafe`, `ChangedByMembersSafe`,
`InSyncUnlessExcusedSafe`, `KeepsContractSafe`. `AccessInv` carries the first two: a request
that inserts a tenant has an id
to which nobody has access, and one that passed the check is of a member as long as
the tenant it checked is there. `SyncInv` says for each call of a request what row, owner and object
are just before it, as long as nothing is excused, and that there is only one request then.

`AuthenticationProofs`: `TypeCorrect` (with the exclusivity of the lock), `VerdictForReasonSafe`,
`NeverOlderSafe`, `RevokedForGoodSafe`, `RefreshesOnceMoreSafe`. A refusal is decided in the last step
but earned in earlier ones. `ClientInv` therefore follows a request: it is on the way of its kind of token
(`OnItsWay`); what makes it invalid has been seen, or still will be (`Detected`); a request that
has fetched a key set, with no excuse, has one that verifies its token (`Verifiable`); and what
it fetched is no older than what is cached, unless it was overtaken (`Fresh`). Without a URL no
key set is ever found (`IssuerInv`). `Fresh` needs the
lock: no other request stores between a request's fetch and its return. `RefreshesOnceMore` is
what can be proved towards `Answered`: a request goes along the chain, back once at the
most; the lock that it may wait for is held, by `TypeOK`, by a request that is at one of the
five steps of the refresh.

`LogStreamProofs`: `TypeCorrect`, `InOrderSafe`, `DoneMeansCompleteSafe`, `NeitherWaitsForEverSafe`,
`StreamAdvancesSafe`. The invariant relates the sequence sent to
the goroutine's place: nothing of a pod that is still ahead, and of the current one the lines
from the first up to the next (`OrderInv`, `CurrentInv`); a pod that was found is ahead, given up
or completely sent (`CompleteInv`); and "done" is written when the channel is closed and
empty (`DoneInv`). The last two theorems are what `Released` rests on: every step of the
goroutine takes it further on a finite way, and the only state in which it waits for a
handler that does not read is `Stuck`. Readiness is stated there by the guards of the
actions, written out once more in `ProducerReady`, as `ENABLED` is beyond the prover; that the
actions agree with it is what `Released` shows on its instance.

`CommandLineProofs`: `TypeCorrect`, `StoredSafe`, `VerdictIsOwnSafe`, `ChangesWhatItFoundSafe`. `VerdictIsOwn` speaks of
the step that reads the phase; `OwnInv` says what leads there: while an undisturbed deploy
polls, object and Service show nothing but its image, and a phase `Ready` was read off a Service that
has served it.

`RateLimiterProofs`: `TypeCorrect`, `RateRespectedSafe`, `Implements` (of `TokenBucket`). The
invariant `SpentInv` accounts for what a client was admitted by what is missing in its
bucket; for a bucket that was thrown away it is the stronger statement that the rate alone
covers it, and that is where `RefillAssumption` is needed.

Some theorems are about properties that no run lists: `NoOrphans` of the tenants, which
`ImplementsProtocol` of the same run implies; `KeepsContract` of the services; the properties
of progress (`SettledStays` of the tenants, `ReconcileEnds`, `LoopsNotEmpty`, `LoopNotEmpty`,
`NeitherWaitsForEver`, `StreamAdvances`, `RefreshesOnceMore`); `ReadyIsDeployed`,
`ActiveIsProvisioned` and `AppsKeepProtocol`. Adding one of them to the configuration of its module
checks it on the instance as well; the proof does not depend on it.

Only model-checked: the liveness properties `Convergence` (of both controllers), `Released`,
`Streamed` and `Answered`, because TLAPS does not handle liveness under fairness, and with them the
fairness conditions and whether an action is `ENABLED`. Recursive definitions
and data of unbounded size do not occur.

## 5. Not modelled

* Lists and reads for display, in services, store and adapter: they change nothing.
* The migrations and the seeding of the admin user, which run before the server
  listens.
* Commands of one request (`domains`, `tenant`, `login`, `apps list`) and the client's configuration
  file, which one user's commands write.
* Decoding, validation and encoding in the handlers; the claims of tokens.
* The limit `maxApps`, which the code passes on to Capsule as a namespace quota and never
  compares with a number of apps.
* Rounding of `float64` in the rate limiter.
* Frontend, charts, scripts and generated code: no state or behaviour of their own.

## 6. Plan

Done, in the order of importance: `FinalizerProtocol`; `AppController`, `TenantController`, `AppService`,
each with proofs; `TenantService`, `RateLimiter`, `Authentication`, `LogStream` and `CommandLine`, each with
proofs. What could follow:

1. The step from `KeepsContract` to one composed theorem: the requests of `AppService` and the
   reconciles of `AppController` on one object, with `CustomResource` as the only thing between
   them; likewise what `CommandLine` assumes of both.
2. An abstract tenant store in which row and owner are one transaction, as
   `store.CreateTenant` has it, and `TenantService` as its implementation once the service uses it.
3. More than one worker in the controllers, should `MaxConcurrentReconciles` be raised, and two
   operators, should the deployment be scaled.
