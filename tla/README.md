# A TLA+ model of kong-ingress

kong-ingress is a Kubernetes controller.  It turns Ingress resources into
routes ("apis") of a Kong gateway, and it decides who may use which host name:
a namespace *claims* a host with a `Domain` custom resource, and an ingress is
routed only when its namespace has an `OK` domain for the host
(`docs/domain-claims.md`).

This directory models that program in TLA+, checks it with TLC on small
instances and proves the central results with TLAPS.  `PROJECT.json` maps each
definition to the lines it stands for, and lists the runs, the theorems, the
hazards and the findings.

## 1. The system

| part | source | state it keeps | operations |
|---|---|---|---|
| Domain resource | `pkg/kong/types.go`, `spec.go` | spec (primary domain, sub, parent, delegates), phase, reason, finalizer, two deletion marks | predicates on one resource |
| Domain claims | `pkg/controller/domain.go` | none of its own: it reads the informer's cache and writes resources, one `syncDomain` call at a time | `addDomain`, `updateDomain`, `deleteDomain`, `syncDomain`, `updateDomainStatus` |
| Primary search | `pkg/controller/utils.go` | a result overwritten by a callback | `SearchForPrimary`, `searchPrimaryByNamespace` |
| Task queue | `pkg/controller/utils.go`, client-go `util/workqueue` | queue, dirty, processing, waiting, failure counts, `workerDone` | `Add`, `worker`, `shutdown` |
| Ingress sync | `pkg/controller/controller.go` | none of its own; writes apis, domains, service finalizers | handlers, `syncIngress`, `claimDomains`, `isClaimed`, `setDirty` |
| Service garbage collection | `pkg/controller/controller.go` | none of its own | handler, `syncServices` |
| Kong admin client | `pkg/kong/api.go`, `client.go` | none | list with pages, `ListByRegexp`, `UpdateOrCreate`, `Delete` |
| Start-up and shutdown | `controller.go`, `utils.go` | the informers, the workers, the stop channel; in the cluster, the CRD | `NewKongController`, `Run`, `CreateCRD`, `waitCRDReady` |
| Process entry | `cmd/main.go` | in the cluster, the default namespace | `main`, `createDefaultNamespace`, `getKongVersion` |
| Metrics and health | `metrics.go`, `monitoring/` | counters, the patterns of the HTTP mux | `DefaultHealthz`, `InstallHandler`, `ListenAndServeAll` |
| Plugins, registration, deep copies, version | `pkg/kong`, `pkg/version` | none | |

**How they interact.**  Three informers mirror ingresses, services and domains
into caches, late.  Their event handlers add keys to three task queues.  One
worker per queue (`main.go` calls `Run(1, wait.NeverStop)`) takes a key, reads
the cache, and calls the API server and Kong; a key whose sync returns an error
comes back after a delay.  The ingress worker and the service worker meet in the
finalizer of a service and in the apis behind it.  The domain worker and the ingress worker meet in
three shared places: the domain cache, the Domain resources (which
`claimDomains` also writes), and the apis in Kong (which ingresses add and
domain deletions remove).  Users write the resources at any time.  `main` makes
the namespace and the custom resource, starts `Run` and the health server, and
blocks; any error before that, and any panic after it, ends the process, and the
kubelet starts it again.

**What is hard.**  Every decision is made on a cache that may lag behind the API
server, and every write may race another writer; only the `resourceVersion` of a
PUT protects it.  A deletion is a long sequence of calls, each of which may
fail, or succeed and lose its answer.  The process may die between any two
calls and keeps nothing on disk, also while it starts: what an earlier life left
half done is found by the next one.  After a restart the workers run before
the domain cache is filled.  Failed claims depend on a timer and a resync to be
looked at again.  The list, with lines, is `hazards` in `PROJECT.json`.

**What makes each part correct.**

- *Domain claims*: a primary domain is granted to one resource of the cluster;
  a claim or a deletion is never forgotten; a domain in use keeps its
  finalizer; the controller's writes never undo a user's, except that auto-claim
  replaces the spec; a deletion completes
  and a claim nobody contests is granted; purges and sweeps delete the routes
  they should and no others.
- *Primary search*: the answer is the one the rules give, in whatever order the
  cache is listed.
- *Task queue*: no key is lost, none is worked on twice at a time, and shutdown
  returns.
- *Ingress sync, service collection*: a service that Kong routes to keeps its
  finalizer; a deletion is never forgotten and completes; an ingress is routed
  once its domains and services are there; nothing is left of a service that is
  gone.  Auto-claim claims exactly the hosts of an ingress, gets there whatever
  is stored under their names, and stops writing.
- *Start-up*: nothing is watched before it is served, and the controller comes
  up after any sequence of failures.

## 2. The modules

| module | models | built on |
|---|---|---|
| `DomainTypes` | the Domain resource and its predicates | |
| `DomainClaims` | the domain half of the controller with the API server, the informer, users, and the ingress worker's part in domains | `DomainTypes` |
| `MCDomainClaims` | instances of it | `DomainClaims` |
| `DomainClaimsProofs` | type correctness; what the writes and the informer do to the cache and to the worker's copies | `DomainClaims` |
| `UniquePrimaryProofs` | at most one owner of a primary domain; the sweep spares hosts in use | `DomainClaimsProofs` |
| `ClaimsWorkProofs` | no claim or deletion is lost, finalizers stay, users' edits and deletions stay | `DomainClaimsProofs` |
| `PrimarySearch`, `MCPrimarySearch`, `PrimarySearchProofs` | the search as the loop the code runs, its inputs, its proof | `DomainTypes` |
| `WorkSet` | abstract specification of a task queue | |
| `RouteSync` | the ingress worker and the service worker, with the API server, the service informer and Kong, in one namespace | |
| `MCRouteSync`, `RouteSyncProofs` | an instance of it; type correctness, why routed services are held, and why deletions are not forgotten | `RouteSync` |
| `Lifecycle` | the process: `main`, `CreateCRD`, `Run`, the health server, deaths and restarts (actions only) | |
| `AutoClaim` | the process together with the claiming half of the ingress worker | `Lifecycle`, `DomainTypes` |
| `MCAutoClaim`, `AutoClaimProofs` | an instance of it; why the informers find their resource | `AutoClaim` |
| `AutoClaimHostsProofs` | what `getHostsFromIngress` makes of every list of rules; type correctness | `AutoClaimProofs` |
| `TaskQueue`, `TaskQueueProofs` | the task queue on client-go's work queue; refinement of `WorkSet` | `WorkSet` |

### DomainClaims

State: `store` (the resources in the API server), `watch` (per key, events the
informer has still to apply), `cache` (the indexer), `notes` (notifications
whose handler has not run), `queue` (the domain queue), `worker` (the
`syncDomain` call in progress: which call is next, in which branch, with which
copies), `apis` (Kong), `granted` (routes `isClaimed` has approved that are not
written yet), `budget` (what users, faults and restarts may still do).

`syncDomain` is not one action.  Each list of the cache and each call to the API
server or Kong is a step, so every other actor may act in between:

| code | actions |
|---|---|
| `TaskQueue.worker`, `GetByKey` | `Start`, `Return` |
| resource is gone, `WipeOnDelete` | `Vanished`, `ListShared`, `NextDomain`, `SearchHit/Miss/Over`, `ListApis`, `DeleteApi`, `ApisDeleted`, `LoopDone`, `Sweep`, `SweepHost`, `SweepDone` |
| invalid domain | `Reject` |
| marked for deletion | `Collect`, `NextDomain`, `ListApis`, `DeleteApi`, `ApisDeleted`, `LoopDone`, `Unfinalize`, `Remove` |
| New, Pending, OK, Failed | `AcceptNew`; `ClaimPrimary`, `SearchShared`; `KeepPrimary`, `SearchShared`; `Retry`, `Wait` |
| `updateDomainStatus`, PUT | `Put`, `SkipUpdate` |
| event handlers | `HandleEvent` (with the POST of `updateDomain`'s copy) |
| informer | `Observe`, `Resync` |
| `claimDomains`, `isClaimed`, route | `AutoClaim`, `IngressCheck`, `IngressRoute` |
| a call fails | `CallFails` (no effect), `CallStep(FALSE)` (effect, answer lost) |
| the process dies and starts | `Restart` |

Abstractions, and why they are sound here:

- *Host names* are sequences of labels.  Whether the purge's regular expression
  finds the apis of a host is the operator constant `Matches`; `MCMatches`
  gives it its meaning, an unanchored match.
- *resourceVersion* is `worker.stale`: the keys written since the worker took
  its copies, or not current when it took them.  A PUT of such a key conflicts.
  PATCH and DELETE carry no version and hit whatever is stored.
- *Watch events* are in order per key.  Between keys the order is open, because
  the informer's delta queue hands out the deltas of one key together.
- *The queue* is the set of keys that are queued or delayed.  `TaskQueue` shows
  that the real one implements such a set.
- *cfg.ResyncOnFailed* is a choice between `Retry` and `Wait`.
- `FinalizerRemovalDeletes` says whether the API server drops a deleted
  resource with its last finalizer (a newer server) or waits for the DELETE
  that follows; the runs use both.
- `claimDomains`' PUT is one step with its check, because a refused PUT changes
  nothing.

### PrimarySearch

`DomainClaims` uses the search by its outcome.  This module runs the loop: up to
three namespaces, and in each the callback sees the domains in any order and
overwrites its result.  The cache and the asker are inputs, chosen in `Init`.

### TaskQueue and WorkSet

`TaskQueue` has client-go's `queue`, `dirty` and `processing`, the delaying
queue, the failure count, and the controller's worker loop with `workerDone`.
`WorkSet` is what the rest of the program relies on: a set of keys to work on,
with delays.  The mapping is `pending <- dirty`, `delayed <- waiting`,
`running <- processing`, `closed <- shuttingDown`.

### RouteSync

State: `svcs`, `svcWatch`, `svcCache` (services in the API server, on the way,
and in the informer), `births` (how often a service was created), `ings` (the
ingress cache), `claimed` (hosts with an OK domain), `apis` (Kong: the service
and port behind each name), `told` (keys whose handler has not run), `queue`
and `requeues` (the two queues), `iw` and `sw` (the `syncIngress` and the
`syncServices` call in progress), `budget`.

| code | actions |
|---|---|
| ingress and service handlers | `PutIngress`, `DeleteIngress` (the class is asked here), `Observe`, `Handle` |
| `syncIngress`, `setDirty` | `StartIngress`, `SetDirty`, `SetDirtyFails` |
| `claimDomains`, `isClaimed` | `ClaimDomains`, `CheckClaims` |
| the loop over rules and paths | `NextPath`, `HoldService`, `GetApi`, `PutApi`, `IngressDone` |
| `syncServices` | `StartService`, `ListUpstream`, `DeleteRoute`, `RoutesDeleted`, `ReleaseService` |
| errors | `FailIngress`, `FailService` in each step; `IngressCallFails`, `ServiceCallFails` (no effect); `HoldService(FALSE)`, `PutApi(FALSE)`, `DeleteRoute(n, FALSE)`, `ReleaseService(FALSE)` (effect, answer lost) |
| the domain worker, seen from here | `Grant`, `Withdraw` |
| the process dies and starts | `Restart` |

Abstractions, and why they are sound here:

- *One namespace.*  `syncIngress` and `syncServices` use the names of their own
  namespace only; an api name contains it.
- *Ingresses* are read from the cache only, so their delay is part of when the
  user's change happens.
- *Domains* are the set `claimed`.  What `claimDomains` writes, and when the
  domain worker grants it, is the subject of `DomainClaims`; here a grant may
  come at any time, and `ClaimDomains` is not refused (the refusals are in
  `AutoClaim`).  `Withdraw` purges the apis of a host in one step.  `Restart`
  keeps `claimed`, although the domain cache starts empty: the grants come back
  with the first list, and no property checked with restarts asks for them.
- *An api* is its upstream: hosts and uris follow from the name, and the flags
  `strip_uri` and `preserve_host` decide nothing.  The scheme of the upstream
  follows from the port.  `/` and the empty path are one path.
- *The queues* are one set, since their keys differ; `told` forgets how often a
  handler has to run, as the queue does.  `requeues` stops counting one above
  `AutoClaimMaxRetries`, the last value that makes a difference.
- *The two kinds of patch.*  `HoldService` sets the finalizer, `ReleaseService`
  removes it, and with it a service that is marked; both hit whatever service
  has the name.  Kong answers a PUT with an id it does not have with 404.

### Lifecycle

State: `cluster` (the default namespace and the CRD, which outlive the process),
`proc` (what `main` does next, the polls of the CRD, which informers run, which
have their first list, which workers run, the registered HTTP patterns, the
server), `fuel` (failures that may still happen).

| code | actions |
|---|---|
| `main` | `CheckVersion`, `CreateNamespace`, `Launch` |
| `CreateCRD`, `waitCRDReady` | `CreateCRD`, `waitCRDReady` (one poll) |
| an error before `Run` | `FatalOutage` (with or without effect) |
| `Run` | `StartInformers`, `FirstList`, `StartWorkers` |
| `ListenAndServeAll` | `Listen`, `ListenFails` |
| a panic or a kill; the kubelet | `Crash`; `Reboot` |
| the API server decides on the CRD | `JudgeCRD` |

`Listen` has the second registration of `/metrics` in it: `http.Handle` is in the
function that `wait.Until` repeats, and panics.  A panic in any goroutine is a
`Crash`, because `utilruntime.HandleCrash` of the vendored client-go panics
again.  Flags and the construction of clients are left out.

### AutoClaim

State: `ings`, the domains (`store`, `watch`, `cache`), `queue` (the ingress
queue), `sync` (the `syncIngress` call in progress and the hosts it has still to
go through), `served` (ingresses that have passed `isClaimed` with their present
content), `ops`.

| code | actions |
|---|---|
| ingress handlers | `PutIngress`, `List` |
| `getHostsFromIngress`, `extractPrimaryFromHost`, `genMetaNameFromHost` | operators of these names |
| `claimDomains`, per host | `ClaimKept`, `ClaimDomain`, `ClaimRefused`, `ClaimUnanswered` (effect, answer lost), `ClaimLost` |
| `isClaimed`, per rule | `CheckRule`, `Serve` |
| `syncDomain` | `AcceptDomain`, `DecideDomain`, `RetryDomain`, `PurgeDomain`, `Setback` |
| the process | `Boot`, `Trouble`, `Judge` with the actions of `Lifecycle`; a death also forgets the caches, the queue and the call in progress |

Abstractions, and why they are sound here:

- *A label of a host* is the sequence of its parts between hyphens, so that
  `genMetaNameFromHost`, which turns dots into hyphens, is concatenation, and
  my-shop.org and my.shop.org get one name.
- *The domain worker* decides in one step on a current copy; its interleavings
  are the subject of `DomainClaims`.  `Setback` stands for the purges this
  module leaves out, of a primary domain in another namespace or of a copy
  `updateDomain` has made; `Lent` for the domains other namespaces lend.
- *`setDirty`* and what follows `isClaimed` are in `RouteSync`.
- A user writes a domain only when the CRD is established, since the API server
  does not know the resource before.

## 3. The runs

| run | instance | checks | distinct states |
|---|---|---|---|
| `claims_rivals` | two namespaces ask for one primary domain; 4 user operations | `UniquePrimary`, its inductive invariant, `UserIntentSurvives` | 1.5 million |
| `claims_wipe` | an owner, a lessee and its route, `WipeOnDelete`; 3 operations, 1 fault | `NoLostWork`, `SweepSpares` | 583 000 |
| `claims_restart` | an invalid domain created and mended, or a valid one created and edited into another host; 2 operations, 1 fault, 1 restart | `TypeOK`, `FinalizerHeld`, `NoLostWork` | 253 000 |
| `claims_live` | the rivals, fair; 3 operations | `DeletionCompletes`, `LonePrimaryGranted` | 179 000 |
| `claims_lease_live` | owner and lessee, fair; 3 operations | `SharedGranted` | 88 000 |
| `search` | every cache of four domains in three namespaces, six askers, every order | `FindsServer`, `PrefersPrimary`, `KeepsOrder`, `SearchInv` | 33 000 |
| `queue` | 3 keys, 2 workers, fair; a key fails at most once in a row | `QueueInv`, `Exclusive`, `FailuresRetried`, `ImplementsWorkSet`, `Served`, `ShutdownReturns` | 41 000 |
| `routes` | an ingress of two paths and two later versions of it, two services with two and one ports; 5 operations, 1 fault, 1 restart | `RoutedHeld`, its inductive invariant, `CollectionScheduled` | 2.4 million |
| `routes_live` | an ingress and its versions for either port of one service and for another class, fair; 5 operations, 1 fault | `ServiceReleased`, `IngressServed` | 246 000 |
| `autoclaim` | up to two ingresses over five hosts, among them a shared one, two of one resource name and an invalid one; a domain a user writes; 1 operation, 1 failure, with the process starting from nothing; fair | `TypeOK`, `Prepared`, `HostsExact`, `ControllerUp`, `IngressClaimed`, `ClaimsSettle` | 105 000 |

Each property has a mutant in `PROJECT.json`: a plausible slip in the modelled
code under which TLC finds the property violated.

The runs named `bad_*` expect a violation.  Each checks one statement of a
comment or a document that the code does not keep; `findings` quotes it.

| run | what TLC shows |
|---|---|
| `bad_restart` | `Run` does not wait for the domain cache: after a restart a primary domain is granted a second time |
| `bad_collect` | a service is collected between the finalizer PATCH and the api PUT of one `syncIngress` call: the api outlives the service |

The models have some more behaviours that are at odds with a comment or a
document, and no run exhibits them:

- an OK shared domain finds itself in the search (`searchPrimaryByNamespace`
  asks for no primary one) and stays OK after its primary has gone or has
  stopped delegating;
- an OK domain edited into the host of another OK domain stays OK, since the
  edit does not reset its phase and the OK branch looks for no rival;
- the deletion of a shared domain collects no domain to purge, so its finalizer
  is removed while its routes are in Kong;
- an ingress checked before a purge writes its route after it;
- purging acme.org also deletes the apis of notacme.org;
- after a restart the sweep deletes the routes of a domain that is not in the
  cache yet;
- the delegates of a shared domain are honoured;
- a second worker per queue would close `workerDone` twice;
- the finalizer of a service is removed after the first of its ports, so a
  failure on a later port leaves the apis of that port;
- a service without ports is never released;
- the port of a backend need not be a port of its service, and no collection
  finds the api of such a backend;
- a collection deletes by name what it listed by upstream, also when an ingress
  has sent the name to another service meanwhile;
- a service that is created again under its name may be routed to by an api an
  overlapping call left, without a finalizer;
- auto-claim replaces the spec a user wrote, the delegates included;
- two ingresses of a namespace, or two rules of one, that want different domains
  under one resource name overwrite each other's claim for ever;
- a health server that fails once does not come back in the same process: the
  repeated registration of `/metrics` panics;
- a panic of a worker ends the process, although the comment in `Run` says
  "don't let panics crash the process".

**Bounds.**  `MaxUserOps`, `MaxFaults`, `MaxRestarts` count what the environment
does; `MaxNotes` bounds the notifications of one key that wait for the handler,
and `MaxRequeues` the failures of one key in a row.  Two keys are enough for the
properties about claims, which relate at most two resources (owner and rival,
or owner and lessee); three or four operations let one of them be created,
granted, deleted and created again, or edited, beside the other.  One fault can
hit any call and a second one meets the same states, because a failed sync
leaves nothing behind but the key in the queue.  `MaxNotes = 1` delays events in
`watch` rather than in `notes`; the order in which handlers see the events of a
key is the same.  In `RouteSync`, five operations create a service, an ingress and a
grant and leave two for deletions, edits or a second service; one ingress is
enough, because the one ingress worker handles one at a time and apis of other
ingresses would only add names; two services are needed to move a path.
`routes_live` keeps the five operations and the fault, with a path that moves
between two ports of one service: a version is edited, and handed to another
class, while an earlier one is being synced, and the host is taken back and
granted again. It has `AutoClaim = FALSE` and `AutoClaimMaxRetries = 0`, so
that the second attempt already patches the dirty annotation.
`MaxBirths = 1` is a real restriction, see `RoutedHeld`.  In `AutoClaim`, `Given`
and `Revisions` pick the contents of ingresses that meet each branch (a shared
host before its primary, a shared host without one, a host the annotation makes
primary, colliding names, an invalid host), and the edits that make one
ingress disagree with what it or another left behind.  One operation and one failure
can come at any step, also before the process has started; the properties are
about what is left when they have happened, and each further one meets a state
that a first one reaches.  `MaxPolls = 1` stands for the 30 polls of
`waitCRDReady`: the CRD may be established before, between and after them.  Deadlock is not checked: when the budget is used up and all
work is done, the controller rests.

**Fairness.**  `LiveSpec` asks for weak fairness of the worker's steps, the
handler, and, per key, the informer and the resync timer: each is a goroutine or
timer that runs on its own, and the calls it makes have timeouts.  `Start(k)` is
strongly fair, because the work queue is first in, first out, while the worker
is busy again and again.  `Retry` is strongly fair per key: a Failed domain is
older than `ResyncOnFailed` in the end, and the resync looks at it periodically.
Users and ingresses owe nothing.  Faults and restarts do not occur in the
liveness runs of domain claims.  In `TaskQueue`, workers, the delaying loop and the waiting
shutdown are weakly fair; that `sync` returns is assumed, and that it does not
fail for ever is `MaxRequeues`.  `Served` and `ShutdownReturns` say nothing of
runs in which a second worker has closed `workerDone` again and crashed the
process.  In `RouteSync` the two workers' steps, the informer and the handlers
are weakly fair, and starting a key strongly, as above; lost and failed calls
are bounded by `MaxFaults`.  `IngressServed` promises a path of a queued ingress
only for a version of class kong that stays: the worker syncs the version it
read when it started, and an edit to another class is not enqueued
(`controller.go:98`), so what that last sync wrote may remain.  It promises each
path at some moment, because a collection may delete by name a path it has
listed before.  In `AutoClaim` the kubelet and the start-up, the
API server's verdict on the CRD, the informer, the ingress worker and the domain
worker are weakly fair, `Start` strongly.  `ControllerUp` does not promise
anything for a CRD whose names stay refused.  `IngressClaimed` excepts the
behaviours in which a PUT of `claimDomains` meets the retry of the same Failed
domain again and again (`LosesEveryRace`): the code does not exclude them, but
the retries are `ResyncOnFailed` seconds apart and the back-off of the ingress
starts at 300 ms.  It is also stated only for ingresses that agree with each
other on every resource name, for the reason given above.

## 4. The proofs

All theorems hold for every value of the constants, hence for any number of
keys, namespaces, ingresses, operations, faults and workers.  Every invariant
and every safety property of the steps that a run checks is stated by a theorem.

### Domain claims

- `TypeCorrect` (`DomainClaimsProofs`): the variables keep their types, and the
  worker always holds a copy and a verdict when it is about to PUT.  The second
  part (`WorkerShape`) is needed for the first: a PUT stores fields of
  `worker.cur` and `worker.verdict`.
- `CopiesAreCurrent` (`DomainClaimsProofs`), with restarts, faults and edits.
  `CacheTrails`: the cache plus the events to come is the store.
  `CopiesCurrent`: a copy that can still be PUT is the stored object, and the
  informer has no event for it outstanding.  Together with the types this is
  inductive (`CurrentInv`), and everything below about domains rests on it.  The
  module also has two lemmas that lift a relation to what the informer sees: if
  it holds of what every write replaces and stores, it holds of each pair of
  consecutive versions in the watch (`NextEvents`) and in the notifications
  (`NextNotes`).
- `UniqueInvariant`, `OnePrimary` (`UniquePrimaryProofs`): `Spec => []UniquePrimary`,
  provided there is no restart and edits do not change what a resource claims.
  Both assumptions are necessary: `bad_restart` shows it of the first, and of the
  second it is the takeover by an edit described in section 3.
  `UniquePrimary` is not inductive: nothing in it says why a grant decided on a
  late cache is right.  `UniquePrimaryInv` adds, to `CurrentInv`, two parts.
  `AcceptedCached`: an accepted domain is in the cache with the same identity,
  because it was accepted from a current cached copy, and so in every event to
  come.  `GrantExclusive`: while a grant is on its way, no rival in the store has
  been accepted.  The last follows when the grant is decided, since the rival
  check sees each accepted rival in the cache, and it is kept because the one
  worker accepts nothing else before its PUT.
- `SweepKeepsRoutes` (`UniquePrimaryProofs`): `SweepSpares` under the same two
  assumptions.  Both are needed here as well, and TLC finds a violation
  without either: after a restart an OK domain may be missing from the cache the
  sweep looks at (two unrelated primary domains show it), and the copy
  `updateDomain` posts for the former host of an edited domain is OK in the API
  server before the cache has it.  The sweep decides on the cache and deletes some calls
  later.  `ClaimsKept` says that no event or notification to come changes the
  identity of a resource, hence that `updateDomain` posts no copies and that the
  host of an OK domain is known to the sweep; `SweepInv`, that a route it has chosen has no OK host, which stays so
  because the worker that grants hosts is the one that sweeps.
- `NothingLost` (`ClaimsWorkProofs`): `NoLostWork`, with faults, edits and
  restarts.  `NoLostWork` follows a resource from the write to the sync, but
  does not say why a call that ends has done the work.  `WorkInv` does: outside
  of its loops the worker acts on the version the store has, or the key will
  come again (`Fresh`); the branch it is in fits the phase of its copy, and the
  verdict of a PUT fits the branch (`BranchInv`); and an event is never for a
  version equal to the one before (`EventsDistinct`), so that `updateDomain`,
  which ignores such events, ignores none that matters.
- `FinalizerStays` (`ClaimsWorkProofs`): `FinalizerHeld`.  The PATCH that takes the
  finalizer off names the resource and no version, so it must be shown that the
  name does not stand for another domain in use.  `MarksKept`: neither the cache
  nor an event to come marks a domain that is in use in the store;
  `PurgeTarget`: what the worker purges is not in use.  A resource created again
  under the name is New, and is not accepted before the worker is done with the
  purge.
- `IntentSurvives` (`ClaimsWorkProofs`): the action property `UserIntentSurvives`.
  A deletion is taken back by no write; a spec is changed only by users and by
  `claimDomains`, which overwrites it on purpose (`controller.go:395`) and which
  the property, like the budget, counts as a user's step (`AutoClaim`).
  Every step is one of a few kinds of writes (`StoreSteps`); a PUT stores a
  current copy with another phase, and `BranchInv` adds that a PUT of OK is
  made for a copy that is not marked.

### Primary search

- `SearchInvariant`, and from it `SearchCorrect`, `SearchPrefersPrimary` and
  `SearchKeepsOrder` (`PrimarySearchProofs`): `FindsServer`, `PrefersPrimary` and
  `KeepsOrder` for every cache and order.  The invariant `Position` says that
  the namespaces already left have no server, and what the domains already
  seen in the current one have made of the result.

### Task queue

- `QueueCorrect`, `SyncsExclusive`, `FailuresKept`, `Refines` (`TaskQueueProofs`): queue, dirty
  and processing agree and no key is worked on twice at a time; a failed key
  stays in the system; the queue implements `WorkSet`.  `QueueConsistent` is the
  strengthening: exclusion holds because what is queued is never being
  processed.

### Ingress and service worker

- `RouteTypes`, `RoutedInvariant`, `RoutedServicesHeld` (`RouteSyncProofs`): the types, and
  `RoutedHeld`, provided a service is not created again under its name
  (`MaxBirths = 1`; with two births TLC finds the violation described in
  section 3).  `RoutedHeld` alone does not say why the service worker may remove
  a finalizer, or why the ingress worker may write an api two calls after its
  PATCH.  `DeletionLasts`: a deletion mark the informer holds or is about to see
  means that the service is marked or gone now.  Hence `CollectsDoomed`: what is
  being collected is marked or gone, so removing its finalizer removes it.
  `PathHeld`: between the PATCH and the PUT the service has its finalizer, or
  has gone.  `MarkedHeld` and `Unborn` close the induction: a marked service has
  the finalizer, and one that was never created has left no trace, in
  particular no api.  The proof splits the invariant into what it says of the
  services, which only writes of services, the informer, `PutApi` and a restart
  touch, and what it says of the workers, which follows because no step frees a
  service that is held or revives one that is doomed (`Steady`).
- `DeletionsScheduled` (`RouteSyncProofs`): `CollectionScheduled`, for any number
  of births.  `CollectInv` adds that the cache trails the store (`Trails`), so that
  the service worker, which returns early for a service its cache does not show
  as marked, does so only while an event is on its way; and that an idle worker
  has no key.

### Auto-claim and the process

- `InformersPrepared` (`AutoClaimProofs`): `Spec => []Prepared`, for any number
  of failures and lives and whatever the workers do.  `Prepared` speaks of a
  process whose informers run; `BootOrder` says what each earlier point of `main`
  has established in the cluster, that no step takes it back, and that informers
  run only when `main` has gone past all of them.
- `ClaimsTheRules` (`AutoClaimHostsProofs`): `HostsExact` for every list of rules.
  `getHostsFromIngress` is a fold, which is a function defined by recursion over
  sets of positions.  The proof first shows that the recursion has a solution
  (`PlacingExists`), which a recursive definition by itself does not say; unfolds
  it into a recursion over the number of rules (`FirstRecursion`); and then goes
  along the rules with what one placement adds (`PlaceAdds`).  Induction is over
  the set of numbers that have a property (`NatSetInduction`, from the
  well-foundedness of `<`), because the library's induction rules take an
  operator as a parameter, which the provers cannot instantiate.
- `AutoClaimTypes` (`AutoClaimHostsProofs`): the types of `AutoClaim`.
  `claimDomains` writes under names and with specs it has computed from the
  rules, so the types rest on `HostsCollected`; `SyncTyped` says that the call in
  progress has domains of its ingress's rules, or hosts, left.  The assumption
  `RulesAssumption` says that the instance contains the names and specs that
  its ingresses lead to.

Only model-checked are the liveness properties (`DeletionCompletes`,
`LonePrimaryGranted`, `SharedGranted`, `Served`, `ShutdownReturns`,
`ServiceReleased`, `IngressServed`, `ControllerUp`, `IngressClaimed`,
`ClaimsSettle`): the prover does not reach liveness under fairness.

## 5. What is not modelled

- *Pages of the Kong client.*  A list is one step in the models.  What Kong
  answers between two pages while apis come and go, and what it makes of the
  repeated `offset` that `List` sends from the third page on, is not in the
  repository.  That `List(nil)` panics on a second page is a `Crash` of
  `Lifecycle` at most.
- *A Conflict from `UpdateOrCreate`*: one worker is the only writer of new apis.
- *The end of `Run`*: `main` passes `wait.NeverStop`.  (If `stopc` closed before
  the caches are filled, the deferred shutdowns would wait for workers that were
  never started.)  The shutdown of one queue is in `TaskQueue`.
- *Watch reconnects and relists* (`DeletedFinalStateUnknown`), statuses written
  by users, and finalizers of other controllers: the environment does none of
  these in the models.
- *The name of the default namespace*: `createDefaultNamespace` creates the
  constant one, also when `--pod-namespace` names another.
- *Flags, the construction of clients, the version of Kong, counters and the
  answers of the health handlers*: no decision depends on them.
- *Deep copies* are value semantics in TLA+; registration and version are
  declarations.  The plugin client of `pkg/kong` is not called by the controller.
- *A composition of domain purges with the service worker over one Kong.*  The
  two meet only in the apis, and `RouteSync` has the purge as one step
  (`Withdraw`).  The properties one would state of it (a purge spares the routes
  of other domains, no route outlives its claim) do not hold of this code, see
  the list in section 3.

## 6. Plan

Done: domain claims, the search, the queue, the ingress and the service worker,
auto-claim, the life of the process, and theorems for every safety property the
runs check.  Left:

1. Which parts of `OnePrimary` survive a restart: that a second grant needs a
   domain cache that is not filled yet.
2. An abstract specification of a domain's life (new, claimed, granted, failed,
   being purged, gone), which both `DomainClaims` and the domain worker of
   `AutoClaim` implement, so that the two can be related by proof and not only
   by their comments.
3. The safety steps that the liveness arguments rest on, as lemmas.
