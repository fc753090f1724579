# Verification of kcp-ingress

TLA+ models of the controllers in this repository, TLC configurations that check
them on small instances, and TLAPS proofs for all instances. Paths below are
relative to the repository; `ingress.go`, `controller.go` and `tracker.go` are
those of `pkg/reconciler/ingress`.

## 1. The system

One process (`cmd/ingress-controller/main.go`) runs two controllers, each with two
workers, against one kcp API server. A user writes *root* Ingresses and Services;
kcp assigns Services to physical clusters by the label `kcp.dev/cluster`; for each
root the ingress controller makes one *leaf* Ingress per cluster; a syncer (not in
this repository) copies leaves to the clusters and their load balancer status
back; the controller publishes a DNSRecord per leaf and merges the leaves' statuses
into the root.

| Component | State | Operations | Talks to |
|---|---|---|---|
| Work queue and worker loop (`controller.go:108-168`, the same lines again in `dns/controller.go`; the queue is client-go's) | ready FIFO, dirty, processing, delayed keys, failure counts; the key of each worker | `enqueue`, `Get`, `handleErr`, `Done` | called by informer handlers, calls `process` |
| Tracker (`tracker.go`) | `trackedServices` (slices of Ingresses by Service), `ingressToServices`, a mutex | `add`, `deleteIngress`, `getIngress` | workers write it; the Service handler reads it and goes on reading the slice after the unlock |
| Ingress controller (`controller.go:170-219`, `ingress.go`) | the informer cache, the queue, the tracker | `process`, `reconcile` of a root, `reconcile` of a leaf, `ingressesFromService` | API server (Ingresses, Services, DNSRecords), resolver |
| DNS controller (`dns/controller.go`, `dns_record.go`) | its cache and queue | `NewController`, `process`; `reconcile` is empty | API server (DNSRecords), informer factory; its panic ends the ingress controller too |
| Informer factory (`pkg/client/kuadrant/informers/externalversions`, generated) | informers by type, those started | `InformerFor`, `Start`, `WaitForCacheSync` | DNS controller |
| Envoy cache (`envoy/cache.go`), off by default | Ingresses by key, a mutex | `UpdateIngress`, `DeleteIngress`, `ToEnvoySnapshot`, then `SetSnapshot` | called by both workers |
| Envoy translator (`envoy/translator.go`), `generateStatusHost` | none | pure functions | Envoy cache |
| API types, deep copies, generated clientset and listers | none of their own | | |
| Manifests, samples, scripts | none | | |

Hard behaviours: the cache that `reconcile` reads lags behind the API server it
writes; a reconciliation is many calls, each of which may fail or be the last
before a crash; two workers handle a root and its leaves at once; deletions reach
the tracker and the Envoy cache and nothing else; a slice is read while it is shifted; retries, their
limit and the additions of the handlers share one counter; a snapshot of the Envoy
cache is taken and published in two steps; a panic of any worker ends both
controllers, and what was in memory is made anew from the API server. `hazards` in
`PROJECT.json` lists them at their lines.

What makes each component correct:

- queue: no addition is lost, no key has two workers, retries end;
- tracker: a Service lists exactly the live Ingresses that use it, once each;
- ingress controller: whatever the order of events, once nothing is pending every
  root has a stable hostname, exactly its desired leaves in their last version,
  DNSRecords for the leaves that have load balancers, a status that is the union
  of its leaves', and is tracked; and it does come to rest;
- DNS controller: whatever is written while it starts, works or is dead, every
  record's last version reaches `reconcile`, and a deleted record does not end the
  process over and over;
- Envoy: the cache is always of one moment and ends up with every root in its last
  version, so does what Envoy is sent, and the rules of an Ingress have their routes.

## 2. Modules

| Module | Models | Extends / instantiates |
|---|---|---|
| `KeyQueue` | what a controller needs of a queue (abstract) | |
| `WorkQueue` | client-go's rate limited queue and the worker loop | refines `KeyQueue` |
| `WorkQueueProofs` | theorems about it | `WorkQueue` |
| `Tracker` | the tracker's two maps with sets for slices, and the handler's loop without arrays (abstract) | |
| `TrackerSlices` | the slices, their arrays, and the handler's loop | refines `Tracker` |
| `TrackerSlicesProofs` | theorems about it | `TrackerSlices` |
| `IngressController` | the ingress controller, its informers, the API server, users, syncers, restarts | `Tracker` (state and operations) |
| `IngressControllerProofs` | theorems about it: typing, the tracker | `IngressController` |
| `IngressLeavesProofs` | theorems about the leaves it ends up with | `IngressControllerProofs` |
| `IngressDnsProofs` | theorems about the DNSRecords and statuses it ends up with | `IngressLeavesProofs` |
| `InformerFactory` | the generated factory of shared informers | |
| `DNSController` | `NewController`, informer, workers, the process and its restarts | `InformerFactory`, `KeyQueue` (state and operations) |
| `DNSControllerProofs` | theorems about it | `DNSController` |
| `Translator` | `translateIngress`, `ToEnvoySnapshot` and `generateStatusHost` as functions | |
| `EnvoyStore` | what the Envoy cache promises (abstract) | |
| `EnvoySnapshots` | the ingress controller with the Envoy control plane on, coarse but for the Envoy cache | `Translator`, `KeyQueue`; refines `EnvoyStore` |
| `EnvoySnapshotsProofs` | theorems about it | `EnvoySnapshots` |
| `EnvoyCurrentProofs` | theorems about what it ends up with | `EnvoySnapshotsProofs` |
| `MCTrackerSlices`, `MCIngressController`, `MCEnvoySnapshots` | definitions for TLC | |

A definition whose comment begins with "Faulty" is not part of a specification: it is
what a plausible bug would make of the definition below it, and the property it is
paired with in `PROJECT.json` (`mutants`) must fail with it.

### WorkQueue

`queue`, `dirty`, `processing` are the fields of `workqueue.Type`, `waiting` the heap
of the delaying queue (a delayed key may fire at any time), `failures` the rate
limiter's count, saturated at `MaxRetries` because the code only asks whether it is
below 5. `cur` and `at` are a worker's key and its place in `processNextWorkItem`.
`Enqueue` is `AddRateLimited` from a handler; `RequeueOnConflict` the path of
`ingress.go:196-202`; `HandleSuccess`, `HandleRetry`, `HandleGiveUp` are the three
exits of `handleErr`; `Done` is the deferred call. `retried` is a history variable.
The result of `process` is a free choice.

### Tracker and TrackerSlices

`Tracker` has the maps and the operations; a missing entry is the empty set. Its `loop` is
the Service handler after `getIngress`: the slots its `range` has still to read, each named
after the Ingress that was there when it began (the order of the slice is left out), and, as
histories, which of those Ingresses it has still to enqueue (`owed`) and whether a deletion
has shifted the array under it (`shifted`). A turn (`enqueueNext`) enqueues what is in
its slot; once the array was shifted that may be any Ingress, so one can be enqueued twice and
another, still tracked, not at all: with `[a, b, c]`, deleting `a` after index 0 leaves
`[b, c, c]`. `TrackerSlices` gives every Service a backing array and a length. `append` writes
in place or doubles the array, `deleteIngress` shifts in place, and a slice that
becomes empty leaves the map. `References` says which Services an Ingress may ever
name. The Service handler (its `loop`) keeps the length its
`range` started with and reads each element when it gets there, from the array of
that time; when the tracker moves to a new array the loop keeps the old one
(`left`). `began` and `seen` are histories: what the slice listed then, and what was
enqueued. It refines `Tracker`, loop included (`SlotsLeft`), so that what `Tracker` says of a
shifted loop is what arrays can do. An element is read whole. The shared read is a data race in the Go sense:
a struct torn in the middle is not modelled.

### IngressController

State of the API server: `roots`, `leaves`, `services`, `dns`, and `hosts`, the number
of hostnames generated; of the resolver, `answers`. Of an Ingress the model keeps existence, version,
hostname annotation, rules (as the sequence of Services they reference), load
balancers, and for a leaf the deletion mark and a foreign finalizer (`pinned`).
State of the informers: the two caches, `events` (the keys with an undelivered change, in
order, each once, as in a DeltaFIFO) and `svcEvents`. State of the controller: `todo`
and `failures` for the queue, the tracker's two maps with the handler's loop over a slice
of them (`Tracker`), and `job`, the local variables
of each worker's reconciliation. Three history variables, which no guard reads, say what the
controller let pass: `gaveUp` has the keys it dropped after their retries, until they are
reconciled again or the process restarts; `overlooked` the roots owed a
key for a change, until a handler enqueues them, their next reconciliation begins or the process
restarts;
`unlisted` the leaves that existed when their root last listed its leaves and that the cache
did not hold yet, for as long. A root
is overlooked when the handler begins on a Service that it tracks or has in its rules
(`DeliverService`), until the handler's loop enqueues it (`EnqueueNext`), which it never does for a
root that did not track the Service yet and may never do once a deletion shifted the slice; when a root of the same name deletes a leaf of it (`DeleteLeaf`), and
when an Update without finalizers completes the deletion of a leaf that is still desired
(`UpdateLeaf`).

| Code | Action |
|---|---|
| `process`, key not in the indexer (`controller.go:176-187`) | `ProcessDeleted` |
| `reconcile` of a root: annotation test, patch, `lister.List` (42-59) | `BeginRoot`, `Patch`, `List` |
| `getServices`, one Get per path (338-351) | `GetService` |
| `desiredLeaves`: tracking and planning (261-311), `findNonDesiredLeaves` | `Track`, `NotDesired` |
| deletions, creations, Get and Update (67-98) | `DeleteLeaf`, `CreateLeaf`, `ReadLeaf`, `UpdateLeaf` |
| `reconcile` of a leaf: List, then `indexer.Get` (99-135) | `BeginLeaf`, `ReadRoot` |
| the DNSRecord (137-170), accepted or refused by the CRD (`Targets` needs an item) | `ReconcileDNS`, `RejectRecord` |
| the root's status (172-205) | `UpdateStatus` |
| any other error of a call, or of `net.LookupIP` | `CallFails` |
| `handleErr` and the conflict path | `Succeed`, `Fail`, `RequeueAndForget` |
| informer handlers, resync, `ingressesFromService` up to its loop, each turn of the loop | `Deliver`, `Resync`, `DeliverService`, `EnqueueNext` |
| the process dies and starts again | `Restart` |
| users, kcp, syncers, owners of finalizers | `CreateRoot` ... `Unpin` |
| other answers of `net.LookupIP` (216) | `ChangeAddress` |

Abstractions, all deliberate:

- A reconciliation is cut at every API call and at every read of shared state
  that another goroutine can change. Tracking one Service is one step, under its mutex.
- The loop of `ingressesFromService` is the one of `Tracker`: slots in any order, and any root
  in a slot once a `deleteIngress` shifted the array, which is more than the array
  can hold. `TrackerSlices` has the arrays.
- `Deliver` joins the informer's update of the indexer and the handler's `enqueue`, which run
  on two goroutines. In between, the indexer has a change whose notification is still to be
  handled. A worker that takes the key there sees the new state and, the addition coming
  later, sees it again afterwards; the model has one of these two reconciliations. At
  rest no notification is left.
- `ProcessDeleted` joins `GetByKey` (`controller.go:171`) and `deleteIngress` (185). Only the
  worker that has a root's key tracks it, so a root created again in between is tracked after both.
- The queue is a set of owed keys, as in `KeyQueue`; any owed key that is not busy
  may be next. `WorkQueue` shows that the real queue implements this, and its
  liveness is what the strong fairness on `Begin` assumes.
- Create, and Apply when the DNSRecord exists, are one step of `ReconcileDNS`: the
  record of a leaf is only written by the worker that has the leaf's key.
- A call whose effect happened and whose answer was lost is covered by a restart
  after it, or by the failure of the next call.
- The comparison and Update at the end of `process` (`controller.go:198`) are left
  out: `reconcile` never changes the object it is given.
- Several undelivered changes of one key are delivered as one, in the last
  state. That is a possible run of the real informer; the intermediate ones only
  add keys already owed.
- Names do not contain `--`, so that two leaves do not share a name in one
  namespace; roots have no finalizers; the order and repetition of status entries is left out. Keys made
  by `MetaNamespaceKeyFunc` and by `ingressToKey` are taken to be equal, which they
  are in the kcp fork of client-go when the object has a cluster name.
- The Envoy branches are off, as by default; `EnvoySnapshots` has them on.
- `answers` says which of two sets of addresses a load balancer's name resolves to. The
  lookups of a reconciliation and the write of its record are one step: nobody else reads
  or writes that record, so a change of addresses between the two is one after both.
- `Unaddressed` are the load balancer entries with neither hostname nor IP: a record
  made of those alone has no targets.

### DNSController

The informer factory's three sets are `InformerFactory`'s; `phase` is the place
`NewController` and `Start` have come to, `down` a process that is dead. `records` are
the API server's, with a version per record, `indexer` is the informer's store, `owed`
and `busy` are the queue as `KeyQueue` describes it, `cur` and `at` the workers'.

| Code (`dns/controller.go`) | Action |
|---|---|
| `Informer().AddEventHandler` (36-43) | `AddEventHandler` |
| `sif.Start`, `WaitForCacheSync`, the indexer, `Start` (45-56, 79-92) | `StartInformers`, `StartWorkers` |
| the informer's first list; watch events; a deletion found by listing again; resync | `ListRecords`, `Deliver`, `DeliverTombstone`, `Resync` |
| `queue.Get` (94-100) | `Get` |
| `process` with the empty `reconcile` (132-158) | `Process` |
| the same for a key that is not in the indexer: nil asserted to a record (138-142) | `Panic` |
| `handleErr` without error, deferred `Done` (102-116) | `Done` |
| the process is killed; started again by someone | `Kill`, `Restart` |

`ListRecords`, `Deliver` and `DeliverTombstone` join the informer's update of its store with the
handler's `enqueue`, two goroutines in the code: read literally, a version is in the store for a
moment before its key is owed, and `NothingForgotten` holds again when the handler has run.

`wait.Until` recovers a panic only to log it and panics again, so `Panic` ends the
process. `Restart` is not fair: the repository has nothing that starts it again. The
retry branch of `handleErr` is unreachable here (`reconcile` returns nil and
`GetByKey` of client-go's store never fails) and is modelled in `WorkQueue`.

### Translator and EnvoySnapshots

`Translator` keeps what decides where a request goes: endpoints, clusters, domains,
routes, and the names by which listener, routes and clusters refer to each other.
Routes and virtual hosts are sets: the routes of an Ingress all lead to its one cluster, so
which of them matches first makes no difference. A rule without `http` is a nil pointer for the code (`TranslationPanics`), and so
is the first of no rules (`StatusHostPanics`). `Backends` is Envoy's side: what a
request to a host and prefix reaches.

`EnvoySnapshots` follows a leaf's worker from the list of the leaves to the root's
status. A root is its rules and its generated hostname, which tells it from a later
root of the same name. A cached Ingress is a root with merged status; a snapshot
is kept as the cached Ingresses it was made of. `revised` has the roots written since their
leaf's worker last read them, for which `UpdateStatus` meets a conflict. `mu` is the mutex, and between
`UpdateIngress` (lock, Delete) and `Add` (Add, unlock) other workers move.

| Code | Action |
|---|---|
| `process`, key not in the indexer: `DeleteIngress` (`controller.go:176-183`) | `ProcessDeleted` |
| `reconcile` of a root, all of it; nil `http` in `getServices` (`ingress.go:341`) | `ReconcileRoot`; `PanicOnRoot` |
| `reconcile` of a leaf: list, root, merged status (99-177); no root (128) | `BeginLeaf`; `RootNotFound` |
| `cache.UpdateIngress` (`cache.go:37-42`) | `UpdateIngress`, `Add` |
| `cache.ToEnvoySnapshot` (50-81) | `TakeSnapshot` |
| `SetSnapshot` (`ingress.go:182`, `controller.go:182`) | `SetSnapshot` |
| generated host, `UpdateStatus` (187-205) | `UpdateStatus` |
| nil `http` in the translator, no rules in `generateStatusHost` | `Panic` |
| any other failure of a call | `CallFails` |
| the process dies and starts again | `Kill`, `Restart` |

A deletion that a broken watch missed may come as a tombstone, for which `enqueue`
finds no key (`DeleteRoot`, counted as a fault). `ProcessDeleted` joins `GetByKey`
(`controller.go:171`) with the removal from the cache (181): a root that is created again in
between is removed as if it had been created just after, and its event is yet to come.
What `IngressController` has in detail is coarse: informer delays, a root's several leaves and API calls, DNSRecords.
The rate limiter's count is left out, so any failure may be the last.

## 3. Runs

All bounds are CONSTANTS. The `IngressController` runs allow `MaxChanges` steps of
the outside, `MaxFaults` failing calls and `MaxRestarts` crashes; within them the
order is free. They switch the deadlock check off, because with the bounds
used up and the queue empty the system is really at rest; the queue and the
tracker can always do something and are checked for deadlock.

Runs that pass:

| Run | Instance | Shows |
|---|---|---|
| `work_queue` | 3 keys, 2 workers, 1 retry, fair | `ReadyIsDirtyAndIdle`, `OneWorkerPerKey`, `RetriesBounded`; `ImplementsKeyQueue`: safety and liveness of `KeyQueue` |
| `tracker_slices` | 3 Ingresses share a Service, one uses another too | the slices implement the sets; `IndexSound`, `NoDuplicates`; a loop over an array nobody shifts misses nobody |
| `ingress_leaves` | 2 workers, 2 clusters, 2 Services, roots created and updated, Services removed, 1 fault, 1 restart | `LeavesConverged`, `NoLeftovers`, `RootsTracked` |
| `ingress_dns` | 2 workers, 1 leaf, 2 load balancers, one without address, roots created and deleted, status reports, 1 fault, 1 restart, fair | `DnsConverged`, `StatusConverged`, `Settles` |
| `ingress_heals` | 1 worker, placements, status reports, finalizers, changing addresses, a restart, fair, resync | `SelfHealing`, `AddressesHeal`; `LeavesConverged`, `NoLeftovers` when Services move and the process restarts; `DnsConverged`, `StatusConverged` for leaves that are deleted and made again |
| `dns_controller` | 2 records, 2 workers, 4 writes or deletions, 1 kill, any number of panics and restarts, fair | `NothingForgotten`, `NoCrashLoop`, `EventuallyReconciled` |
| `envoy_snapshots` | 2 roots, 2 workers, rules with and without host, paths, `http`, and none, a host and path that both roots have, 1 load balancer, 2 changes of the first root or 1 of the second, 1 fault (failing call, tombstone or kill), fair, resync | `ImplementsEnvoyStore`, `CacheCurrent`, `StatusHostCurrent`, `RequestsRouted`, `OnlyOwnHosts`, `EnvoyHeals` |

Bounds. Two workers are what `main.go` starts. Small sets suffice for every
interference: a root with two leaves, a Service with three Ingresses, so that an
array grows to four, shrinks and is reused. Two or three changes let a change
arrive before, during and after the reconciliation of the one before, and let a
user undo or redo it. `MaxRetries` is 1 in the runs with failing calls: a first failure is retried or, when a
handler has counted an addition meanwhile, dropped; that the limit holds for every value
is proved. The passing ingress runs have one root: a second, which shares the
workers and the Services, takes the states of `ingress_leaves` beyond what a run should
last, and the proofs speak of any number of roots. `ingress_dns` has one leaf, the case `StatusConverged` is about; a root that is created
again over a leaf with a status takes four changes, one more than it has, and is left to the
proof. `ingress_heals` has one worker and one
cluster, to be small enough for a liveness check; a leaf becomes a leftover there when
its Service loses its cluster. Injected failures are left out of it and
`MaxRetries` is 0: a key that fails, as on a leftover that is already gone, is dropped at
once and waits for the resync, the harder case for `SelfHealing`.
In `dns_controller` four changes let a record be written, deleted and
written again while the other one is written too, at any point of a start. In
`envoy_snapshots` a root exists at the start with its leaf, so that one change, with the
resyncs that are free, has both workers in the cache at once: one with the root before
the change, one with the root after it. Two changes of that root undo and redo its rules,
or delete it and create it again; the second root is there for the snapshots that have
both, and costs both changes (`Cost`) to keep the liveness check small. A panic costs nothing there; the process
restarts and meets the same Ingress again, which `EnvoyHeals` excludes by its premise
that the process stays up.

Runs that find a violation: each checks what a comment of the code says, and the
behaviour TLC prints is one of the code's. `findings` quotes the comments.

| Run | The comment | What the code does |
|---|---|---|
| `dns_panics` | "No matter what, tell the queue we're done with this key, to unblock other workers." (`dns/controller.go:102`) | the key of a deleted record ends the process |
| `envoy_deleted` | "delete the Ingress from the cache and set the new snaphost" (`controller.go:180`) | another worker publishes a snapshot older than the deletion, or puts the root back into the cache |
| `envoy_rules` | "If the host is empty we just ignore the rule" (`translator.go:58`) | the rules after it are ignored too |
| `ingress_same_name` | "Delete the leaves that are not desired anymore" (`ingress.go:67`) | leaves of a root of the same name in another namespace are deleted |
| `ingress_orphan_records` | "removal of the DNS records, will be done in the next reconciliation cycle" (`ingress.go:69`) | that cycle does not find the leaf and returns |

What the passing runs leave out, because the property would fail there:

- `LeavesConverged` excepts the roots of `overlooked` until they are reconciled again. A
  Service that moves between its Get and `tracker.add` is tracked by nobody at that moment
  (after a restart there is no hostname patch whose event would reconcile the root again);
  the deletion of a leaf enqueues the leaf's key alone (`controller.go:62-66`), so a root
  whose desired leaf goes is not told. `SelfHealing` covers it: the resync repairs the leaf.
  An Update that completes a deletion takes four outside changes and is beyond
  the runs' bounds; the proof covers it.
- `StatusConverged` is about roots with one leaf (`OnlyLeaf`) that is there. With two, on two
  workers, it fails: a leaf's reconciliation lists the leaves (`ingress.go:107`) before it
  reads the root (115), so another worker's status can reach the cache in between and an
  older union be written with the newer version. Nor does anything rebuild the status when
  a leaf is deleted.
- `DnsConverged` asks for some address of each load balancer and no other's: at rest it
  may be one the name no longer resolves to, until the resync (`AddressesHeal`).
- `UnshiftedLoopCoversAll` is about loops whose array no deletion shifts; a deletion can
  move an Ingress to an index the loop has passed. `LeavesConverged` and `NoLeftovers` therefore
  except, with the other roots of `overlooked`, those a Service's change did not reach: they
  wait for their next event or the resync.
- `IndexSound` has no converse: `add` makes the inner map anew (`tracker.go:43`), so
  `deleteIngress` cleans only the Service added last, and a deleted Ingress stays
  with its other Services: their changes enqueue a key for which `process` finds nothing.
- `RetriesBounded` is an upper bound only: the limiter also counts the handlers' additions,
  so a key may be dropped after fewer than five retries.
- `CacheCurrent` and `StatusHostCurrent` are about roots that exist and whose keys were not
  dropped; that a deleted root leaves the cache, and the published snapshot, is what
  `envoy_deleted` refutes. They also except a root whose rules were changed and changed
  back (`SetBack`): a leaf's worker can read the rules in between (`ingress.go:131`) and
  finish; the reconciliation of the root then finds the leaf as it wants it, its Update is
  no event for the leaf (`ingress.go:92`), and Envoy and the status keep the rules in
  between until the resync, which `EnvoyHeals` covers.
- A leaf that is not desired any more and that the cache does not hold yet is not deleted
  by the reconciliation that should (`ingress.go:56`). `NoLeftovers` therefore excepts the
  leaves of `unlisted`, and the roots of `overlooked` like `LeavesConverged`; `SelfHealing`
  says that the resync has them deleted too.
- A root that is read before the hostname patch reached the cache gets another hostname
  (`ingress.go:42`). `DnsConverged` allows for it: it asks for the root's present hostname.

`RootsTracked` needs no such condition, and no theorem one that its property has not. The resync repairs neither the
DNSRecord nor the leaves of something deleted.

Fairness. `WF` on a worker's next step (goroutines are scheduled, calls return),
on delivery by the informers and on the steps of `NewController`, and `SF` on starting
each key, which is `KeyQueue`'s promise and is checked for the real queue under `WF` of
timers and workers alone. In `EnvoySnapshots` a worker's steps have `SF`, because they
wait for the mutex, and Go's mutex hands itself to whoever waited long enough
(starvation mode). Nobody outside is ever obliged to act, and a process that died need
not be started: the liveness properties say what holds while it is up.
`ResyncSpec` and `EnvoySnapshots` add `WF` of the resync, which the informer's timer
(10 hours) justifies. Failures and crashes are never fair, only possible.

## 4. Proofs

`tlapm` checks every proof to the last leaf; Init, each action, and each
conjunct it can disturb have steps of their own.

`WorkQueueProofs`, from `ConstantsAssumption` alone (any sets of keys and workers, any
retry limit). The inductive invariant `IInv` joins the typing, `ReadyIsDirtyAndIdle`,
`OneWorkerPerKey` with `HeldIsProcessing` (the key a worker has is in `processing`,
which is what keeps `Add` from queueing it) and `RetriesAreCounted` (requeues never
exceed the limiter's count, which is why the limit bounds them although other
additions count too). From it: `TypeCorrect`, `QueueCorrect`, `MutualExclusion`,
`BoundedRetries`, and `RefinesKeyQueue`, that each step of the queue is a step of
`KeyQueue` or a stutter.

`IngressControllerProofs`, from `ConstantsAssumption` alone: any roots, Services,
clusters, workers and bounds, all users' actions. `TypeCorrect`, and
`TrackingConverges`: at rest a live root that was not dropped is tracked by every
Service of its rules. The property speaks of quiet states only, so it says nothing of
the steps before. The invariant follows one root through the system: what the cache
holds is current unless an event is pending (`CachedRootsCurrent`); a cached root is
tracked unless its key is owed, busy or dropped (`TrackedOrPending`); a job on a root
whose key has not been added again works on the cached rules and has tracked
those it has passed (`JobsTracked`); a key has one job (`KeysExclusive`).

`IngressLeavesProofs`, from the same assumption: `LeavesConverge`. At rest, each root that
was neither dropped nor overlooked has its leaves; the invariant (`RootsServed`) says what
each step on the way there has done. It speaks of a root only while the controller has
`Heard` everything about it: the root is cached and not owed, none of its Services has a
change on its way, and it was not overlooked. Then the job on it has, as far as it has come
(`JobServes`), a leaf planned or written for each Service it has read, and if nobody has
it and it was not dropped, every leaf is there, to stay, with the cached rules and hostname
(`Served`). A Service that moves or goes is a change on its way until
the handler begins on it, and from then on the root is overlooked until the loop enqueues
it: so a root that the loop misses stays excepted, and one it reaches is owed; a job that fails owes the root or drops
it; so nothing that spoils `Served` leaves the root `Heard`. `JobsOwn` says why a job spoils nothing itself: the
leaves it writes are its own root's, its deletions come before them, and the hostname it
writes is the cached one unless the root has been added again.

The same module proves `LeftoversGone`. Its invariant (`RootsCleared`) speaks of a root while
it is `Heard`, too: a leaf that exists, is there to stay and was in the last list (`Listed`)
is among those the job has listed, from the list to the comparison of names; from
then on it is among those to be deleted or is one that a Service of the rules asks for
(`Wanted`); and a job writes leaves that are wanted only (`JobClears`). The comparison
is where names matter: a listed leaf of the job's own root that is not to be deleted has the
name of a planned one, and two leaves of one root that share a name are one
(`DesiredKept`). `Wanted` changes only with a Service, whose event ends `Heard`.

`OnlyNamesakesDeleted` bounds what `ingress_same_name` finds: what a job has to delete are
leaves of roots with its root's name (`DropsNamesakes`), for any constants. So where names are distinct,
`OwnLeavesDeleted` has the property that run violates: equal names are all there is to it.

`IngressDnsProofs`, from the same assumption: `RecordsConverge` and `StatusConverges`. A leaf and its root reach the
indexer in either order and a record is made of both, so the record of a leaf can be wrong
with nothing owed for the leaf. The invariant (`LeavesServed`) says who will see to it.
`LeafServed`: the leaf has a change pending, is owed or was dropped (`Attended`), or its
worker has what record and status are to be made of (`JobRight`), or both are right
(`RecordRight`, `StatusRight`); or else it has an older hostname than its root, and then the root is
`Attended` or has a worker that has still to come to this leaf, which will delete it or
write it (`RootAwaited`). `HostSeen` is why there is no third case: the present hostname of a
root is in none of its leaves and jobs before it is in the indexer, so at the moment the
indexer takes the root's new hostname every leaf has an older one. Hostnames
are drawn and never repeat (`HostsDrawn`), which is why a leaf with an older hostname cannot
pass for current. `HostComing`: a cached root without hostname will be given one or was dropped.
`StatusRight` speaks of a root whose hostname is the cached one, that is, of the root the
indexer knows: a later root of the same name has no hostname, then another one, and
so comes under the same argument. At rest only what is right is left (`NothingLeft`). The
proof found that `StatusConverged` must except dropped roots, as `DnsConverged` does: such a
root may have been created again over a leaf that nobody writes.

`DNSControllerProofs`, from `ConstantsAssumption` alone: any records, workers,
writes, kills. `NeverForgets` needs that what a fresh process cannot have (`Lifecycle`:
no owed key before the list, no busy one before the workers run) is part of the
invariant, and that a worker's key is in nobody else's hands (`KeysExclusive`); `Noted`
follows a record from the store to `reconcile`. `PanicsBounded` needs `Paid`: a key
that may yet panic (gone from the store and owed, or about to be delivered as gone) has a
deletion that no panic has used, and the end of the process clears all of them at once,
because a record that is not listed is not owed.

`EnvoySnapshotsProofs`, from `ConstantsAssumption` alone: any roots, rules, load
balancers, workers and bounds. `RefinesEnvoyStore` maps the abstract entry of a root to
that of the worker between Delete and Add, if there is one, and to the cache
otherwise. The invariant (`Locked`) says that whoever is in between has the mutex and
finds nothing where it adds, so that Add, which refuses an entry that is
there, never does; `Shaped`, that who publishes has a snapshot. Then Delete is
the abstract update, Add a stutter, and the death of the process, from a kill or
a panic, the abstract crash.

`EnvoyCurrentProofs`, from the same assumption. `CacheCurrent` and `StatusHostCurrent`
speak of roots at rest; the invariant says what holds before. A root that its leaf
disagrees with is owed (`RootSeen`), because every write of it enqueues it. A leaf that is
neither owed, nor in a worker's hands, nor dropped left cache and status current, unless
its root was written since the leaf's worker read it (`LeafSeen`); at rest, where root and
leaf agree, that is a root set back. What a worker has in hand is what there is, unless
its key is owed again or its root written since (`Fresh`); the second is `revised`, on
which UpdateStatus conflicts and is retried. A key is in one worker's hands
(`KeysExclusive`), so whoever finishes leaves no older work behind, and only a leaf's
worker has a root in hand (`LeafJobs`). `PublishedRouted` and `HostsApart` need no history:
they hold of any contents a snapshot may be made of. A published Ingress has one virtual host
(`VirtualHostOf`), whose routes all lead to the cluster of the same key and nowhere else, so
`Backends` is a union over the Ingresses whose virtual host matches (`BackendsOf`); from there
one theorem says that the loop of `translateIngress` loses no path before it ends, the other
that no Ingress answers for a host that is not its own.

`TrackerSlicesProofs`, from `ConstantsAssumption` alone: any Services, Ingresses and
references, slices of any length. Lemmas say what `append` and the shift in place do to
an array (`AppendTo`, `ShiftDown`) and to the set that it lists (`AppendProper`,
`WithoutProper`). `ListedOnce` is why removing the first entry removes them all, and so
what the refinement of `Tracker` rests on. `AsBegun` and `LoopSound` are what makes
`NobodyMissed` inductive: until a shift, the array the loop reads, the slice's or the one it
left, begins with what was tracked when it began, and what the loop has passed is enqueued;
an append writes beyond that range only. The same two map a turn to the turn of `Tracker` that
enqueues the Ingress of its slot, and a deletion to one that shifts the slots if the loop
still reads the slice's array.

Only model-checked: every liveness property (`Settles`, `SelfHealing`,
`AddressesHeal`, `EventuallyReconciled`, `EnvoyHeals`, the fairness of `KeyQueue`), which is out of the
prover's reach. Every invariant that a passing run checks, and each safety refinement, is proved.

## 5. Plan

Done: the queue, the tracker, the ingress controller, the DNS controller with its
informer factory, the Envoy cache and translator, and theorems about all of them. Next,
in this order:

1. `IngressController`: leaf names with `--`, which two leaves can share.
2. What the status of a root with several leaves is sure to have: first a property, with
   TLC, then a theorem.

Not modelled: generated code other than the informer factory (deep copies, clientset,
listers, fakes), manifests and scripts, which have no behaviour of their own beyond the
calls the models already make; the lister of DNSRecords and the DNSRecord's status, which
nothing reads or writes; `ShutDown`, since `stopCh` is never closed; flags and
kubeconfig; the management server (`RunManagementServer`), which is another
repository's code; what Envoy does with a snapshot it rejects, such as one with a
domain in two virtual hosts.
