# A TLA+ verification of the SPIRE EKS Workload Registrar

The registrar runs in a management cluster. `WorkloadIdentity` objects say which
pods get which SPIFFE ID, `EKSClusterRegistry` objects say which workload
clusters to watch, and the registrar keeps one entry in the SPIRE server for
every running, selected pod. Several goroutines do this at once, against the same
server and without a lock around "list, decide, write". This project models
those goroutines, checks with TLC what they guarantee together, and proves with
TLAPS what holds for any number of pods, clusters and identities.

Source paths below are relative to `src/`. `PROJECT.json` has the line map, the
hazards, the runs, their mutants and the findings.

## 1. Inventory

| Component | State | Operations | Talks to |
|---|---|---|---|
| Full pass, `internal/controller/main_reconciler.go` | locals of one pass: listed clusters and identities, `EntriesState` | `reconcileAll`: connect and prune clusters, list identities, list SPIRE, declare entries, apply the difference, write statuses | API server, cluster manager, informer stores, SPIRE |
| Entries, `internal/spireentry/` | maps `current`, `declared` | `RenderEntry`, `MakeEntryKey`, `AddCurrent`, `AddDeclared`, `GetChanges`, `entriesEqual` | none (pure) |
| Pod events, `internal/controller/targeted_reconciler.go` | locals of one event | `ReconcileSinglePod`, `reconcilePodEntry`, `deleteEntriesForPod` | API server (cache), node API, SPIRE |
| Resource events, the same file and the two resource controllers | locals of one request | `ReconcileWorkloadIdentity`, `ReconcileEKSCluster` and their orphan clean-up | cluster manager, stores, SPIRE |
| Cluster manager, `internal/cluster/manager.go` | map of connections, each with client, informer and stop channel | `AddOrUpdateCluster`, `RemoveCluster`, `handlePodChange`, `Shutdown` | AWS client cache, workload clusters |
| AWS client cache, `internal/aws/` | clients by object name | `GetClusterClient`, `CleanupStaleClients` | AWS, EKS |
| Reconcile loop, `internal/reconciler/reconciler.go` | `triggered`, ticker, unbuffered channel | `Trigger`, `Run` | runs the full pass |
| Deletion, `internal/controller/deletion_controller.go`, the finalizer webhooks, `pkg/finalizer` | finalizers of the objects, work queue | `Default`, `ReconcileWorkloadIdentity`, `ReconcileEKSClusterRegistry`, `deleteEntriesForOwner` | API server, SPIRE |
| SPIRE client, `pkg/spireapi/client.go` | none | list, create, update, delete, batches | SPIRE server |
| Webhook certificates, `pkg/webhookmanager/` | CA, certificate, expiry | mint, rotate, update the webhook configuration | API server, file system |
| Types, configuration, wiring, `api/v1alpha1`, `cmd/main.go` | none after start | defaults, start order | all |

What is hard here:

* **Interleaving.** The full pass, one handler goroutine for each connected
  cluster, and the controllers read and write the same entries; every call to
  SPIRE or Kubernetes is a place where another goroutine runs.
* **Staleness.** Notifications are handled in order but arbitrarily late; a pass
  works with lists it read at different moments; a connection holds its own copy
  of the registration.
* **Failure.** Almost every error is logged and skipped, so later work has to
  make up for it. A restart forgets everything but SPIRE.
* **Several deciders.** Full pass, pod events and the two resource controllers
  decide separately what is wanted. Where they disagree they undo each other's
  work.
* **One lock, long held.** The manager of the connections waits for a cluster's
  first list with its lock held; pass, controllers, handlers and shutdown need it.
* **Shared between processes.** During a rolling update two processes write one
  webhook configuration, each with a CA of its own.

What makes the system correct: SPIRE converges to what the resources and pods
ask for and then stays put; nobody else's entry is touched; no entry exists for
a pod that has never run; a wanted entry is not lost to a stale decision, or
comes back; a deletion of a resource completes and leaves nothing behind.

## 2. Modules

| Module | Models |
|---|---|
| `SpireEntry` | `spireentry/entries.go`, the comparisons of `state.go`: rendering, keys, hints, outdated fields |
| `EntriesState` | `spireentry/state.go`: `current`, `declared`, the three differences |
| `Fleet` | resources and pods (external), and `cluster/manager.go`: connections, informer store, notification queue, resync |
| `SpireServer` | the entry API as `spireapi/client.go` uses it (the server itself is external) |
| `PodHandler` | `handlePodChange` and `ReconcileSinglePod`, one step per remote call, one job per goroutine |
| `MainReconciler` | `reconcileAll`, one step per remote call or lock section |
| `Registrar` | the composition: environment, handlers, full pass, restart; its properties |
| `Ledger` | abstract: what the registrar promises about SPIRE, as one book of entries and the pods that have started |
| `ResourceControllers` | the controllers of `WorkloadIdentity` and `EKSClusterRegistry` with `targeted_reconciler.go`'s part for them, composed with `Registrar` |
| `SharedReconciler` | `reconciler/reconciler.go`: the loop |
| `ClusterManager` | `cluster/manager.go` and `aws/client.go` once more, for the lock, the client cache and shutdown, composed with `SharedReconciler` |
| `Deletion` | finalizer webhooks and deletion controllers of both kinds, beside a reduced full pass |
| `WebhookCerts` | `webhookmanager/finalizer_webhook_manager.go` in several processes |
| `MCRegistrar`, `MCResourceControllers`, `MCClusterManager`, `MCDeletion` | instances for TLC |
| `RegistrarProofs <- LedgerProofs <- WantedProofs <- ConvergeProofs` | theorems about `Registrar`, each module resting on the one before |
| `ResourceProofs` | theorems about `ResourceControllers`, resting on `LedgerProofs` |
| `ClusterManagerProofs`, `DeletionProofs`, `WebhookCertsProofs` | theorems about the module of that name |

By EXTENDS: `SpireEntry <- EntriesState`; `SpireEntry <- Fleet, SpireServer <-
PodHandler <- MainReconciler <- Registrar <- ResourceControllers`;
`SharedReconciler <- ClusterManager`. `Registrar` instantiates `Ledger`.

How state and steps correspond to the code:

* **Entries** are records with `id`, `spiffeID`, `parentID`, `selectors`,
  `attrs`, `hint`. Templates are opaque; `usesLabel` says whether the rendered
  SPIFFE ID depends on the pod's label, which is what makes an entry's ID change
  with the pod. `attrs` stands for all fields `getOutdatedEntryFields` compares
  apart from the hint. `MakeEntryKey` keeps what the SHA-256 covers and forgets
  the order of the selectors, as the code's sort does; the hash is taken as
  injective. `entriesEqual` keeps the code's map keyed by selector type.
* **Hints** are a sequence of parts and the owner tag, so that the comparisons of
  `entryBelongsToIdentity` and `entryBelongsToCluster`, which overlook the tag,
  come out as they do in the code.
* **Pods** are seen as the informer of their cluster sees them: watch event and
  store update are one step, so `Stored(c)` is the informer's store. The handler
  goroutine of a connection is a `Listener` with its own FIFO queue.
* **Connections.** `AddOrUpdateCluster` has the three branches of the code:
  refresh the registration, reconnect, or stay without connection. `role` stands
  for the three fields that force a reconnect. A stopped connection loses its
  pending notifications, but a job that its goroutine has begun goes on; the new
  connection gets a goroutine whose last event is handled. A pass or a cluster
  worker that holds a stopped connection goes on with its store as it was
  (`held` in `ResourceControllers`).
* **Full pass.** `ListClusters`, `ConnectCluster` (for each), `PruneCluster` (for
  each), `ListIdentities`, `ListCurrent`, `ProcessCluster` (for each pair of
  cluster and identity), `GetChanges`, `ApplyDelete`, `ApplyCreate`,
  `ApplyUpdate`, `EndPass`. Go's map iteration makes these orders arbitrary, and
  so does `\E`. Error returns go to `Return`.
* **Resource controllers.** `asked` is both work queues, `task` the call each
  worker is in: `ReconcileWorkloadIdentity` or `ReconcileEKSCluster` and
  `Connect`, then `EnsureTaskList` and `EnsureTaskWrite` for each pod, then
  `ListOrphans`, `SelectOrphans` and `RemoveOrphan`. For an object that is gone or
  a cluster that is disabled the call lists SPIRE and deletes at once
  (`DeleteOwned`), the latter before `Disconnect`. `Wake` puts an object into
  its queue when a user or `updateStatuses` at the end of a pass writes it.
* **Failures.** `Outcome(FALSE)` is a failed call, counted against `MaxFaults`.
  A write that fails leaves SPIRE unchanged; one that SPIRE carried out but whose
  answer was lost looks to this code, which only logs the error, exactly like a
  success, and is that case of the model.
* **noise** is history for the properties: whether anything disturbed the
  running pass. `Step` is what the program and its environment do, `Next` is `Step`
  with that noted.
* **The lock** (`ClusterManager`): a section under `m.mu` is one step, except
  that `AddOrUpdateCluster` leaves `lock` set until `WaitForCacheSync`. The
  informer answers when the role its client was made for reaches the cluster
  (`outages`). `call` is what each of the two callers has read and still has to
  do. `CleanupStaleClients` may find any client unused for half an hour. The
  behaviour ends with `Shutdown`, the last thing `main` does.
* **Deletion.** An entry is declared while its identity and its cluster exist,
  terminating or not. The full pass is reduced to what it does to these entries
  and, in `UpdateStatus`, to the objects: `updateStatuses` makes a new version of
  every object it has listed, terminating ones included, unless somebody else has
  written that since (`unwritten`). A new version puts the object into its work
  queue and makes the Update of a worker that has read the old one conflict
  (`stale`). `Store` is an update as the API server carries it out: the webhook's
  `Default` decides about the finalizer, and a terminating object without it is
  gone; users and the worker's `RemoveFinalizer` both go through it. `owed` is
  history for the properties: the entries that matched an object when its
  deletion was asked for and that have been neither deleted nor refused since.
  `HintMatches` says which entries a controller finds: those whose owner tag
  contains the identity's, so that `web` finds those of `web-2` too
  (`TagContains`), and those whose generated hint names the cluster, which a
  custom hint does not.
* **Certificates** (`WebhookCerts`) are what is left of their lifetime.
  `WriteCert` and `WriteKey` are the two files; the server (external) reloads a
  pair that fits. `bundle` is the process whose CA the configuration trusts.
  An error ends the process during `Start` and is logged by the rotation loop.

`Ledger` knows nothing of passes, events and hints: an entry of the registrar
may be granted for a pod that has started, amended without changing whom it is
for, and revoked, one at a time, and nobody else's entry changes.
`ImplementsLedger` maps SPIRE to the book.

## 3. Runs

| Run | Checks | Shows |
|---|---|---|
| `core` | `TypeOK`, `ForeignUntouched`, `OnlyForStartedPods`, `PassConverges`, `PassKeepsWanted`, `HandlerLossHeals`, `ImplementsLedger` | safety of pass and handlers interleaved at every call |
| `selection` | `PassConverges` | the pass selects the right pods: pod and cluster selectors, broken template, ignored namespace |
| `liveness` | `EventuallyConverged`, `Settles` | SPIRE settles on the desired entries, across restarts and reconnects with two goroutines |
| `resources` | `EventuallyConverged`, `ImplementsLedger` | the same with the resource controllers |
| `manager` | `NoLeakedInformer`, `WaitHasInformer`, `ConnectionsFollowRegistry`, `EveryTriggerServed`, `ShutdownCompletes` | the lock, the loop and the end of the process, with outages |
| `deletion` | `LiveHasFinalizer`, `GoneOnlyCleanedUp`, `DeletionCompletes`, `EntriesConverge` | finalizer protocol under users, status writes, conflicts, failures, restarts, misleading hints |
| `certs` | `NeverExpired`, `BundleFollows` | rotation with failing writes, two processes, one configuration |

The properties, in words:

* `PassConverges`: a pass that starts with all notifications handled, and during
  which nothing changes or fails, ends with exactly the desired entries (up to the
  order of their selectors), even if the notifications of a resync or a new
  connection are handled beside it.
* `PassKeepsWanted`: a pass never deletes an entry that is wanted at that moment,
  though pods start and stop and handlers write while it runs; passes during which
  a pod is relabelled, the configuration changes or a call fails are excepted
  (`noise`, and `failed_calls` shows why). This rests on listing SPIRE before
  reading the stores; the mutant that lists later breaks it.
* `HandlerLossHeals`: a handler may delete a wanted entry because of a stale
  notification; then a notification that restores it is still in the queue. It is
  about the listener of the current connection; for a stopped one the liveness
  runs apply.
* `OnlyForStartedPods`: an entry of ours belongs to a pod that has run.
* `ForeignUntouched`: nobody else's entry is removed or rewritten by the full
  pass or by pod events. (The deletion controller and the resource controllers
  select by hint, not by prefix; entries of others whose hints have the form of
  ours are not in the runs, and excluded by `HintsApart` in the proofs.)
* `EventuallyConverged`, `Settles`: once changes and failures stop, SPIRE has the
  desired entries for good, and its contents no longer change (updates that leave
  an entry as it is may go on, see `k8s_selectors` below). With the resource
  controllers only the first is checked.
* `ImplementsLedger`: every step is a step of `Ledger` or leaves SPIRE alone.
* `NoLeakedInformer`: the informers that run are those of the connections, in
  whatever order the callers get the lock.
* `WaitHasInformer`: while somebody waits for a cluster's first list with the
  lock held, nobody stops the informer it waits for. The mutant that removes a
  connection without the lock breaks it.
* `ConnectionsFollowRegistry`: pass and controller work from registrations they
  read before they had the lock and may undo each other's work, but once users
  and AWS rest, the connections are those of the enabled registrations.
* `EveryTriggerServed`: the send on the unbuffered channel may be dropped, as the
  one at start-up always is; a pass that begins afterwards follows all the same.
* `ShutdownCompletes`: shutdown gets the lock. It rests on waiting for the
  informer's store only: the mutant that waits for the handler, which needs the
  lock itself, never returns.
* `LiveHasFinalizer`: no write of a user leaves an object without the finalizer
  that is not being deleted.
* `GoneOnlyCleanedUp`: an object goes only when nothing is owed for it any more,
  unless a user takes the finalizer off a terminating object. The mutant that
  goes on after a failed list breaks it. It also rests on the version that the
  worker's `Update` carries: a worker that cleaned up for an earlier object of the
  name, which a user then forced away, created anew and deleted, must not finish
  off the later one. That takes three changes, one more than the run makes; it is
  covered by the theorem `CleanedUpFirst`.
* `DeletionCompletes`: a terminating object goes, although its finalizer can only
  be removed by an `Update` that no user and no pass has overtaken. The mutant is a
  webhook that adds the finalizer to terminating objects too.
* `EntriesConverge`: entries that a pass creates for an object being deleted,
  that SPIRE refused to delete or that no hint gives away go in the end, and
  entries deleted because of a similar name come back.
* `NeverExpired`: files that do not fit each other after a failed rotation are
  replaced in time, because `certificateExpiry` is set last.
* `BundleFollows`: the process that remains after a rolling update gets its CA
  into the configuration for good, although it writes only when it rotates.

### Disagreements between code and documentation

Each is a run in which TLC violates the documented statement.

| Run | Statement | What the code does |
|---|---|---|
| `nil_selector` | README.md:423 "Ensure eventual consistency" | an identity without `podSelector` selects every pod on the event path and none in the full pass; the entry is created and deleted for ever |
| `failed_calls` | README.md:423 "cleanup orphaned entries" | a pod whose node cannot be read is not declared, so the pass deletes its entry |
| `restart_cleanup` | targeted_reconciler.go:354 "Clean up orphaned entries" | pods of clusters that are not connected do not count; after a restart the identity worker deletes the entries of running pods before any cluster is connected |
| `k8s_selectors` | README.md:97 "Performs minimal operations to achieve desired state" | `entriesEqual` keys selectors by type, so an entry with a second `k8s` selector, such as every documented example renders, differs from itself and is updated by every pass |
| `stale_client` | manager.go:84 "configuration changed, reconnecting" | the client cache is keyed by object name, and the reconnect gets the old client |

Smaller ones, which the model contains and no run of its own shows:
`getMatchingPods` does not look at the namespaces to ignore (README.md:287), so
the resource controllers register pods there, passes delete the entries, and
their status writes wake the controllers again; the default case
of `Trigger` says "already pending" (reconciler.go:64) during a pass and before
`Run`, when nothing is, so that the first pass waits for the ticker; and a pass
can create the entry of a terminating object after the controller has listed
SPIRE, against finalizer.go:8 "cleaned up before CRD deletion" (a later pass
removes it: `EntriesConverge`).

### Bounds

`MaxChanges` bounds the changes of users and kubelets, `MaxFaults` failed calls
and restarts, `MaxOutages` outages of clusters, `MaxQueue` the pending
notifications of a listener, `MaxTriggers` the calls of `Trigger` (one, as in the
code), `MaxStarts` the starts of processes, `BatchSize` is the delete batch (200
in the code, 1 here so that a deletion takes several batches).

One pod, one identity and one cluster are enough for `core` because the entries
of different pods interact only through `GetChanges`, and the races are between
the pass and one handler about one pod; three changes let a pod start, be
relabelled and end while a pass runs, or the identity and the registration
change around it; two pending notifications allow a stale one in front of a
fresh one. Two pods and two identities are in `selection`, where what matters is
who is selected. Two listeners are in `liveness`, where an old job runs beside
a new connection. `Init` has every combination of resources and pods: the
process may start beside anything.

`resources` has four writers (pass, handler, two workers) about one pod, one
change and one failure or restart; with all starting points in `Init` this
includes a registration being disabled under a pass and a pod ending under a
worker. `manager` has one cluster, since the lock is one for all and the two
callers already contend for it, and two informers, so that an old one and a new
one exist at once; one change, one AWS failure and one outage fall anywhere.
`deletion` has two identities and one cluster. One identity is being deleted when
the process starts and the other objects are live; two changes delete these as
well, create the first anew, or conflict with a worker, and one failure, refused
delete, restart or overtaking status write falls anywhere. `MaxFaults` bounds the
status writes that overtake a Reconcile call because nothing in the code rules out
that every pass does so: each such write costs the worker its `Update`, and a pass
that did it again at every retry would keep the object for ever. The bound is an
assumption about time: a Reconcile call is a handful of remote calls and is retried
within milliseconds, while passes are an interval apart. In `certs` a lifetime is six
units and rotation is due at three, so that two failures in a row, the bound,
still leave an attempt; the ASSUME of `WebhookCerts` says that failures do not
last for half a lifetime, twelve hours.

`CHECK_DEADLOCK FALSE` is set because these systems may rest: a stopped loop is
final, and a bounded environment runs out of steps.

### Fairness

* `Registrar`: weak fairness of the full pass (the ticker keeps firing and a pass
  is one goroutine whose calls return), of taking the next notification of each
  connection, and of each handler goroutine. Nothing is assumed of users,
  kubelets, resyncs, or failures, which are bounded.
* `ResourceControllers`: the same, and weak fairness of the two workers.
* `ClusterManager`: weak fairness of the loop, whose ticker keeps firing, and of
  informers; strong fairness of the pass, the controller and `Shutdown`, which
  wait for a `sync.RWMutex`, and Go's serves a waiting writer in the end. Outages
  end (`WF` of `Recover`): this is an assumption about the world, without which
  `AddOrUpdateCluster` may hold the lock for ever and none of the liveness
  properties of `manager` holds. Handlers need no fairness.
* `Deletion`: weak fairness of each controller's worker (controller-runtime
  requeues on error) and of the full pass; strong fairness of starting the
  Reconcile call of each object, since a work queue is first in, first out. With
  weak fairness alone a terminating object starves behind the others, which every
  pass puts back into the queue.
* `WebhookCerts`: weak fairness of each running process, its ticker and file
  watcher included, and of time. Processes need not start or stop.

## 4. Proofs

All theorems hold for every value of the constants: any number of pods, clusters,
identities, connections, failures and changes.

### Registrar

Assumptions: `FleetAssumption` (pods have a cluster, specs are well-formed, `Nil`
is no spec, listener, registration or connection, the set of pods is finite) and
`ForeignAssumption` (entries of others do not carry our prefix). TLC evaluates
both on the runs' constants.

* `TypeCorrect` (`RegistrarProofs`): `Spec => []TypeOK`. `TypeOK` is inductive.
  It says more than the shape of the state: every entry in SPIRE is somebody
  else's or a rendering, everything to be deleted is a rendering, and whatever a
  handler or pass holds on its way to SPIRE is one.
* `ForeignSafe` (`RegistrarProofs`): `Spec => []ForeignUntouched`. Every step
  makes at most one write (`OneWrite`), a create only adds, and an update or
  delete names the ID of a rendering, which carries the prefix
  (`RenderedManaged`), whereas no foreign entry does.
* `StartedSafe` (`LedgerProofs`): `Spec => []OnlyForStartedPods`. The property
  is not inductive: an entry comes to SPIRE from a handler's rendered entry or a
  pass's `toCreate` and `toUpdate`, and these from a job, a notification or
  `declared`. `StartedInv` states the same of each of these. The set of pods that
  have run only grows (`StartedGrows`, phases move forward), and every part of
  `StartedInv` is monotone in that set (`Monotone`), so the environment's steps
  keep it; each other step moves an entry from one place to the next.
* `LedgerImplemented` (`LedgerProofs`): `Spec => ImplementsLedger`, the step
  refinement. A request that changes SPIRE is one `Grant`, `Amend` or `Revoke`
  (`OneRequest`): a grant is for a started pod by `StartedInv`, an amendment keeps
  the workload because renderings with the same ID agree on what the ID is hashed
  from, and it touches a single line because no two entries in SPIRE share an ID
  (`UniqueIDs`, invariant on its own, since a create is refused when the ID
  exists).
* `WantedKept` (`WantedProofs`): `OwnUIDOnly` implies `Spec => PassKeepsWanted`.
  The invariant `PassInv` says, of a pass that no relabelling, configuration
  change or failed call has disturbed, that what it listed still stands
  (`PassView`), that everything it found in SPIRE, and that is wanted now, is
  declared or has its pair of cluster and identity still to be visited
  (`NothingMissed`), and that it deletes only what it found and did not declare
  (`DiffInv`). The step that matters is a pod starting to run behind the pass: it
  makes an entry wanted that the pass may never visit. But every entry the pass
  holds belongs to a pod that had run when SPIRE was listed, and a pod starts
  once. That is why SPIRE has to be listed before the stores.
* `LossHeals` (`WantedProofs`): `OwnUIDOnly` implies `Spec => HandlerLossHeals`.
  The invariant `LagInv` relates a pod to the queue and the job of its goroutine:
  whatever that does, or will do, because the pod was not running is followed by a
  notification that the pod runs, if it does. It also needs that connections do
  not share a goroutine and that a handler removes only entries of its pod. Resync,
  reconnect and restart only put up-to-date notifications behind the others or
  drop the queue with the connection.
* `PassLeavesConverged` (`ConvergeProofs`): `OwnUIDOnly` and `SelectorsGiven`
  imply `Spec => []PassConverges`. The invariant `QuietInv` says of a pass that
  nothing has disturbed what handlers and pass know (`Knowing`). `HandlersQuiet`:
  the connections are those of the enabled registrations, and every queued
  notification and every job is up to date, so that handlers write only entries
  that are asked for and remove only entries of pods that do not run. Their writes
  therefore only improve SPIRE (`Improves`): good entries come, and an entry whose
  ID is asked for is never lost. `Declaring`, `Listed`, `Applying`: what is declared
  is asked for, and what is wanted is declared or still to be visited; whatever is
  wrong in SPIRE, now, was in the earlier list, and later is in `toDelete` or
  `toUpdate`; whatever is missing is in `toCreate`. Both halves survive an
  improvement, so when the three sets are empty nothing is wrong or missing. Two
  identities that render the same ID are allowed: the entry of either counts.

The last three rest on hypotheses about what users write into the specs, which
the program neither checks nor needs for anything else; each is stated in the
theorem and satisfied by the constants of the `core` run, whose entries carry a
second selector. `OwnUIDOnly`: no identity adds the `pod-uid` selector of a pod;
otherwise one entry may stand for two pods, and the one that has run brings in an
entry of the one that has not. `SelectorsGiven`: every identity has a `podSelector`;
the run `nil_selector` shows handlers and passes undoing each other's work without.

### Resource controllers

The workers write from what they read earlier, from stopped connections too, and
delete by the hint of an entry without looking at its ID. `HintsApart`, the
hypothesis of both theorems, says that no entry of another registrar has a hint
that reads like one of ours; it holds for the foreign entries of `core`. Without it
a clean-up may delete such an entry, and both statements fail.

* `ControllersLedger` (`ResourceProofs`): `ControllersSpec => ImplementsLedger`. The
  inductive invariant `ControllersInv` adds to `StartedInv` and `UniqueIDs` what they
  say of jobs and passes for the two new places an entry can come from: `TasksFor`
  (a worker writes renderings for pods that have run and deletes renderings) and
  `HeldFor` (the store of a stopped connection has running pods that have run). The
  steps of `Registrar` keep these because they are monotone in the pods that have
  run (`BesideTheControllers`); the new steps make at most one `Request`
  (`ControllerWorks`, `ProcessHeldFor`), and every request is a line of the ledger
  (`RequestLedger`).
* `ControllersSafe` (`ResourceProofs`): `ControllersSpec => [](OnlyForStartedPods /\
  ForeignUntouched)`, from the same invariant.

### The other components

* `InformersSafe`, `WaitSafe` (`ClusterManagerProofs`): `Spec =>
  []NoLeakedInformer` and `Spec => []WaitHasInformer`, from `ManagerAssumption`
  (finitely many clusters, more informers than clusters, `Nil` outside the record
  types). The two and the types are inductive together (`ManagerInv`): a new
  informer is one that does not run, which exists by counting (`SomeInformerFree`),
  so connections never share one and stopping one leaves the others running; the
  waiting caller's connection is safe because every other section needs the lock.
* `FinalizerSafe` (`DeletionProofs`): `Spec => []LiveHasFinalizer`, from
  `DeletionAssumption`. With the types it is inductive as it stands: only `Default`
  matters.
* `CleanedUpFirst` (`DeletionProofs`): `Spec => GoneOnlyCleanedUp`, from the same
  assumption. `WorkersUpToDate` says that a worker whose object has no new version
  since it was read works on a terminating object with its finalizer, and that
  whatever is owed for it is still among the entries it has to delete; it holds
  because a list that includes everything that matches includes what is owed
  (`OwedMatch`), and because every write by others makes the worker `stale`, so that
  its `Update` is refused.
* `CertsSafe` (`WebhookCertsProofs`): `Spec => []NeverExpired`, from
  `CertsAssumption`, of which the essential part is that failures do not outlast
  half a lifetime (`MaxFaults < HalfLife`). `RotationInv` relates, for each
  process, the files on disk, the certificate presented and the recorded expiry,
  and counts: the life left of the presented certificate is more than the failures
  that can still happen before a rotation succeeds.

### Only model-checked

* `SharedReconciler`, whose properties are about what eventually happens.
* All liveness properties: `EventuallyConverged`, `Settles`,
  `ConnectionsFollowRegistry`, `EveryTriggerServed`, `ShutdownCompletes`,
  `DeletionCompletes`, `EntriesConverge`, `BundleFollows`. Liveness under fairness
  is outside the reach of these provers.

## 5. Not modelled

* The figures and conditions `updateStatuses` writes: nothing reads them, and
  `EntriesRegistered` is by its own comment a simplified count (of changes).
* Steps taken together: `ListCurrent` is the list of SPIRE and the second
  `GetAllConnections` of a pass (main_reconciler.go:116 and 137), between which the
  pass calls nobody; `ListEntries` is one list although the client reads it page by
  page (client.go:139-169), and what the server shows of writes between two pages
  is its own affair; a notification that the goroutine of a stopped connection has
  taken but that still waits for the lock (manager.go:260) is dropped with the queue.
  When the cluster is reconnected the code handles it, with the new connection; the
  late writes of such a goroutine are in the model as those of a job it had begun.
* The second way out of `main`, `os.Exit` after the manager has failed
  (cmd/main.go:263-266): the process is gone without `Shutdown`, which for what it
  leaves in SPIRE is `Restart`.
* Failing lists of the pass in `Deletion` (they end the pass with no effect, as in
  `MainReconciler`), and entries of others in the `resources` run, which
  `ControllersLedger` and `ControllersSafe` cover.
* Deletion and the resource controllers in one model: `Deletion` has its own
  reduced pass, and `ResourceControllers` deletes objects at once.
* Expiry of the webhook CA, which is never renewed; leader election, which the
  certificate manager does not wait for.
* Kubeconfigs, configuration loading, generated code; batch create, batch update
  and `GenerateKubeConfig`, which have no caller, and `byobject.go` likewise.
* The SPIRE server beyond its create/update/delete semantics; the gap between a
  workload cluster's API server and the informer; two registrars with one
  prefix, and two identities that render the same entry.

## 6. Plan

1. Done: all components that change state; theorems for every safety property
   that a passing run checks.
2. Left: the controllers of `Deletion` and `ResourceControllers` in one model, and a
   statement of what two identities that render the same entry should converge to.
