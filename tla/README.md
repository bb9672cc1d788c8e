# Drift-detection-manager in TLA+

This directory holds a TLA+ model of the drift-detection-manager, the TLC
configurations that check it on small instances and the TLAPS proofs of its
safety properties for every instance. All definitions are translated from the Go
sources; `PROJECT.json` maps each of them to its lines.

## The system

The drift-detection-manager runs in (or next to) a managed cluster. Sveltos'
addon-controller creates `ResourceSummary` objects that list what it deployed:
plain resources, Kustomize resources, Helm resources. The manager takes a
baseline hash of each of them, watches them, and, when an object no longer has
its baseline hash, sets a flag in the status of every ResourceSummary that
lists it. The flag makes Sveltos deploy again.

| Component | State | Operations | Hard because |
|---|---|---|---|
| Registry (`pkg/drift-detection/manager.go`) | who asked for a resource (three maps, by type), baseline per resource, resources per GVK, watchers | RegisterResource, UnRegisterResource | one watcher is shared by a GVK; a call can fail halfway; the baseline doubles as "already registered" |
| Watchers (`watcher.go`) | one informer per GVK | startWatcher, stopWatcher, react, event handlers | events come late, merged, or as Adds; react runs after its watcher was stopped |
| Evaluator (`drift_evaluation.go`) | job queue, the resource under evaluation | evaluateConfigurationDrift, evaluateResource, requestReconciliations | reads under the lock, calls the API server without it, writes under it again; optimistic concurrency on ResourceSummaries; retries |
| Rebuild at start (`manager.go`) | none of its own | readResourceSummaries, processResourceHashes | state comes from what a crashed process managed to save; informers already run |
| Reconciler (`controllers/resourcesummary_controller.go`, `pkg/scope`) | maps of what each ResourceSummary registered, pending status | Reconcile, registerResources, unregisterResources, cleanMaps, Close | 15 workers, errors halfway, its status patch races the evaluator's update |
| Lifecycle (`main.go`, `manager.go`) | the manager instance, its lock, one context per iteration of main's loop | initializeManager, restartIfNeeded, GetManager, Reset, the version marker | several generations of goroutines in one process, few of which look at their context |

They interact as follows. The reconciler calls the registry and saves the
hashes it returns in ResourceSummary status (`Close`). The registry starts
informers; informers call `react`, which puts resources into the job queue. The
evaluator empties the queue every five seconds, compares hashes, stores the new
baseline, and updates ResourceSummaries in the API server. A new process
rebuilds the registry from those statuses. `m.mu` guards the registry and the
queue, optimistic concurrency the ResourceSummary updates of the evaluator, and
nothing the patches of the reconciler.

What makes the components correct:

- registry: a watcher runs exactly for the GVKs with something to watch, and
  what is watched is claimed and has a baseline;
- watchers and evaluator: a change of a watched resource is never forgotten,
  is evaluated in the end, and nothing else is reported;
- reporting: a detected drift reaches every ResourceSummary that lists the
  resource, under the right type, also when updates fail;
- rebuild: after a restart the registry is what it was, and changes made
  meanwhile are found;
- reconciler: what a ResourceSummary lists, and only that, is registered, and a
  ResourceSummary that goes leaves nothing behind;
- lifecycle: the present generation has the manager, the others end, and a
  working manager comes back after an expired token, a failure or an exit.

`PROJECT.json` lists the components, and under "hazards" the places where this
can go wrong in ways a test would hardly reach.

## Modules

`DriftTypes` - the values: references, contents, byte strings that hold a hash
(raw, mangled by JSON, printed in hexadecimal), ResourceSummaries.

`Manager` - registry and informers. One action per method that holds `m.mu`
from start to end. `requestors[t][r]` is the set in `m.resources`,
`m.helmResources` or `m.kustomizeResources`; the empty set is a missing key,
since an empty set is always deleted. `Absent` is a missing map key elsewhere.
The outcome of `RegisterResource` is a parameter (`known`, `notFound`,
`failed`, `startFailed`, `watched`) whose guard says when it is possible.

The informer is external (client-go). `view[r]` is what its store says about an
object, `behind` holds the objects with events still to come. An informer that
lags delivers what it has missed of one object as one event; whether that is an
Add, an Update or a Delete depends on the store and on the cluster. A deletion
found by listing again, after the watch broke, comes as a tombstone
(`InformerTombstone`), which `react` cannot make a key of and drops; an object
that came and went meanwhile gives no event at all.

`DriftEvaluation` - the evaluator, as a `pc` and its local variables. Each lock
section and each API call is a step, but for `getPatches`: the Gets of the
ResourceSummaries it collects patches from are one step with the comparison,
since every set of patches counts as current. The slice of ResourceSummaries
that grows over the rounds is a set; a second visit in one round would only set
the same flag and hash again. A kind that is gone is an object that is gone, or
a failed call (`FetchFails`), as `errors.Is` decides; at registration and
rebuild it is a failed call. `current` says whether the ResourceSummary
it holds was written since, which is what the API server checks. A pass over an
empty queue changes nothing and is a stuttering step. The order in which a
round visits ResourceSummaries is the iteration order of a Go map, hence a set.

`DriftDetection` - the composition. It adds the rebuild at start and the
environment:

- the reconciler, as a client that makes one RegisterResource or
  UnRegisterResource call per step, of any claim in `Claims`. What it registers
  is in `registering` until the reconciliation closes; an error abandons the
  claims of that type (`Abandon`), which stay in the manager. The reconciler's
  map entry of a ResourceSummary is read by the reconciliations of that
  ResourceSummary only, which controller-runtime never runs concurrently, so
  the model writes it in `Close`, with the status. Within a type, what is
  unregistered comes after what is registered (`Unregistering`); which
  resources a reconciliation registers, and in which order, is left open.
  `Close` replaces whole hash lists; entries the reconciliation did not set are
  taken from the API server, where the code takes them from its cached copy;
- Sveltos, which clears flags, deletes and creates ResourceSummaries;
- the cluster: `ChangeObject` changes what the hash covers, `TouchObject` what
  it does not;
- crashes of the process, at any step.

`blind` and `owed` are history variables. `owed` holds pairs of a resource and a
ResourceSummary: a drift stored as the new baseline of which that
ResourceSummary, which referenced the resource then, has not been told. `blind`
holds the resources whose present state the manager may never be told about: no
fetch lies ahead, and the last change was an Add to the informer (it happened
before the first List, or the object came back) or a tombstone, or its
notification was dropped by `react`, or the resource was unregistered while the
evaluator held an older fetch of it. These are real gaps of the code
(`kustomize_dropped` and `unwatched_race` exhibit two of them). The invariants
below say that these are the only ones.

`DriftSpec` - the abstract specification. A watched resource is known by a hash
of what the cluster holds, or `Due` to be looked at, or `Missed`. A change never
leaves a resource known by an old hash, and a hash is only taken by looking at a
resource that is due, or by starting to watch it. There are no informers, queue,
passes or reports. `DriftDetection` ends with the refinement mapping: a resource
that no GVK entry lists is `Off`, a pending one `Due`, a blind spot `Missed`,
any other is known by its baseline (`KnownAs`).

`Reconciler` - Reconcile as a process over the same registry (`EXTENDS
Manager`). One worker per ResourceSummary at a time, as the work queue
guarantees, at most `MaxConcurrentReconciles` at once, and `Mux` between them. A
worker reads a copy from the cache, which lags behind the API server, and goes
through the types in the order of `updateMapsAndResourceSummaryStatus`:
register, take the difference with the map, unregister, set status and map. An
error at any point, a manager that is not ready, or a failed discovery call
leads to `Close` and a retry. `Close` sends what differs between the copy and
what was read, metadata and status apart, and either may fail. The Spec lists
each resource per type as tracked or ignored; a Helm resource without a
namespace is a reference of its own that `getChartResource` maps to the
qualified one. `abandoned` (history) holds the registrations that a failed
reconciliation left out of the maps, `unguarded` the ResourceSummaries that were
deleted before they had a finalizer. The informers are left out: they write
nothing the reconciler reads. The evaluator is in it as the other writer of
baselines: `evaluating` is a drift it has found, the empty hash of a missing
object included, and will store whatever happened since; any resource with a
baseline may be evaluated at any time, and nothing is assumed to make it so.

`Lifecycle` - the process. Each iteration of main's loop is a generation with
its context, its `restartIfNeeded`, its `initializeManager`, and, once the
rebuild succeeded, an evaluator and the goroutine that stores the version. They
share `managerInstance` and `getManagerLock`. Tokens expire, a signal cancels
all contexts, calls fail, `os.Exit` ends everything and the kubelet starts the
container again. What the manager does inside is `DriftDetection`'s.

`DriftDetection` has the reconciler in fewer steps and without Spec, finalizer
and cache, and one generation of the process; the two modules above have them
in full, `Reconciler` with little and `Lifecycle` with nothing of the evaluator.
What they share, the registry, is the same
module.

`MCDriftDetection`, `MCReconciler` - constants for TLC. `Lifecycle` needs none.

`ManagerProofs` - lemmas about the registry's operations, shared by the proofs
of the two modules that extend `Manager`. `DriftDetectionProofs`,
`RefinementProofs`, `ReportProofs`, `ReconcilerProofs`, `LifecycleProofs` - the
theorems. `RefinementProofs` and `ReportProofs` build on `DriftDetectionProofs`.

## What is checked

Passing runs:

| Run | Instance | Shows |
|---|---|---|
| `registry` | 2 resources of one GVK, 1 change | types; `WatcherIsNeeded`, `WatchedIsTracked`, `HeldUntilReleased` while two resources share a watcher |
| `evaluation` | 1 resource claimed by 2 ResourceSummaries under 2 types, 1 change, 1 write by Sveltos | `QuietIsCurrent`, `QuietWithoutDrift`, `HeldUntilReleased`, `ReportIsComplete`: nothing is forgotten, nothing is reported without a change, a report reaches everybody |
| `faults` | 1 resource, 2 contents, a ResourceSummary with a patch, 2 changes, 1 failed call | `ImplementsDriftSpec`: every step is one of `DriftSpec`; `WatcherIsNeeded` with any API call failing |
| `liveness` | 1 resource, 2 contents, 1 change, 1 failed call, 1 crash | `DriftIsEvaluated` under `FairSpec`; `QuietIsCurrent` for a change made around the restart, and the whole inductive invariant `IndInv` |
| `reconciler` | 1 ResourceSummary with 2 possible Specs over a resource and its name without namespace, 1 edit or deletion by Sveltos, 2 changes, 1 failed call | `WorkerShape`, `RegisteredIsMapped`, `ReconciledIsListed`, `RemovedIsForgotten`; `ListedIsTracked` under `FairSpec`, with the evaluator storing what it finds in between |
| `lifecycle` | 3 generations per process, 1 expired token, 1 signal, 1 failed call | `InstanceIsCurrent`, and `CancelledEnds` and `Recovers` under fairness |

The properties:

- `QuietIsCurrent`: when nothing is pending for a watched resource, its
  baseline is the hash of what the cluster holds, outside the blind spots. This
  is the statement that no interleaving of reactions, queue swaps, failed
  evaluations, registrations and restarts loses a change.
- `WatcherIsNeeded`, `WatchedIsTracked`: the four maps of the registry agree.
- `HeldUntilReleased`: a resource that is watched and has a baseline keeps both
  while anybody asks for it, under any type. It is the other half of the two
  above, which a watcher stopped or a resource dropped too early would satisfy.
- `QuietWithoutDrift`: no flag is set while no object has changed (for one
  process and ResourceSummaries without patches; the runs below show what
  happens otherwise).
- `DriftIsEvaluated`: a changed, watched resource does not stay so.
- `ReportIsComplete`: `requestReconciliations` returns without an error only
  when everybody who referenced the resource as its new baseline was stored has
  been told, is gone or has unregistered it. The three types are read in three
  lock sections, with API calls in between.
- `ImplementsDriftSpec`: the refinement above, as a step-by-step property.
- `RegisteredIsMapped`: the reconciler's maps, the only record of what it has to
  unregister, miss nothing but what a failed reconciliation abandoned.
- `ReconciledIsListed`: after a reconciliation that succeeded, registry and Spec
  agree, over earlier Specs, failures and stale copies.
- `RemovedIsForgotten`: a ResourceSummary held by the finalizer leaves nothing in
  the registry when it goes.
- `WorkerShape`: a worker holds `Mux` and its copy exactly where it should.
- `ListedIsTracked`: what a Spec lists and the cluster has is registered and has
  an entry in `resourceHashes` in the end, though it may have been missing, or
  the manager not ready, when the ResourceSummary was reconciled first. The entry
  may be the empty hash the evaluator stored while the object was missing: the
  code does not replace it when the object is back (`recreated`), and with an
  entry `RegisterResource` returns early. The rebuild, which `Reconciler` does
  not have, only adds registrations and entries, so it cannot make this false.
- `InstanceIsCurrent`: no goroutine of an earlier generation gets hold of
  `managerInstance`, though `InitializeManager` looks at it without the lock and
  its retry does not look at the context.
- `CancelledEnds`: evaluator, informers and `initializeManager` of a cancelled
  generation end. The informers of a manager whose rebuild failed end only then;
  the goroutine that waits to store the version may wait for ever, if the
  context was cancelled before the first pass ended.
- `Recovers`: in the end a manager with a valid token works and has stored the
  version.

Runs that show a statement of the repository violated by the code (the
findings in `PROJECT.json` quote it):

| Run | Property | What happens |
|---|---|---|
| `kustomize_dropped` | `NotificationIsQueued` | `react` does not look into `kustomizeResources` |
| `report_lost` | `ReportIsRetried` | the baseline is stored first, so the retry of a failed report finds no drift |
| `unwatched_race` | `RegisteredIsWatched` | the evaluator stores a baseline of an unregistered resource; registering again starts no watcher |
| `restart_false_drift` | `RestartWithoutDrift` | a resource that is there and was never changed is reported after a restart: its baseline is now the hexadecimal text of the hash |
| `recreated` | `AddNeedsNothing` | a deleted object gets the empty baseline; created again, it is an Add, which nobody looks at, and the manager goes on taking it for missing |
| `orphaned` | `NothingOrphaned` | the finalizer is saved by `Close` only, so a ResourceSummary deleted during its first reconciliation goes at once |

`RegisteredIsWatched` has two more causes: with `MaxFaults = 1` a watcher that
failed to start leaves the baseline and an empty GVK entry behind, and with
`MaxRestarts = 1` a resource missing at start gets a baseline without a
watcher.

Three more gaps are in the model and excused by the properties. With a second
ResourceSummary that has patches, `QuietWithoutDrift` does not hold, since the
registration hashes with the patches of one ResourceSummary and the evaluator
with those of all. A ResourceSummary of an earlier round of
`requestReconciliations` is marked under the later types too. And the rebuild
registers what was saved as Resource under Helm, and the other way round
(`ReadAs`).

### Bounds

`MaxChanges`, `MaxWrites`, `MaxFaults` and `MaxRestarts` bound the
environment, `Claims` what the reconciler registers. Touches, registrations,
unregistrations, evaluations and reports are not bounded. One change is enough
for an update, a deletion or a creation to meet every state of the evaluator;
`faults` has two, a deletion and the creation after it.
With one content (`registry`) the change is a deletion or a
creation; the other runs have two, and updates. Two
resources are the least that share a watcher; two types or two ResourceSummaries
the least that share a resource. The invariants are proved without these
bounds; what rests on them are the liveness properties, only model-checked.
TLC's `Digest` tells all contents and sets of patches apart, as a hash without
collisions does; the proofs take any function.

No run rebuilds the registry from more than one saved hash: what the order of
the entries could do is left to the proofs, which have any number of them.

In `reconciler`, `MaxEdits` bounds the changes of the Spec and the deletions;
Sveltos may always create a ResourceSummary that is gone, with either Spec. One
edit moves a resource between types, ignores it under the first and drops a
chart, or deletes the ResourceSummary, which is then created again. An edit
followed by a deletion is only in the proofs: with `MaxEdits = 2` TLC takes too
long over the liveness property. Two changes let the object be missing when the
ResourceSummary is reconciled, or be deleted, evaluated and created again. Of a second
ResourceSummary the workers share `Mux`, which serialises them, and the
registry, whose sharing the other runs check. In `lifecycle` three generations
are the first one, the one after the expired token and the one after the signal,
which ends at once; an exit starts counting anew.

Deadlock is checked in all runs: touches, registrations, resyncs and restarts
keep the system going, and a state from which it could not go on would be an
error.

### Fairness

`FairSpec` asks for weak fairness of each informer's List and delivery, of
`react`, of the evaluator and of the start-up. Informers run in goroutines of
their own that retry for ever; `react` waits for a Go mutex, which is not
starved; the evaluator's loop has no exit but the cancelled context; `main`
retries InitializeManager until it succeeds (`initializeManager`). Nothing is
assumed about the reconciler, Sveltos or the cluster. Failed calls are bounded
by `MaxFaults`: a call that fails for ever is no drift that is evaluated.

In `Reconciler` a worker goes on, a queued ResourceSummary gets a worker, the
cache catches up and is resynced (`SyncPeriod`), and `main` retries
`InitializeManager`; waiting for `Mux` is strongly fair, because a Go mutex hands
itself to a waiter in the end though others take it in between. Nothing makes
the evaluator act there. In `Lifecycle`
every goroutine goes on and sleeps end, `getManagerLock` is strongly fair for the
same reason, and the kubelet restarts the container. Nobody need send a signal,
and no token need expire.

## What is proved

Every safety property that a passing run checks is also a theorem, for every
value of the constants: any number of resources, GVKs, ResourceSummaries,
workers, faults and restarts.

| Theorem | States | Module |
|---|---|---|
| `TypeCorrect` | `Spec => []TypeOK` | `DriftDetectionProofs` |
| `WatchersAreNeeded`, `WatchedAreTracked` | `WatcherIsNeeded`, `WatchedIsTracked` | `DriftDetectionProofs` |
| `WatchersLastUntilReleased` | `Spec => HeldUntilReleased` | `DriftDetectionProofs` |
| `Invariance`, `NoChangeForgotten` | `IndInv`, `QuietIsCurrent` | `DriftDetectionProofs` |
| `ManagerImplementsDriftSpec` | `Spec => ImplementsDriftSpec` | `RefinementProofs` |
| `ReportsAreComplete` | `Spec => ReportIsComplete` | `ReportProofs` |
| `NoFalseDrift` | `NeutralPatches => (Spec => []QuietWithoutDrift)` | `ReportProofs` |
| `WorkersKeepShape`, `MapsCoverTheRegistry`, `SuccessRegistersTheSpec`, `FinalizerCleansUp` | `WorkerShape`, `RegisteredIsMapped`, `ReconciledIsListed`, `RemovedIsForgotten` | `ReconcilerProofs` |
| `InstanceStaysCurrent` | `InstanceIsCurrent` | `LifecycleProofs` |

The assumptions are the ones named in the modules: the constants have their
types, the sentinels (`Gone`, `Absent`, `NoBytes`) are not values, resources and
ResourceSummaries are finite sets (a List ends), the bounds are natural numbers.

### No change is forgotten

The argument goes in three layers. *Types* need the shape of the evaluator
(`EvaluatorShape`: a register is filled before it is used, the evaluator sleeps
while the registry is rebuilt) and that a ResourceSummary still `current`
exists (`HeldExists`). The *registry* layer, `WatcherIsNeeded` and
`WatchedIsTracked`, is inductive given the types: the delicate steps are the
last unregistration and the watcher that fails to start, which leaves an empty
GVK entry but no watcher. `HeldUntilReleased` is an action property and follows
from the types, one step at a time: only the end of a registration takes
anything away, of its own resource only, since a GVK entry that lists another
does not become empty. *Detection*: `QuietIsCurrent` is not inductive,
because it says nothing about a resource under evaluation, and the evaluator
overwrites the baseline from its registers. The strengthening has three parts:

- `ListedTogether`: an informer has listed all objects of its GVK or none, and
  has events to deliver only for listed objects, so that the change of an
  unlisted object is a blind spot and not a pending event;
- `BaselineIsCurrent`: the baseline is current unless work is pending. It
  speaks of every resource in a GVK entry, listed or not, since listing one
  must not uncover an old difference;
- `FetchedIsCurrent`: between fetch and store the evaluator's copies of the
  baseline and of the object are current, unless a notification or another
  fetch lies ahead. This is where an unregistration in between would break the
  invariant, which is why it counts as a blind spot.

`liveness` checks the conjunction `IndInv` with TLC, over a failed call and a
crash.

### The refinement

`ManagerImplementsDriftSpec` rests on `IndInv`, before and after the step. Apart
from a reset, which turns everything `Off`, a step changes how at most one
resource is known (`OneStep`): of the steps that touch a set of resources at
once, taking the queue and requeueing leave the resources `Due`, listing changes
no `KnownAs`, and stopping a watcher concerns resources no GVK entry lists. What
is left is one case per kind of change. The invariant is needed where a resource
stops being pending: that the hash it is then known by is one of the present
object is `BaselineIsCurrent` and `FetchedIsCurrent` in the new state
(`KnownMatches`). The hash an evaluation stores may be taken under any set of
patches, which is what `HashesOf` of `DriftSpec` allows.

### Reports

`ReportIsComplete` speaks of the last step of an evaluation only. The invariant
behind it, `ReportInv`, says where everybody still owed the drift is
(`OwedIsAhead`): being told, to be visited in this round, or asking under the
type of a round to come. It needs that who is owed a drift exists and still asks
under some type (`OwedIsAsked`), since a round skips a ResourceSummary that is
gone and sees only who asks when it starts, and that the rounds start from the
first (`FirstRound`). A registration between two rounds only adds to who asks; an
unregistration, also of another type, settles what was owed to that
ResourceSummary.

`NoFalseDrift` has a hypothesis, `NeutralPatches`: the patches of any
ResourceSummaries leave the hash of any content as it is, as having none does
(the instance of the run `evaluation`) and as patches of fields outside the hash
do. Without it the statement is false: the baseline is taken under the patches of
the ResourceSummary that registers, and compared under those of all that
reference the resource. `QuietInv` strengthens it while nothing was changed or
restarted: every baseline is the hash of the object, the evaluator holds such a
baseline and the object and never reaches `store`, and until the first start is
over no status holds a hash, so that nothing is read back. The last part is what
a restart breaks (`restart_false_drift`).

### The reconciler

`WorkerShape` is inductive. The other three are not, and follow from
`ReconcilerInv`, which states for each ResourceSummary

- `CopyFits`: a worker registers for a copy that is not being deleted and has
  the finalizer, and cleans up for one that is being deleted;
- `Progress`: for each type, how far the worker has got: what it has registered
  of the Spec, what is left to register, unregister or clean, and, once it is
  done with the type, that the map is what the Spec lists, or empty;
- `FinalizerHolds`: how the object in the API server, the one in the cache and
  the worker's copy relate. They may be of different ages, and even different
  objects of one name. An object that is being deleted keeps its finalizer until
  a worker has cleaned up, and no copy from before can register after that;
- `NothingBefore`: nothing is registered before there is a manager.

A step of one ResourceSummary's worker changes nothing this says of another
(`WorkIsLocal`), so it is shown for the one that moves; the environment's steps
are shown to keep what they leave alone (`FrameKeeps`), and the evaluator writes
only baselines, of which the invariant has no more than the type. `SummariesAssumption`
says that `Gone` is not a ResourceSummary.

### The lifecycle

`LifecycleProofs` proves `InstanceStaysCurrent`, `Spec => []InstanceIsCurrent`
for any number of generations, expired tokens, signals and failed calls, from
`LifecycleAssumption`. `InstanceIsCurrent` is not inductive: it does not say that
no goroutine of an earlier generation can still take the lock. The strengthening
`LifecycleInv` adds `EarlierAreDone` (`initializeManager` of an earlier generation
is done, that of a later one has not begun), `LockIsHeld` (who holds the lock is
the present generation, is rebuilding and has set the instance) and
`DoneHasInstance` (what is done has the instance until `Reset`). The delicate
step is `GetManager`: since it waits for the lock, the instance it finds belongs
to a rebuild that is done, so main goes on only with nothing left to initialize,
and exits the process otherwise.

### Only model-checked

The liveness properties `DriftIsEvaluated`, `ListedIsTracked`, `CancelledEnds` and
`Recovers`: liveness under fairness is out of the prover's reach. `ReportInv` and
`QuietInv`, like the other inductive invariants, were checked with TLC before they
were proved; they are part of the proofs and not of a run.

## What is not modelled, and the plan

The data races of `processResourceHashes` and of `rsList.Items()` with `m.mu` not
held are modelled as if the accesses were atomic; what Go does otherwise is to
crash, which the model has. In `DriftDetection` a ResourceSummary whose deletion
timestamp is set is not told apart, informers started by a rebuild that failed
are taken as stopped (`Lifecycle` has them go on), and `PatchesOf` does not
change. `Reconciler` has one process: after a restart the reconciler's maps are
empty while the registry is rebuilt, under swapped types, and nothing unregisters
what was removed from a Spec meanwhile. `unstructuredHash` is a digest of content
and patches; which fields it renders is not modelled. Flags, health checks,
manifests, build tooling and test support are out of scope; the run mode
`do-not-send-updates` ends in a field nothing reads.

Next, in this order:

1. `ResourceHash`: which fields unstructuredHash covers, against a reference
   definition, with patches that change and their order.
2. A restart in `Reconciler`, with the invariants proved for it.
