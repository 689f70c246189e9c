# Verification of Prometheus Federator

TLA+ modules of the protocols in this repository, the TLC runs that check them on
small instances, and TLAPS proofs of what matters most for every instance.
`PROJECT.json` lists components, runs, findings, hazards and theorems, and
maps each definition to the lines of `src/` it stands for.

## The system

Prometheus Federator is one binary made of two operators that talk to each other
only through the API server (`internal/helm-project-operator/controllers/controllers.go`).

**Helm Project Operator** (`internal/helm-project-operator`) turns Rancher projects
into Helm releases.

| component | state | operations | interacts with |
|---|---|---|---|
| namespace controller | trackers of system and registration namespaces, the initialization list, an index of namespaces by project | namespace handler, apply of a registration namespace, deletion, start-up with `Compare` | enqueues the applyinator and ProjectHelmCharts; answers `IsProjectRegistrationNamespace` and `GetTargetProjectNamespaces` |
| applyinator | a rate limited work queue | `Apply`, `Run`, workers | runs the namespace controller's apply function |
| project controller | ProjectHelmCharts and their status, indices by release name, by ClusterRole and by Role | `OnChange`, `OnRemove`, the generated apply, six resolvers, the removal of cleanup labels at start-up | creates HelmCharts, HelmReleases, release namespaces, RoleBindings |
| values merge | none | `getValues`, `MergeMaps` | project controller |
| hardened namespaces | none | `OnChange` | applies a service account and a network policy |

**Helm Locker** (`internal/helm-locker`) keeps the resources of a Helm release as
Helm wrote them.

| component | state | operations | interacts with |
|---|---|---|---|
| release controller | HelmReleases (annotation, finalizer, status) | `OnHelmRelease`, `OnHelmReleaseRemove`, the resolvers | calls `Set`, `Unlock`, `Delete` of the register |
| object set register | `stateByKey`, `keyByResourceKeyByGVK`, the channel `stateChanges` | `Set`, `Lock`, `Unlock`, `Delete`, `Enqueue`, `Resolve` | sends to the informer, starts GVK watchers |
| object set handler | none | `OnChange`, `OnRemove` | unlocks, applies, locks |
| GVK watcher | the GVKs watched | `Watch`, `Start` | `Resolve` and `Enqueue` on each change |

What makes them hard: the register is shared by the workers of the release
controller, of the object set controller and of every GVK controller; its states are
shared by pointer and written after they were published; handlers act on cached copies
of objects that other operators write; several ProjectHelmCharts can ask for one release
and each is processed by a worker of its own; objects are applied before the status that
the others look at is written; who is enqueued by a change is decided by resolvers that
do not see every change; calls of the API server fail halfway; namespaces are deleted
while work for them is queued. `PROJECT.json` ("hazards") names each of these at its line.

What should be true of each: the register follows its last writer, never resolves a
resource to the wrong release and never works with a state that is gone; a deployed
release is enforced in the end and an orphaned one is purged; a HelmRelease has one
manager; a key is applied by one worker at a time and no request is lost; the tracker of
registration namespaces agrees with the cluster; a Helm release has one ProjectHelmChart
and goes away with it; access to a release follows the bindings of its project; a value
of the chart comes from the last layer that speaks of it.

## The modules

| module | models |
|---|---|
| `Applier` | what the applyinator promises: per key requested or not, running or not |
| `Applyinator` | `applier/applyinator.go` on client-go's work queue: order, dirty, processing and delayed sets, workers, shutdown |
| `ObjectSetRegister` | `objectset/cache.go`, `handler.go`, `state.go`, `gvk/gvk.go` |
| `RegisterHistory` | EXTENDS `ObjectSetRegister` with a history variable, `missed`: what was changed without its release being told. It restricts no step |
| `HelmLocker` | EXTENDS `ObjectSetRegister` with `controllers/release/`: the client that calls the register, the HelmReleases, Helm and the users |
| `NamespaceController` | `controllers/namespace/` with a project label: start-up, the namespace handler, the apply function of the applyinator (which is taken as its specification, `A == INSTANCE Applier`), caches, users, Kubernetes |
| `ProjectController` | `controllers/project/`: which ProjectHelmChart deploys a release, with the generated handler that applies objects and writes the status, the remove handler, release namespaces, resolvers, restarts |
| `ReleaseContents` | `controllers/project/`: what a release that is deployed contains: the RoleBindings for its Roles and the values of its chart, with the indices and resolvers they come from; and that chart and RoleBindings go away with the last namespace of the project. What merging gives is a constant operator, `ValuesFor` |
| `ValuesMerge` | `merge.go`, `values.go` as functions, and a reference definition by layers |
| `ReleaseValues` | composes `ReleaseContents` with `ValuesMerge`: `ValuesFor` is `getValues` |
| `NatRecursion` | a lemma about functions that are defined by recursion on a number; instantiated for those of `ValuesMerge` |
| `ApplyinatorProofs`, `ObjectSetRegisterProofs`, `HelmLockerProofs`, `NamespaceControllerProofs`, `NamespaceSettledProofs`, `ProjectControllerProofs`, `ReleaseContentsProofs` | the theorems |
| `MC*` | instances |

### Applyinator

`order`, `dirty` and `processing` are the fields of client-go's queue, `delayed` the keys whose retry
timer runs. A worker takes a key (`Get`), runs the apply function, which succeeds or
fails (`ApplySucceeds`, `ApplyFails`), and calls `Done`. `Cancel` and `ShutDown` are the
end of the context. The work queue is a library and is modelled from its use
(external in the map).

### ObjectSetRegister

`stateByKey` holds pointers into `heap`, because `setState` stores the same pointer it
sends and `deleteState` writes through it. Steps end where the code releases a lock,
sends on the channel or calls the API server: `setState` is `EnqueueGet` (getState),
`EnqueueCopy` (DeepCopy) and `EnqueueSet` (the section under `stateMapLock`) when a
watcher runs it; `Set` gives both values, so nothing it read survives and one step is
enough. `deleteState` is five steps. `OnChange` is `HandlerBegin` (Unlock and
the check of Locked), `HandlerRead` (the object set is read), `HandlerApply`, and the
deferred Lock in two steps. The content of a resource is the object set that wrote it,
`Drifted` or `Nil`. The apply library is reduced to its effect: it writes the set,
labels it with the key, and deletes what carries the label, has one of the configured
GVKs and is not in the set.

`RegisterHistory` adds `missed[k]`, the resources that somebody changed while they were not
resolved to `k` (`OnChange` unlocks a release while it applies it) or while their kind was not watched,
until an apply of `k` restores them. With it `TrackedChangesAreReverted` can say what the
register promises of every other change.

### HelmLocker

`release` is the API server's object, `cached` the informer's copy, `ctrl[k]` the worker
with its own copy; `fresh` says whether a copy is still the current version, which is all
a conflict depends on. Helm marks the secret, writes resources, finishes; between
these steps everything else may happen. The remove handler (`remove/handler.go`) adds and removes the
finalizer in the same worker after `OnHelmRelease`.

### NamespaceController

`obj` and `config` are the API server: per namespace its phase and labels, per project
its ConfigMap as `Ours` or `Foreign`. `view` is what the process works from: the list
of `initProjectRegistrationNamespaces` in phase `init`, the cache in phase `up`; `fresh`
and `held` name the copies whose resourceVersion is still current. `todo` is what is left of
the list, `initList`, `tracker` and `queue` are the code's; `work[n]` is a handler between
its calls of the API server, `run[p]` the apply function of project `p` between its calls.

- *Start-up.* `Starts` lists the namespaces; they are handled one after the other (`MayHandle`),
  with `RetryOnConflict` (`Errs`) while the workers of the applyinator already run. Then
  `Compare` (`Matches`): `Serves`, or the process exits (`GivesUp` when nothing is
  left to wait for, `GivesUpEarly` as a fault).
- *OnMultiNamespaceChange.* `HandlesRegistration` and `Untracks` for what is tracked,
  `HandlesNothing` for system namespaces, and for the others `HandlesRegular`, or
  `StartsUpdate` followed by `SetsLabel`, `RemovesLabel` and then the second `Update`,
  which is refused because the first one made its copy outdated (`Conflicts`).
- *applyProjectRegistrationNamespace.* `ApplyBegins` reads the index, `ApplyRegistration`
  creates or patches the namespace (`Patched`: a patch writes what differs from the copy the
  apply library knows, and nothing else), `ApplyGets` reads it, `ApplyTracks` puts it into the
  tracker, then the ConfigMap is created, left, or deleted and created anew. Any call may
  fail or be refused; the applyinator tries again.

Simplifications: a cache that is behind catches up in one step; leader election is left
out (Register lists and writes before the leader is known, and its caches are empty
then); in the index, registration namespaces are excluded by the label they all carry. `charts` are
the projects whose ProjectHelmCharts were enqueued; who takes them is not part of this module.
`relabelled` is a history variable that `SettledIsRegistered` refers to: the registration namespaces
that users gave to the project of the system. Users do not
change the labels `helm.cattle.io/*` of a namespace.

### ProjectController

`phc` is the ProjectHelmCharts in the API server (phase, finalizer, cleanup label, status),
`helm[r]` the owner annotation of the HelmChart and HelmRelease of release `r` (the two are
applied together and have one name), `relns[r]` its dedicated namespace. `cache`, `helmView`
and `nsView` are the informers' copies, `fresh` and `held` the copies whose resourceVersion
is current, `work[p]` the worker on `p` between its calls.

- *A worker.* `Handles` is `OnChange` up to its return: it reads the caches and decides on a
  status (`Verdict`, in the order of the early returns of controller.go:221-345) and on the
  objects. `Applies` is the apply of the generated handler (`projecthelmchart.go:172`), which
  comes before `UpdatesStatus` (lines 113-127). `Removes` is the key of an object that is gone, for which
  the generated handler applies the empty set (`onRemove`). Then the remove handler:
  `AddsFinalizer`, or `OnRemove` and `RemovesFinalizer`. `ApplyFails`, `StatusRefused` and
  `RemoveFails` queue the key again.
- *Apply* (external). It writes what the cache does not show in the wanted form, takes over
  what another set owns, and deletes what the cache shows in its own set and is not wanted;
  namespaces are never deleted (`WithNoDelete`).
- *Resolvers.* `ObservesChart`, `ObservesHelm` (by the owner annotation; for a deleted copy the
  owner of its last version, `dropped`), `ObservesNamespace` (registered only when
  `ProjectReleaseLabelValue` is empty), `Installs` and `Uninstalls` (the dashboard ConfigMap
  resolves to all that have the release name).
- *The process.* `Starts` is Register and then the first delivery of all objects;
  `WithoutCleanupLabels` runs while `shouldManage` still reads empty caches, so it changes nothing.
  `Crashes` loses caches, queue and workers.

`Managed` and `Unparsable` are constants: a registration namespace that leaves the tracker is
the namespace controller's matter.

### ReleaseContents

One ProjectHelmChart. `subjects[b]` are those a RoleBinding or ClusterRoleBinding names,
`roles[r]` the default role a Role of the release namespace aggregates from, `granted[r]` the RoleBinding
generated for it, with the order of its subjects, `members` the namespaces of the project,
`spec` and `chart` the values before and after (`chart = NoValues`: there is no HelmChart). The
`...Seen` variables are the informers' copies and `news` what they have yet to deliver. `indexed` is the
index by ClusterRole, which is computed when an object is delivered and depends on the tracker of that
moment (`indexers.go:124`).

- *OnChange.* `Handles` reads the target namespaces, the values and the Roles. Without target
  namespaces it returns early (`controller.go:273-281`) with neither HelmChart nor RoleBindings, which
  the apply then deletes; with some, the dedicated release namespace (`ReleaseNamespaces`) is one more
  target (line 288). `ReadsBindings` and `ReadsClusterBindings` read the bindings, from two other caches and
  later (`registrationdata.go:27`, `51`). `Applies` writes. `Uninstalls` is Helm, which removes the Roles
  when the HelmChart is gone.
- *The namespace controller.* `Tracks` puts the registration namespace into the tracker;
  `EnqueuesProjectHelmCharts` comes later, or never if the process ends in between
  (`namespace/controller.go:331`, `351`). In between stand the calls for the ConfigMap.

Left out: the release namespace is assumed to be there (its absence, `controller.go:303-319`, is part of
`ProjectController`), and the HelmChart is deleted in one step.

`ValuesMerge` translates `MergeMaps` and `getMap` with the Go type of each map ("map", "yaml",
"mixed"). A map gives each of its `Fields` an entry or none, so `MapsTo[n]` are the maps that
are nested at most `n` deep, and `MergeTo[n]` merges two of them; both are functions that are
defined by recursion on `n`, and `Depth` bounds it. Of the selectors that `getProjectNamespaceSelector` can
return it has those of a project label, not `spec.projectNamespaceSelector` (`utils.go:29-37`). The reference knows nothing of merging: a leaf
of a layer survives unless a later layer says something at, above or below it (`Overlaid`).

## The runs

| run | shows | bounds |
|---|---|---|
| `applyinator` | `Stingy`, `QueuedOnce`, `NothingLost`, implements `Applier`, `RequestsAreServed` | 3 keys, 2 workers: a key can be queued, another running and the third delayed |
| `register_safety` | `NoNilDereference`, `InformerFollowsRegister`, `NoStealing`, `TrackedChangesAreReverted` | 2 symmetric keys that share the resource, channel of 1, 2 calls |
| `register_partial` | `DriftIsReverted`, `LockedSetsAreTracked`, `TrackedChangesAreReverted`, after a failure too | 2 resources of different kinds, 2 manifests, 1 call, 1 foreign write, 1 failure |
| `locker_claim` | `ClaimedOnce` | 1 create, claim or delete, 1 refused write |
| `locker_others` | `OthersAreLeftAlone` | 3 operations of Helm and users, 1 foreign write |
| `locker_upgrade` | `DeployedIsEnforced`, `OrphansArePurged` | 1 upgrade between 2 manifests or 1 deleted secret |
| `namespaces` | `LabelsAreCurrent`, `WorkIsExpected`, `ReadyKnowsProjects`, `SettledIsRegistered`, `ProjectsGetRegistered` | 2 projects, one of which cannot be registered, 1 namespace, 1 change by users, 1 fault (failed call, crash, early exit), 2 attempts on a conflict |
| `project` | `NoReleaseLeftBehind`, `AloneIsDeployed`, `DeletedIsRemoved` | 1 ProjectHelmChart with a dedicated namespace, 2 changes by users, 1 fault (failed call, refused write, crash) |
| `project_shared` | `OneDeploys`, `DeployedIsBacked` | 2 symmetric ProjectHelmCharts of 1 release, both of which may exist at the start, 1 deletion or label, no fault |
| `contents` | `SettledGrants`, `ValuesAreOverlaid`, `ContentsSettle` | 1 RoleBinding, 1 ClusterRoleBinding, 1 Role, 2 users, 1 service account, 2 namespaces, one of them in the project at first, and the release's own, 2 changes, 1 fault (failed apply, restart); `spec.values` that collide with the operator's in one way or the other, maps nested 4 deep |
| `locker_delete`, `project_orphan` | violations, see below | 1 deletion |

Why the bounds are enough: a channel of one already blocks, two calls make every pair of register operations
overlap, one foreign write can fall anywhere between two steps of a handler, and
one failure at every place where the API server is called. The heap has more
addresses than can be reachable; `CanAllocate` never disables a step in these runs
(a pointer is free when no map, channel or goroutine holds it). In `namespaces` a
change by users and a fault can fall between any two steps of a handler or an apply, and the one
namespace can leave or join a project, so that the project has its first or last namespace; the
second project makes a move between projects possible and, with its long name, the exit of
`Register`. In `project` two changes let a ProjectHelmChart be labelled and unlabelled, deleted
and created anew, or lose its namespace while it is deleted, at any step of its worker. Two
ProjectHelmCharts are the smallest conflict, and larger ones, failures and
crashes among several are what the proofs cover: `OneDeploys`, `DeployedIsBacked` and
`NoReleaseLeftBehind` are theorems, as are the four safety properties of `namespaces`, whose longest
interleavings need more changes than the run has. In `contents` two users make the order of subjects matter, and two
changes let the second fall between two reads of the worker that handles the first; at first both
bindings exist or none does and `spec.values` are the first of two (`MCInit`), the other states are one
change away. At first the project has one of two namespaces: when that one leaves, `OnChange` returns
early and everything goes away, whatever else has changed; the same one or the other may join and bring the
chart back, or join first, so that one leaves and one stays. The content of
the layers is cut to the paths the operator insists on, the ones `spec.values` can collide with, a YAML
map and one field ("other") for all that the operator does not set; for all others there is the
proof. In both runs of the register the specification is `HistSpec`, which has every behaviour of
`Spec`. The runs of
`NamespaceController`, `ProjectController` and `ReleaseContents` turn deadlock checking off, because
users need not act and the system may rest.

### Findings

- `locker_delete`: `Delete(key, false)` sets the object set to nil through the shared pointer
  while the handler is about to apply it; the handler applies the empty set and the
  resources are pruned.
- `project_orphan`: two ProjectHelmCharts have one release name. When the one that does not
  deploy is deleted, `OnRemove` labels the release namespace as orphaned and takes its owner
  annotation away. Nobody is enqueued for that, so the label, which says that the namespace is safe to
  delete, stays on the namespace of a running release.

Also in the models, as definitions that TLC refutes and for which no run is kept:

- `HelmLocker.SettledIsEnforced`: OnChange stops tracking before the apply and starts again
  after it (`handler.go:62`). A foreign write after the resource was applied and before `Lock`
  is resolved to no release; the resource stays changed until a resync, ten hours later.
  `TrackedChangesAreReverted` proves that such changes, and those made before the kind is watched,
  are the only ones that wait for it.
- `NamespaceController.RetriesSuffice`: a project whose registration namespace would have a name above 63
  characters is put on the list that `Compare` checks, but never tracked. Register fails at
  every start, for all projects, and neither more retries nor more workers help.
- `NamespaceController.OrphansAreMarked`: when the last namespace of a project moves to another
  project, nothing asks for an apply of the project it left. Its registration namespace is
  not marked as orphaned, not even by a resync.
- `ProjectController.NamespaceIsNoticed`: release namespaces are watched when they are not
  dedicated and not watched when they are (`resolvers.go:23`), so a ProjectHelmChart that could not find its
  namespace is not enqueued when it is there, although `controller.go:307` relies on it;
  a change of the HelmChart or a resync helps.
- `ProjectController.WaitingIsBacked`: a ProjectHelmChart can be left in
  WaitingForDashboardValues when nobody owns its release, until a resync.
- `ProjectController.NoTargetsIsTrue`: without a project label an error of List counts as no
  namespaces (`getter.go:104`), and the release is removed because of one failed call.
- `ProjectController.RedeploymentRemovesCleanup`: the cleanup labels stay over a redeployment,
  because `initRemoveCleanupLabels` asks `shouldManage` before the caches it reads are started.

And, with no definition that states it:

- a release that is not deployed is only unlocked; its registered state stays Locked, and a
  queued event applies the old manifest during the Helm operation, although
  `cmd/helm-locker/README.md:36` says that nothing is done then;
- after `helm uninstall --keep-history` the deletion of the HelmRelease returns early and leaves the
  registered state behind, although `controllers/release/controller.go:204` says that there is
  none;
- a HelmRelease deleted between `OnHelmRelease` and the write of its finalizer leaves its
  state in the register;
- a registration namespace that is deleted is tracked again while it is terminating, and its
  end is a nil object for the handler: only a namespace of the project that is handled
  again, at the latest by a resync, brings it back;
- what is expected of a registration namespace is the copy that was read back after the apply
  (`controllers/namespace/controller.go:325-340`; the comment at line 201 says "the
  projectRegistrationNamespace that we expect, not the one we found"). When a user gives it to the
  project of the system between the apply and the Get, that label is what is expected from then on,
  its events enqueue the namespaces of that project instead of its own, and after two more changes
  and a failed apply it stays marked as orphaned, with live namespaces in its project, until a resync.
  Hence the exception for `relabelled` in `SettledIsRegistered`: without it neither the proof goes
  through nor does the property hold (TLC finds 36 steps);
- a namespace that left its project makes the handler fail once, by its second `Update`;
  while the process starts, the retries use the same outdated copy and the process exits;
- the subjects of a generated RoleBinding come out of a Go map, so an apply with nothing to change
  rewrites it, which enqueues the ProjectHelmChart again, until the order happens to be the
  one that is stored.

## Fairness

Workers, informers and goroutines are scheduled (weak fairness of their steps). The
retry timer of the work queue fires. The resync periods (ten hours for object sets,
`cache.go:65`; the default of the controller factory for the other objects) end again and
again: they are timers that do not depend on the state, so where the model lets them end only
when the rest is quiet (`Quiet`, a bound) they are strongly fair. A Helm operation ends, with
success or not. Failures are bounded by `MaxFail` and `MaxFaults`, so a retry succeeds at
last. Users owe nothing.

In `NamespaceController` and `ProjectController` the pod is restarted when it ended
(`Starts`), each worker and each apply goes on, retries and caches deliver, the resync hands
out what is cached, Kubernetes removes a namespace that is being deleted and Helm installs
and uninstalls. The comparison of `Register` outlasts the workers except when a fault says
otherwise (`GivesUpEarly`); its retries are 10 times 5 seconds by default (`runtime.go:118-122`).
`ProjectsGetRegistered` needs all of these, the resync included, and says nothing while a
namespace stays in a project that cannot be registered: such a project keeps a restarted
process from serving the others. `AloneIsDeployed` needs the resync because of what
`NamespaceIsNoticed` shows, `ContentsSettle` because of namespaces and labels whose loss
resolves to nobody.

In `ReleaseContents`, `AppliesSameOrder` is strongly fair: Go iterates over a map in random
order, so no order of the subjects is avoided for ever. Without that the worker may rewrite the
RoleBinding again and again.

## What is proved

For every set of keys, workers, resources and manifests, and every bound:

- `ApplyinatorProofs`: `TypeCorrect`, `StingyAlways`, `QueuedOnceAlways`,
  `NothingLostAlways` and `ApplyinatorImplementsApplier`. The inductive invariant joins the
  type, the four properties and the link between a worker's pc and the processing
  set: a key is in `processing` exactly when one worker holds it.
- `ObjectSetRegisterProofs`: `TypeCorrect`, `NoNilDereferenceAlways`,
  `NoStealingAlways`, `InformerFollowsAlways`, `TrackedAlwaysReverted`. Type correctness is not
  inductive alone: a step through a pointer needs that it is not `Nil`, hence
  `IInv == TypeOK /\ NoNilDereference`. `InformerFollowsRegister` follows per key: a
  send makes the newest event carry the pointer that is stored in the same step
  (`SentFollows`), a send for another key changes nothing (`SentKeeps`), a delivery
  moves the oldest event to the store (`DeliveredFollows`). `TrackedChangesAreReverted` says something of
  releases that no worker is handling, and nothing like it holds while one is, so the inductive
  invariant `HistInv` follows `OnChange` through its steps: nothing is tracked for a key while it is
  handled (`UnlockedWhileApplied`); what the worker has read is what is enforced, and what it has
  applied has those contents or is missed, unless the key is to be handled once more
  (`AppliesEnforced`); what is tracked afterwards is exact, or the key or the resource is to be
  handled (`TrackedIsExact`). It rests on lemmas about wakeups: an event stays in the channel until it
  is delivered (`EventLasts`), an Enqueue ends with an event (`EnqueueLasts`), a changed resource that is
  watched is told to its watcher (`ChangeIsTold`), a resource leaves the queue only for the key it
  is tracked for (`ToldIsResolved`), and what is enforced changes only when the key is woken (`EnforcedStep`).
  These lemmas are stated for `Steps`: a step of the register, a call by anybody, or a
  write of the cluster by others.
- `HelmLockerProofs`: `HLTypeCorrect`, `ClaimedOnceAlways`, `OthersLeftAlone`; and of the register in
  the composed system `HLNoNilDereference`, `HLNoStealing`, `HLInformerFollows` and
  `HLTrackedAlwaysReverted`. The last four need no new invariant: each step of the composition is one of
  `Steps` to the register (`HLIsStep`: the release controller's steps are calls or leave it alone,
  Helm's writes are those of others), so the lemmas above apply, also while Helm upgrades, rolls
  back or uninstalls what is tracked. The types are
  inductive with the register's `IInv`, whose lemmas are cited for the steps of the register,
  and with `VersionsBounded` (a revision costs an operation). `ClaimedOnce` needs
  `CopiesCurrent`: a copy that is fresh is the object, and a worker that claims holds a copy
  without a manager; so a claim that succeeds claims what nobody manages. `OthersLeftAlone` rests on
  `OursOnly`: a copy that says "us" is right for ever, because no step takes a HelmRelease
  from its manager; a worker past the claim acts on such a copy; and everything of a release that is not
  ours is `Untouched` in the register, its goroutines and the cluster. It assumes that
  HelmReleases are not created anew under an earlier name (`"create" \notin EnvOps`): what one
  deleted before its finalizer leaves in the register would be taken for the new one's.
- `NamespaceControllerProofs`: `NCTypeCorrect`, `TrackerWithinList` (`WorkIsExpected`),
  `LabelsFollowProjects` (`LabelsAreCurrent`) and `ReadyIsComplete` (`ReadyKnowsProjects`). The type is inductive by itself. The list bound is
  inductive with the type: a project enters `pending` only with the list, and `pending`,
  `retrying`, the running applies and the tracker only pass it on. Labels need
  `CopiesAreCurrent`: a handler whose copy is still in `held` is about to write the label of the
  project that the namespace is in now, which every step keeps because storing an object takes it
  out of `held`. `ReadyIsComplete` rests on `Found`: while Register starts, a listed namespace of a
  project is still to be handled or its project is on the list, and what is tracked is on the list;
  at the end nothing is left to handle, and `Matches` says that all of the list is tracked.
- `NamespaceSettledProofs`: `SettledIsComplete` (`SettledIsRegistered`), for any number of namespaces,
  projects, changes, failures and restarts. Like for the project controller, the inductive invariant
  says what work is left: for a live namespace of a project, `AllServed` has either a turn of that
  namespace to come (`Turn`: it is queued or in a handler), or an apply of the project to come (`Due`:
  pending or retrying), or the apply that runs or ran last is `Enough`: it read an index in which the
  project has a namespace, and what it wrote stands, or the copy of the registration namespace is
  outdated or queued, so that its handler will look again. It rests on `Opened` (the applyinator
  takes requests while the process runs, and only listed namespaces are handled while it starts), `Carried`
  (a handler works for the project that the copy says, or has another turn) and `ReadBack` (what an
  apply read and what the tracker holds is the label that an apply wrote, unless the registration
  namespace is among the `relabelled`). When `Settled` no turn and no apply is left.
- `ProjectControllerProofs`: `PCTypeCorrect`, `NothingLeftBehind`, `AtMostOneDeploys`,
  `DeployedIsTrue`, for any number of ProjectHelmCharts, options, failures and crashes. Nothing of what
  holds when the controller is quiet holds in between, so the inductive invariant says what work is
  left whenever it does not: `OwnersOK` (who owns a release and should not is
  queued, has an outdated copy, is reported by an informer, or has a worker that will take it away),
  `ConflictsOK` (of two that deploy one release, one is about to be told of the other and step
  back), `DashboardsOK` (who says Deployed owns the release, or work is left), and
  `ChartsOK` (copies and finalizers) on which they rest. `Quiet` leaves no work, so the
  properties follow.
- `ReleaseContentsProofs`: `RCTypeCorrect`, `GrantsSettle` and `ValuesSettle`, for any bindings,
  Roles, users and namespaces, and any function from `spec.values` and namespaces to values.
  `GrantsSettle`: while there is a chart, its Roles are granted to those who are bound and to nobody else;
  when it is gone because the project has no namespaces, nothing is granted.
  It assumes `OneRoleEach`: every default role has a ClusterRole of its own. (With a shared one
  the index keeps one of the two default roles, in the random order of a map.) `ValuesSettle`: the chart
  has the values for the current `spec.values` and namespaces `M`, or does not exist if `M` is empty. `M`
  has all namespaces of the project, and at most those that left it besides: that a namespace leaves by its
  label resolves to nobody.
  The inductive invariant is `CopiesOK`, a copy of which there is no news is the object, and `Pending`:
  unless the key comes (`Comes`: it is queued, or will be by the namespace controller), the worker has
  read what the copies say now, of the bindings those it has read so far (`HasRead`), or is about to delete
  everything for want of namespaces (`WorkDue`); and once it has written, so has
  the server (`Due`), or there is news that will queue the key. When `Quiet` there is neither news nor
  work, so the server says what the objects say. `ValuesPending` is the same for the values alone, and
  needs no `OneRoleEach`.
- `GetValuesOverlays`, in the same module: for all values, overrides and namespaces, however deep
  their maps are nested, the leaves of what `getValues` returns are those of the four layers,
  overlaid; whether a map is `map[string]interface{}` or a YAML map makes no difference, and a mixed map
  is a leaf. `ValuesAlwaysOverlaid` joins it with `ValuesSettle`: `ValuesAreOverlaid` for every set of values
  that users may write and every file of overrides, as long as the project has namespaces; when it has
  none, there is no HelmChart. The key lemma is `MergedLeaves`, by induction
  on the depth: the leaves of a merge are those of the overlay, and those of the base that the overlay
  does not decide about (`DecidesByField`, `LeavesByField` take one field at a time).
- `NatRecursion`: the lemma `Recursion` on which these rest, that a function which is defined at each number from its values below
  has the values that its definition gives. The library's theorems on recursion and induction take an
  operator as a parameter, which the provers cannot instantiate; here the operator is a CONSTANT of
  the module, and `ReleaseContentsProofs` instantiates the module for `MapsTo`, `MergeTo` and the
  paths of a map. Induction is over sets of numbers (`SetInduction`), from the library's theorem that
  `<` is well founded.

Assumptions on constants are `ConstantsAssumption`, `EnvOpsAssumption`,
`InitManifestsAssumption`, `InitReleasesAssumption`, `NCAssumption`, `PCAssumption`, `RCAssumption`,
`ValuesAssumption` (the fields and texts of the operator are among `Fields` and `Texts`, and `Depth` is at
least the 4 levels that it writes), `RVAssumption` (`ValuesFor` is `getValues` with the operator's
overrides) and those of `Applyinator`, evaluated by TLC in every run of their module.

Every safety invariant and action property of the passing runs is a theorem, as is the refinement.
Only model-checked: liveness, which needs ENABLED and is out of reach of the prover
(`RequestsAreServed`, `DriftIsReverted`, `LockedSetsAreTracked`, `DeployedIsEnforced`, `OrphansArePurged`,
`ProjectsGetRegistered`, `AloneIsDeployed`, `DeletedIsRemoved`, `ContentsSettle`), and of course the
properties that do not hold. No invariant could stand in for `DeployedIsEnforced`: what it promises
is not true of every state at rest (`SettledIsEnforced`, see "Findings").

## Not modelled

- The hardened namespaces: a reconcile of two fixed objects per namespace, without state.
- `OnSingleNamespaceChange` (no project label): one apply at start-up. The unguarded append to the
  initialization list by several workers (`controllers/namespace/controller.go:280`): the list is a
  set in the model, and only `Compare` reads it, before the workers start.
- The content of the dashboard values and of the manifests; a manifest that cannot be parsed is an error before any
  state changes. The deferred start of the GVK watcher, Kubernetes events.
- Finer steps than the modules take, where the control is the same. `setState` holds `stateMapLock` while
  its send blocks (`cache.go:268-274`), so a full channel stops every lookup until the informer reads; in
  `ObjectSetRegister` lookups go on, and no property speaks of that stop. (The informer takes the lock only when
  it lists, before it watches.) `HandlerRead` reads the object set once for two reads (`handler.go:29`,
  `72`). `HelmLocker.StateOf` has no Unknown and Superseded (`info.go:17-25`), which are treated like the other
  states that are not deployed. `NamespaceController` appends to the initialization list and calls
  `Applyinator.Apply` in one step (`namespace/controller.go:277-283`).
- Leader election (one leader is assumed), the wiring of clients and factories, configuration, flags, CRDs, charts,
  scripts and generated code other than the generating handler of ProjectHelmCharts.
- The composition of the project controller with the release controller and the namespace
  controller. They share only API objects, and each module lets the others do to these what their
  code can do: `HelmLocker` has HelmReleases created and deleted by somebody,
  `ReleaseContents` has the tracker filled, `NamespaceController` says whom it enqueues. A product of their state
  spaces is out of reach of TLC at bounds where anything happens.
