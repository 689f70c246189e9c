-------------------------- MODULE ProjectController --------------------------
(***************************************************************************)
(* The project controller of the Helm Project Operator                     *)
(* (internal/helm-project-operator/controllers/project): for every         *)
(* ProjectHelmChart it keeps a HelmChart and a HelmRelease, and, when      *)
(* release namespaces are dedicated, the namespace they are installed in.  *)
(* Several ProjectHelmCharts can stand for one release name; whoever has a *)
(* status already tracks it.                                               *)
(*                                                                         *)
(* A worker takes a key, reads the caches (OnChange), applies the objects, *)
(* writes the status and then runs the remove handler.  What is applied    *)
(* belongs to the set of one ProjectHelmChart: the last that wrote an      *)
(* object owns it, and only what the cache shows as owned is deleted.      *)
(*                                                                         *)
(* A copy is up to date or it is not (its resourceVersion); a cache that   *)
(* is behind catches up in one step.                                       *)
(***************************************************************************)
EXTENDS Naturals, FiniteSets

CONSTANTS Charts,         \* ProjectHelmCharts, by namespace and name
          Releases,       \* release names
          ReleaseOf,      \* the release name of each ProjectHelmChart
          Managed,        \* those in a registration namespace with this operator's HelmAPIVersion
          Unparsable,     \* those whose values cannot be written as YAML
          None,           \* nobody
          HasProjectLabel,\* opts.ProjectLabel is not empty
          HasReleaseLabel,\* opts.ProjectReleaseLabelValue is not empty
          UserOps,        \* bound: what users do
          MaxChanges,     \* bound: how often they do it
          MaxFaults       \* bound: failed calls and crashes

ASSUME PCAssumption ==
  /\ ReleaseOf \in [Charts -> Releases]
  /\ Managed \subseteq Charts /\ Unparsable \subseteq Charts
  /\ None \notin Charts
  /\ HasProjectLabel \in BOOLEAN /\ HasReleaseLabel \in BOOLEAN
  /\ UserOps \subseteq {"create", "delete", "label", "targets", "namespace", "helm"}
  /\ MaxChanges \in Nat /\ MaxFaults \in Nat

VARIABLES
  phc,        \* the ProjectHelmCharts in the API server
  helm,       \* who owns the HelmChart and the HelmRelease of each release
  relns,      \* the dedicated namespace of each release
  dashboard,  \* releases whose chart is installed, with its dashboard ConfigMap
  targets,    \* ProjectHelmCharts whose project has namespaces
  phase,      \* "down" or "up"
  cache,      \* the informer's copies of phc
  fresh,      \* those that are up to date
  helmView,   \* the informers' copy of helm
  dropped,    \* owners of deleted HelmCharts the informers have yet to report
  nsView,     \* the informer's copy of relns
  queue,      \* keys in the work queue
  work,       \* what each worker is about to do, and its copy
  held,       \* ProjectHelmCharts whose worker has a copy that is up to date
  changes, faults

server == <<phc, helm, relns, dashboard, targets>>
caches == <<cache, fresh, helmView, dropped, nsView>>
budget == <<changes, faults>>
vars == <<server, phase, caches, queue, work, held, budget>>

\* "Conflict" and "NoNamespace" are UnableToCreateHelmRelease, with their messages.
Unable == {"Conflict", "NoNamespace"}
Deploys == {"Waiting", "Deployed"}
Statuses == {"", "NoTargets", "BadValues", "Awaiting"} \cup Unable \cup Deploys
Verdicts == Statuses \cup {"Unmanaged"}

ProjectHelmChart == [phase : {"Absent", "Live", "Deleting"}, finalizer : BOOLEAN,
                     cleanup : BOOLEAN, status : Statuses]
Namespace == [exists : BOOLEAN, orphaned : BOOLEAN, owner : Charts \cup {None}]
PCs == {"idle", "apply", "status", "finalizer", "remove", "unfinalize"}

Gone == [phase |-> "Absent", finalizer |-> FALSE, cleanup |-> FALSE, status |-> ""]
New == [Gone EXCEPT !.phase = "Live"]
NoNamespace == [exists |-> FALSE, orphaned |-> FALSE, owner |-> None]
Idle == [pc |-> "idle", verdict |-> "Unmanaged", copy |-> Gone]

TypeOK ==
  /\ phc \in [Charts -> ProjectHelmChart]
  /\ helm \in [Releases -> Charts \cup {None}]
  /\ relns \in [Releases -> Namespace]
  /\ dashboard \subseteq Releases
  /\ targets \subseteq Charts
  /\ phase \in {"down", "up"}
  /\ cache \in [Charts -> ProjectHelmChart]
  /\ fresh \subseteq Charts
  /\ helmView \in [Releases -> Charts \cup {None}]
  /\ dropped \in [Releases -> SUBSET Charts]
  /\ nsView \in [Releases -> Namespace]
  /\ queue \subseteq Charts
  /\ work \in [Charts -> [pc : PCs, verdict : Verdicts, copy : ProjectHelmChart]]
  /\ held \subseteq Charts
  /\ changes \in Nat /\ faults \in Nat

\* A cluster without releases; some ProjectHelmCharts were created already.
Init ==
  /\ phc \in [Charts -> {Gone, New}]
  /\ helm = [r \in Releases |-> None]
  /\ relns = [r \in Releases |-> NoNamespace]
  /\ dashboard = {}
  /\ targets = Charts
  /\ phase = "down"
  /\ cache = [p \in Charts |-> Gone]
  /\ fresh = {}
  /\ helmView = [r \in Releases |-> None]
  /\ dropped = [r \in Releases |-> {}]
  /\ nsView = [r \in Releases |-> NoNamespace]
  /\ queue = {} /\ held = {}
  /\ work = [p \in Charts |-> Idle]
  /\ changes = 0 /\ faults = 0

-----------------------------------------------------------------------------
(* Names and options *)

\* getReleaseNamespaceAndName: the release has a namespace of its own, otherwise
\* it is installed where the ProjectHelmChart is.
Dedicated == HasProjectLabel /\ HasReleaseLabel

\* initResolvers: whether the release namespaces are watched.
WatchesNamespaces == HasProjectLabel /\ ~HasReleaseLabel

\* shouldManage; the cache of namespaces is empty until the process is up.
ShouldManage(p) == phase = "up" /\ p \in Managed

\* ProjectHelmChartByReleaseName
ByReleaseName(r) ==
  {p \in Charts : ShouldManage(p) /\ cache[p].phase # "Absent" /\ ReleaseOf[p] = r}

NamespaceCached(r) == Dedicated => nsView[r].exists

-----------------------------------------------------------------------------
(* OnChange *)

\* Mutants: those that wait for dashboard values are forgotten; it conflicts with itself.
ConflictingIfDeployed(p) ==
  \E q \in ByReleaseName(ReleaseOf[p]) \ {p} : cache[q].status = "Deployed"
ConflictingWithItself(p) ==
  \E q \in ByReleaseName(ReleaseOf[p]) : cache[q].status \notin {""} \cup Unable

\* Another one tracks the release: it has a status and can create the release.
Conflicting(p) ==
  \E q \in ByReleaseName(ReleaseOf[p]) \ {p} : cache[q].status \notin {""} \cup Unable

\* Mutant: the dashboard values are not looked up.
VerdictWithoutDashboard(p, T) ==
  IF ~ShouldManage(p) THEN "Unmanaged"
  ELSE IF cache[p].cleanup THEN "Awaiting"
  ELSE IF Conflicting(p) THEN "Conflict"
  ELSE IF p \notin T THEN "NoTargets"
  ELSE IF p \in Unparsable THEN "BadValues"
  ELSE IF ~NamespaceCached(ReleaseOf[p]) THEN "NoNamespace"
  ELSE "Deployed"

\* The status OnChange decides on when it sees that T have targets, and with it the
\* objects it returns.
Verdict(p, T) ==
  IF ~ShouldManage(p) THEN "Unmanaged"
  ELSE IF cache[p].cleanup THEN "Awaiting"
  ELSE IF Conflicting(p) THEN "Conflict"
  ELSE IF p \notin T THEN "NoTargets"
  ELSE IF p \in Unparsable THEN "BadValues"
  ELSE IF ~NamespaceCached(ReleaseOf[p]) THEN "NoNamespace"
  ELSE IF ReleaseOf[p] \notin dashboard THEN "Waiting"
  ELSE "Deployed"

WantsNamespace(v) == Dedicated /\ v \in {"NoTargets", "NoNamespace"} \cup Deploys

\* getProjectReleaseNamespace, applied with its owner.
ReleaseNamespace(v, owner) ==
  [exists |-> TRUE, orphaned |-> v = "NoTargets", owner |-> owner]

-----------------------------------------------------------------------------
(* What an apply does (external): it writes what the cache does not show in  *)
(* the wanted form, takes over what others own, and deletes what the cache   *)
(* shows in the set and is not wanted.  Namespaces are never deleted.        *)

AppliedHelm(p, v) ==
  LET r == ReleaseOf[p] IN
  IF v \in Deploys
  THEN IF helmView[r] = p THEN helm ELSE [helm EXCEPT ![r] = p]
  ELSE IF helmView[r] = p THEN [helm EXCEPT ![r] = None] ELSE helm

\* The owner of a copy that is deleted is the one of its last version.
Drops ==
  dropped' = [r \in Releases |->
                IF helm'[r] = None THEN dropped[r] \cup ({helm[r]} \ {None}) ELSE dropped[r]]

AppliedNamespace(r, wanted) ==
  IF nsView[r] = wanted THEN relns ELSE [relns EXCEPT ![r] = wanted]

\* A patch of a cached namespace that is gone is refused.
PatchRefused(p, v) ==
  LET r == ReleaseOf[p] IN
  /\ WantsNamespace(v)
  /\ nsView[r].owner = p /\ ~relns[r].exists
  /\ nsView[r] # ReleaseNamespace(v, p)

-----------------------------------------------------------------------------
(* The worker of a key *)

Enqueue(S) == queue' = IF phase = "up" THEN queue \cup S ELSE queue

Goes(p, w) == work' = [work EXCEPT ![p] = w]

\* The remove handler follows: it adds its finalizer, or it runs OnRemove.
AndThen(p, copy) ==
  LET at(pc) == [pc |-> pc, verdict |-> "Unmanaged", copy |-> copy] IN
  IF p \notin Managed THEN Idle
  ELSE IF copy.phase = "Live" /\ ~copy.finalizer THEN at("finalizer")
  ELSE IF copy.phase = "Deleting" /\ copy.finalizer THEN at("remove")
  ELSE Idle

Fault == faults < MaxFaults /\ faults' = faults + 1

\* The namespaces cannot be listed: without a project label that counts as no targets,
\* with one it is an error (ApplyFails).
ListFails(p) == ~HasProjectLabel /\ cache[p].phase = "Live" /\ Fault

\* A worker takes the key of a ProjectHelmChart; for one that is being deleted
\* nothing is applied and the status stays.
Handles(p) ==
  /\ phase = "up" /\ p \in queue /\ work[p] = Idle
  /\ cache[p].phase # "Absent"
  /\ queue' = queue \ {p}
  /\ \E T \in {targets, {}} :
       /\ IF T = targets THEN UNCHANGED faults ELSE ListFails(p)
       /\ Goes(p, IF cache[p].phase = "Deleting" THEN AndThen(p, cache[p])
                  ELSE [pc |-> "apply", verdict |-> Verdict(p, T), copy |-> cache[p]])
  /\ held' = IF p \in fresh THEN held \cup {p} ELSE held \ {p}
  /\ UNCHANGED <<server, phase, caches, changes>>

\* The key of one that is gone: the empty set is applied on its behalf.
Removes(p) ==
  /\ phase = "up" /\ p \in queue /\ work[p] = Idle
  /\ cache[p].phase = "Absent"
  /\ queue' = queue \ {p}
  /\ helm' = AppliedHelm(p, "Unmanaged") /\ Drops
  /\ UNCHANGED <<phc, relns, dashboard, targets, phase, cache, fresh, helmView, nsView, work,
                 held, budget>>

Applies(p) ==
  /\ work[p].pc = "apply"
  /\ LET v == work[p].verdict IN
     /\ ~PatchRefused(p, v)
     /\ helm' = AppliedHelm(p, v) /\ Drops
     /\ relns' = IF WantsNamespace(v)
                 THEN AppliedNamespace(ReleaseOf[p], ReleaseNamespace(v, p)) ELSE relns
  /\ Goes(p, [work[p] EXCEPT !.pc = "status"])
  /\ UNCHANGED <<phc, dashboard, targets, phase, cache, fresh, helmView, nsView, queue, held,
                 budget>>

\* A call fails, before or after either kind of object was applied: the status is
\* reverted and the key is retried.
ApplyFails(p) ==
  /\ work[p].pc = "apply"
  /\ LET v == work[p].verdict IN
     /\ IF PatchRefused(p, v) THEN UNCHANGED faults ELSE Fault
     /\ helm' \in {helm, AppliedHelm(p, v)} /\ Drops
     /\ relns' \in IF WantsNamespace(v) /\ ~PatchRefused(p, v)
                  THEN {relns, AppliedNamespace(ReleaseOf[p], ReleaseNamespace(v, p))}
                  ELSE {relns}
  /\ Goes(p, AndThen(p, work[p].copy))
  /\ queue' = queue \cup {p}
  /\ UNCHANGED <<phc, dashboard, targets, phase, cache, fresh, helmView, nsView, held, changes>>

\* An object is stored; only the copy of who wrote it is current.
Store(p, c, keeps) ==
  /\ phc' = [phc EXCEPT ![p] = c]
  /\ fresh' = fresh \ {p}
  /\ held' = held \ ({p} \ keeps)

\* The status is what it was: nothing is written.
KeepsStatus(p) ==
  /\ work[p].pc = "status"
  /\ work[p].verdict \in {"Unmanaged", work[p].copy.status}
  /\ Goes(p, AndThen(p, work[p].copy))
  /\ UNCHANGED <<server, phase, caches, queue, held, budget>>

ChangesStatus(p) ==
  work[p].pc = "status" /\ work[p].verdict \notin {"Unmanaged", work[p].copy.status}

UpdatesStatus(p) ==
  /\ ChangesStatus(p) /\ p \in held
  /\ LET c == [work[p].copy EXCEPT !.status = work[p].verdict] IN
     /\ Store(p, c, {p})
     /\ Goes(p, AndThen(p, c))
  /\ UNCHANGED <<helm, relns, dashboard, targets, phase, cache, helmView, dropped, nsView,
                 queue, budget>>

\* A write is refused: always when the copy is outdated.
Refused(p) == IF p \in held THEN Fault ELSE UNCHANGED faults

StatusRefused(p) ==
  /\ ChangesStatus(p)
  /\ Refused(p)
  /\ Goes(p, AndThen(p, work[p].copy))
  /\ queue' = queue \cup {p}
  /\ UNCHANGED <<server, phase, caches, held, changes>>

AddsFinalizer(p) ==
  /\ work[p].pc = "finalizer" /\ p \in held
  /\ Store(p, [work[p].copy EXCEPT !.finalizer = TRUE], {})
  /\ Goes(p, Idle)
  /\ UNCHANGED <<helm, relns, dashboard, targets, phase, cache, helmView, dropped, nsView,
                 queue, budget>>

\* Mutant: an error is returned although the apply succeeded.
OnRemoveWithError(p) ==
  /\ work[p].pc = "remove"
  /\ relns' = IF Dedicated
              THEN AppliedNamespace(ReleaseOf[p], ReleaseNamespace("NoTargets", None)) ELSE relns
  /\ Goes(p, Idle)
  /\ queue' = queue \cup {p}
  /\ UNCHANGED <<phc, helm, dashboard, targets, phase, caches, held, budget>>

\* OnRemove: the release namespace is marked as orphaned, in no owner's name.
OnRemove(p) ==
  /\ work[p].pc = "remove"
  /\ relns' = IF Dedicated
              THEN AppliedNamespace(ReleaseOf[p], ReleaseNamespace("NoTargets", None)) ELSE relns
  /\ Goes(p, [work[p] EXCEPT !.pc = "unfinalize"])
  /\ UNCHANGED <<phc, helm, dashboard, targets, phase, caches, queue, held, budget>>

\* The finalizer is removed, and the object with it.
RemovesFinalizer(p) ==
  /\ work[p].pc = "unfinalize" /\ p \in held
  /\ Store(p, Gone, {})
  /\ Goes(p, Idle)
  /\ UNCHANGED <<helm, relns, dashboard, targets, phase, cache, helmView, dropped, nsView,
                 queue, budget>>

\* The remove handler fails: in OnRemove, or because its write is refused.
RemoveFails(p) ==
  /\ work[p].pc \in {"finalizer", "remove", "unfinalize"}
  /\ IF work[p].pc = "remove" THEN Fault ELSE Refused(p)
  /\ Goes(p, Idle)
  /\ queue' = queue \cup {p}
  /\ UNCHANGED <<server, phase, caches, held, changes>>

Works(p) ==
  \/ Handles(p) \/ Removes(p) \/ Applies(p) \/ ApplyFails(p)
  \/ KeepsStatus(p) \/ UpdatesStatus(p) \/ StatusRefused(p)
  \/ AddsFinalizer(p) \/ OnRemove(p) \/ RemovesFinalizer(p) \/ RemoveFails(p)

-----------------------------------------------------------------------------
(* The informers and their resolvers *)

\* Several copies of one ProjectHelmChart are delivered as the last of them.
ObservesChart(p) ==
  /\ phase = "up" /\ p \notin fresh
  /\ cache' = [cache EXCEPT ![p] = phc[p]]
  /\ fresh' = fresh \cup {p}
  /\ queue' = queue \cup {p}
  /\ UNCHANGED <<server, phase, helmView, dropped, nsView, work, held, budget>>

\* Mutant: an annotation that is not there is not noticed.
OwnerUnchecked(o) == {o}

\* resolveProjectHelmChartOwned: the owner in the annotations.
Owner(o) == {o} \ {None}

\* resolveSystemNamespaceData
ObservesHelm(r) ==
  /\ phase = "up"
  /\ helmView[r] # helm[r] \/ dropped[r] # {}
  /\ helmView' = [helmView EXCEPT ![r] = helm[r]]
  /\ dropped' = [dropped EXCEPT ![r] = {}]
  /\ queue' = queue \cup dropped[r] \cup Owner(helm[r])
  /\ UNCHANGED <<server, phase, cache, fresh, nsView, work, held, budget>>

\* resolveProjectReleaseNamespace, if it was registered.
ObservesNamespace(r) ==
  /\ phase = "up" /\ nsView[r] # relns[r]
  /\ nsView' = [nsView EXCEPT ![r] = relns[r]]
  /\ queue' = IF WatchesNamespaces
              THEN queue \cup Owner(IF relns[r].exists THEN relns[r].owner ELSE nsView[r].owner)
              ELSE queue
  /\ UNCHANGED <<server, phase, cache, fresh, helmView, dropped, work, held, budget>>

Quiet ==
  /\ phase = "up" /\ queue = {} /\ fresh = Charts
  /\ helmView = helm /\ nsView = relns
  /\ \A r \in Releases : dropped[r] = {}
  /\ \A p \in Charts : work[p] = Idle

\* The resync period of ProjectHelmCharts ended.  Bound: when the rest is quiet.
Resyncs ==
  /\ Quiet
  /\ queue' = {p \in Charts : cache[p].phase # "Absent"}
  /\ queue' # {}
  /\ UNCHANGED <<server, phase, caches, work, held, budget>>

Observes ==
  \/ \E p \in Charts : ObservesChart(p)
  \/ \E r \in Releases : ObservesHelm(r) \/ ObservesNamespace(r)

-----------------------------------------------------------------------------
(* The process *)

\* initRemoveCleanupLabels, which Register runs before any cache is filled.
WithoutCleanupLabels ==
  [p \in Charts |-> IF ShouldManage(p) THEN [phc[p] EXCEPT !.cleanup = FALSE] ELSE phc[p]]

\* Mutant: the resolver of HelmCharts and HelmReleases is not registered.
StartsUnresolved ==
  /\ phase = "down"
  /\ phc' = WithoutCleanupLabels
  /\ phase' = "up"
  /\ cache' = phc'
  /\ fresh' = Charts
  /\ helmView' = helm
  /\ dropped' = [r \in Releases |-> {}]
  /\ nsView' = relns
  /\ queue' = {p \in Charts : phc'[p].phase # "Absent"}
  /\ UNCHANGED <<helm, relns, dashboard, targets, work, held, budget>>

\* Register, then the caches are filled: every object is handed out once, and a
\* HelmChart or a HelmRelease enqueues its owner.
Starts ==
  /\ phase = "down"
  /\ phc' = WithoutCleanupLabels
  /\ phase' = "up"
  /\ cache' = phc'
  /\ fresh' = Charts
  /\ helmView' = helm
  /\ dropped' = [r \in Releases |-> {}]
  /\ nsView' = relns
  /\ queue' = {p \in Charts : phc'[p].phase # "Absent"} \cup ({helm[r] : r \in Releases} \ {None})
  /\ UNCHANGED <<helm, relns, dashboard, targets, work, held, budget>>

\* The pod ends; Helm goes on.
Crashes ==
  /\ phase = "up"
  /\ Fault
  /\ phase' = "down"
  /\ cache' = [p \in Charts |-> Gone]
  /\ fresh' = {} /\ held' = {} /\ queue' = {}
  /\ helmView' = [r \in Releases |-> None]
  /\ dropped' = [r \in Releases |-> {}]
  /\ nsView' = [r \in Releases |-> NoNamespace]
  /\ work' = [p \in Charts |-> Idle]
  /\ UNCHANGED <<server, changes>>

-----------------------------------------------------------------------------
(* The Helm controller (external) *)

CanInstall(r) == helm[r] # None /\ (Dedicated => relns[r].exists)

\* The chart is installed: its ConfigMap resolves to all that have the release name.
Installs(r) ==
  /\ CanInstall(r) /\ r \notin dashboard
  /\ dashboard' = dashboard \cup {r}
  /\ Enqueue(ByReleaseName(r))
  /\ UNCHANGED <<phc, helm, relns, targets, phase, caches, work, held, budget>>

\* The chart is uninstalled, or its namespace is gone.
Uninstalls(r) ==
  /\ ~CanInstall(r) /\ r \in dashboard
  /\ dashboard' = dashboard \ {r}
  /\ Enqueue(ByReleaseName(r))
  /\ UNCHANGED <<phc, helm, relns, targets, phase, caches, work, held, budget>>

-----------------------------------------------------------------------------
(* Users, within the bounds UserOps and MaxChanges *)

Change(op) == op \in UserOps /\ changes < MaxChanges /\ changes' = changes + 1

UserStores(op, p, c) ==
  /\ Change(op)
  /\ Store(p, c, {})
  /\ UNCHANGED <<helm, relns, dashboard, targets, phase, cache, helmView, dropped, nsView,
                 queue, work, faults>>

Creates(p) == phc[p].phase = "Absent" /\ UserStores("create", p, New)

Deletes(p) ==
  /\ phc[p].phase = "Live"
  /\ UserStores("delete", p,
                IF phc[p].finalizer THEN [phc[p] EXCEPT !.phase = "Deleting"] ELSE Gone)

\* The cleanup label is added or removed.
Labels(p) ==
  /\ phc[p].phase = "Live"
  /\ UserStores("label", p, [phc[p] EXCEPT !.cleanup = ~@])

\* The first namespace joins the targets or the last one leaves.  The namespace
\* controller enqueues the ProjectHelmCharts of a project that a namespace joins; one
\* that leaves is announced when it is deleted, not when it loses its label.  Without
\* a project label nobody is told.
ChangesTargets(p) ==
  /\ Change("targets")
  /\ targets' = IF p \in targets THEN targets \ {p} ELSE targets \cup {p}
  /\ \E told \in BOOLEAN :
       /\ told => HasProjectLabel
       /\ HasProjectLabel /\ p \notin targets => told
       /\ Enqueue({q \in {p} : told /\ cache[q].phase # "Absent"})
  /\ UNCHANGED <<phc, helm, relns, dashboard, phase, caches, work, held, faults>>

DeletesNamespace(r) ==
  /\ Change("namespace")
  /\ relns[r].exists
  /\ relns' = [relns EXCEPT ![r] = NoNamespace]
  /\ UNCHANGED <<phc, helm, dashboard, targets, phase, caches, queue, work, held, faults>>

DeletesHelm(r) ==
  /\ Change("helm")
  /\ helm[r] # None
  /\ helm' = [helm EXCEPT ![r] = None] /\ Drops
  /\ UNCHANGED <<phc, relns, dashboard, targets, phase, cache, fresh, helmView, nsView, queue,
                 work, held, faults>>

Users ==
  \/ \E p \in Charts : Creates(p) \/ Deletes(p) \/ Labels(p) \/ ChangesTargets(p)
  \/ \E r \in Releases : DeletesNamespace(r) \/ DeletesHelm(r)

-----------------------------------------------------------------------------
Next ==
  \/ \E p \in Charts : Works(p)
  \/ Observes
  \/ Resyncs
  \/ Starts \/ Crashes
  \/ \E r \in Releases : Installs(r) \/ Uninstalls(r)
  \/ Users

Spec == Init /\ [][Next]_vars

\* Workers, informers and the Helm controller go on, the pod is restarted, and the
\* resync period ends again and again (strongly fair, because of its bound).
Fairness ==
  /\ \A p \in Charts : WF_vars(Works(p)) /\ WF_vars(ObservesChart(p))
  /\ \A r \in Releases : /\ WF_vars(ObservesHelm(r)) /\ WF_vars(ObservesNamespace(r))
                         /\ WF_vars(Installs(r)) /\ WF_vars(Uninstalls(r))
  /\ WF_vars(Starts)
  /\ SF_vars(Resyncs)

FairSpec == Spec /\ Fairness

-----------------------------------------------------------------------------
(* Properties *)

Deploying(c) == c.phase = "Live" /\ c.status \in Deploys

\* When nothing is left to do, no two ProjectHelmCharts deploy one release: of two
\* that were processed at once, the one that is told last about the other steps
\* back (controller.go:232-253).
OneDeploys ==
  Quiet => \A p, q \in Managed :
             p # q /\ ReleaseOf[p] = ReleaseOf[q] => ~(Deploying(phc[p]) /\ Deploying(phc[q]))

\* When nothing is left to do, a HelmChart belongs to a ProjectHelmChart that deploys
\* it: none is left behind by one that was deleted, labelled for cleanup, lost the
\* release to another or lost its targets, not even across a crash.
NoReleaseLeftBehind ==
  Quiet => \A r \in Releases :
             helm[r] # None =>
               /\ helm[r] \in Managed
               /\ Deploying(phc[helm[r]]) /\ ~phc[helm[r]].cleanup

\* When nothing is left to do, also for the Helm controller, Deployed is true: the
\* release is there and belongs to the ProjectHelmChart that says so.
DeployedIsBacked ==
  Quiet /\ (\A r \in Releases : r \in dashboard <=> CanInstall(r)) =>
    \A p \in Managed :
      phc[p].phase = "Live" /\ phc[p].status = "Deployed" => helm[ReleaseOf[p]] = p

\* status.go:58 says of WaitingForDashboardValues that "HelmChart and HelmRelease
\* should be deployed".
WaitingIsBacked ==
  Quiet => \A p \in Managed :
             phc[p].phase = "Live" /\ phc[p].status = "Waiting" => helm[ReleaseOf[p]] # None

\* controller.go:307 says that the handler is enqueued again when the release
\* namespace is there, so a ProjectHelmChart that is alone does not wait for it.
NamespaceIsNoticed ==
  Quiet => \A p \in Managed : phc[p].status = "NoNamespace" => ~relns[ReleaseOf[p]].exists

\* status.go:35-36 says that NoTargetProjectNamespaces is the status when the selector
\* targets no namespaces.
NoTargetsIsTrue ==
  Quiet => \A p \in Managed :
             phc[p].phase = "Live" /\ phc[p].status = "NoTargets" => p \notin targets

\* operatorlabels.go:48-49 says that a namespace with the orphaned label is safe to delete,
\* and controller.go:375-376 that the label is removed when another ProjectHelmChart
\* uses the namespace.
OrphansAreUnused ==
  Quiet => \A r \in Releases : relns[r].orphaned => helm[r] = None

\* status.go:17 says that on redeployment the cleanup label is removed by the operator.
RedeploymentRemovesCleanup ==
  [][Starts => \A p \in Managed : ~phc'[p].cleanup]_vars

\* A ProjectHelmChart that is and stays the only one of its release, with targets, values
\* that can be parsed and no cleanup label, gets its release for good.
AloneIsDeployed ==
  \A p \in Managed \ Unparsable :
    <>[](/\ phc[p].phase = "Live" /\ ~phc[p].cleanup /\ p \in targets
         /\ \A q \in Charts \ {p} : ReleaseOf[q] = ReleaseOf[p] => phc[q].phase = "Absent")
      => <>[](helm[ReleaseOf[p]] = p /\ phc[p].status = "Deployed")

\* A ProjectHelmChart that is deleted is gone in the end, and its release is not
\* owned by it.
DeletedIsRemoved ==
  \A p \in Managed :
    <>[](phc[p].phase # "Live") => <>[](phc[p].phase = "Absent" /\ helm[ReleaseOf[p]] # p)
=============================================================================
