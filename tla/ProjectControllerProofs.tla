----------------------- MODULE ProjectControllerProofs -----------------------
(* Proofs about the project controller, for all ProjectHelmCharts, releases  *)
(* and options, and any number of changes, failures and crashes.             *)
EXTENDS ProjectController, TLAPS

\* While the process is down nobody works and no copy is current.
ProcessOK ==
  phase = "down" => fresh = {} /\ held = {} /\ \A p \in Charts : work[p] = Idle

\* A copy that is marked as up to date is; a worker whose copy is not will be told:
\* the news is on its way, or the key is queued already.
CopyOK(p) ==
  /\ p \in fresh => cache[p] = phc[p]
  /\ work[p].pc # "idle" =>
       IF p \in held THEN work[p].copy = phc[p] ELSE p \notin fresh \/ p \in queue

\* What is being deleted has a finalizer: the operator's, which runs OnRemove.
FinalizerOK(p) ==
  /\ phc[p].phase = "Deleting" => phc[p].finalizer
  /\ cache[p].phase = "Deleting" => cache[p].finalizer
  /\ work[p].copy.phase = "Deleting" => work[p].copy.finalizer

Telling(p) == work[p].pc \in {"apply", "status"}

\* Whoever is about to deploy may, as far as its copy says.
DeployerOK(p) ==
  Telling(p) /\ work[p].verdict \in Deploys =>
    p \in Managed /\ work[p].copy.phase = "Live" /\ ~work[p].copy.cleanup

ChartsOK == ProcessOK /\ \A p \in Charts : CopyOK(p) /\ FinalizerOK(p) /\ DeployerOK(p)

\* The key of p will be handled, again or for the first time.
ToBeHandled(p) == phase = "down" \/ p \in queue \/ p \notin fresh

\* The owner of a release deploys it, or something is under way that ends that.
Leaving(r, p) ==
  \/ ToBeHandled(p) \/ helmView[r] # p
  \/ work[p].pc \in {"apply", "remove", "unfinalize"}
  \/ work[p].pc = "status" /\ work[p].verdict \in Deploys

OwnerOK(r, p) ==
  helm[r] = p =>
    /\ p \in Managed /\ ReleaseOf[p] = r
    /\ Leaving(r, p) \/ (Deploying(phc[p]) /\ ~phc[p].cleanup)

OwnersOK == \A r \in Releases, p \in Charts : OwnerOK(r, p)

\* p is about to say something else than that it deploys.
SteppingBack(p) ==
  ToBeHandled(p) \/ (Telling(p) /\ work[p].verdict \notin Deploys \cup {"Unmanaged"})

Rivals(p, q) == p # q /\ ReleaseOf[p] = ReleaseOf[q]

\* Of two that deploy one release, one will step back.
ConflictsOK ==
  \A p, q \in Managed :
    Rivals(p, q) /\ Deploying(phc[p]) /\ Deploying(phc[q]) => SteppingBack(p) \/ SteppingBack(q)

\* Who says Deployed without a dashboard will say so no more.
DashboardOK(p) ==
  phc[p].phase = "Live" /\ phc[p].status = "Deployed" =>
    \/ ReleaseOf[p] \in dashboard \/ ToBeHandled(p)
    \/ Telling(p) /\ work[p].verdict \notin {"Deployed", "Unmanaged"}

DashboardsOK == \A p \in Managed : DashboardOK(p)

IInv == ChartsOK /\ OwnersOK /\ ConflictsOK /\ DashboardsOK

-----------------------------------------------------------------------------
(* Types *)

Step == [pc : PCs, verdict : Verdicts, copy : ProjectHelmChart]
Owners == Charts \cup {None}

\* The constant records have their types, and updates of a field keep them.
LEMMA Objects ==
  /\ Gone \in ProjectHelmChart /\ New \in ProjectHelmChart
  /\ \A c \in ProjectHelmChart :
       /\ \A s \in Statuses : [c EXCEPT !.status = s] \in ProjectHelmChart
       /\ \A b \in BOOLEAN : /\ [c EXCEPT !.cleanup = b] \in ProjectHelmChart
                             /\ [c EXCEPT !.finalizer = b] \in ProjectHelmChart
       /\ [c EXCEPT !.phase = "Deleting"] \in ProjectHelmChart
       /\ c.cleanup \in BOOLEAN
  /\ NoNamespace \in Namespace
  /\ \A v, o : o \in Owners => ReleaseNamespace(v, o) \in Namespace
  /\ Idle \in Step
  /\ \A w \in Step : /\ w.pc \in PCs /\ w.verdict \in Verdicts /\ w.copy \in ProjectHelmChart
                     /\ \A pc \in PCs : [w EXCEPT !.pc = pc] \in Step
BY DEF Gone, New, ProjectHelmChart, NoNamespace, Namespace, ReleaseNamespace, Idle, Step, PCs,
       Verdicts, Statuses, Unable, Deploys, Owners

\* A verdict is one of Verdicts, and what follows the generated handler is a step of a worker.
LEMMA Steps ==
  /\ \A p, T : Verdict(p, T) \in Verdicts
  /\ \A p : \A c \in ProjectHelmChart : AndThen(p, c) \in Step
<1>1. \A p, T : Verdict(p, T) \in Verdicts
  BY DEF Verdict, Verdicts, Statuses, Unable, Deploys
<1>2. \A p : \A c \in ProjectHelmChart : AndThen(p, c) \in Step
  BY Objects DEF AndThen, Step, PCs, Verdicts
<1> QED BY <1>1, <1>2

\* What an apply makes of the objects of one type.
LEMMA AppliedTypes ==
  ASSUME TypeOK, NEW p \in Charts, NEW v
  PROVE  /\ AppliedHelm(p, v) \in [Releases -> Owners]
         /\ \A r \in Releases : \A w \in Namespace :
              AppliedNamespace(r, w) \in [Releases -> Namespace]
<1>1. AppliedHelm(p, v) \in [Releases -> Owners]
  BY PCAssumption DEF TypeOK, AppliedHelm, Owners
<1>2. \A r \in Releases : \A w \in Namespace : AppliedNamespace(r, w) \in [Releases -> Namespace]
  BY DEF TypeOK, AppliedNamespace
<1> QED BY <1>1, <1>2

\* Drops keeps the type of dropped.
LEMMA DropsType ==
  ASSUME TypeOK, Drops, helm' \in [Releases -> Owners]
  PROVE  dropped' \in [Releases -> SUBSET Charts]
BY DEF TypeOK, Drops, Owners

\* Enqueue keeps the type of the queue.
LEMMA EnqueueType ==
  ASSUME TypeOK, NEW S \in SUBSET Charts, Enqueue(S)
  PROVE  queue' \subseteq Charts
BY DEF TypeOK, Enqueue

\* Goes keeps the type of the workers.
LEMMA GoesType ==
  ASSUME TypeOK, NEW p \in Charts, NEW w \in Step, Goes(p, w)
  PROVE  work' \in [Charts -> Step]
BY DEF TypeOK, Goes, Step

\* Storing a ProjectHelmChart keeps the types of the objects and of their copies.
LEMMA StoreType ==
  ASSUME TypeOK, NEW p \in Charts, NEW c \in ProjectHelmChart, NEW k, Store(p, c, k)
  PROVE  phc' \in [Charts -> ProjectHelmChart] /\ fresh' \subseteq Charts /\ held' \subseteq Charts
BY DEF TypeOK, Store

\* The number of faults stays a number.
LEMMA FaultType ==
  ASSUME TypeOK, Fault \/ UNCHANGED faults PROVE faults' \in Nat
BY DEF TypeOK, Fault

\* The number of changes stays a number.
LEMMA ChangeType ==
  ASSUME TypeOK, NEW op, Change(op) PROVE changes' \in Nat
BY DEF TypeOK, Change

\* A step of a worker keeps the types.
LEMMA WorkerTypes ==
  ASSUME TypeOK, NEW p \in Charts, Works(p)
  PROVE  TypeOK'
<1>1. work[p] \in Step /\ work[p].copy \in ProjectHelmChart /\ cache[p] \in ProjectHelmChart
      /\ ReleaseOf[p] \in Releases
  BY PCAssumption, Objects DEF TypeOK, Step
<1>2. CASE Handles(p)
  <2>1. PICK T \in {targets, {}} :
          /\ IF T = targets THEN UNCHANGED faults ELSE ListFails(p)
          /\ Goes(p, IF cache[p].phase = "Deleting" THEN AndThen(p, cache[p])
                     ELSE [pc |-> "apply", verdict |-> Verdict(p, T), copy |-> cache[p]])
    BY <1>2 DEF Handles
  <2>2. [pc |-> "apply", verdict |-> Verdict(p, T), copy |-> cache[p]] \in Step
    BY <1>1, Steps DEF Step, PCs
  <2>3. work' \in [Charts -> Step]
    BY <2>1, <2>2, <1>1, Steps, GoesType
  <2>4. faults' \in Nat
    BY <2>1, FaultType DEF ListFails
  <2> QED BY <1>2, <2>3, <2>4 DEF Handles, TypeOK, Step, server, caches
<1>3. CASE Removes(p)
  <2>1. helm' \in [Releases -> Owners] /\ dropped' \in [Releases -> SUBSET Charts]
    BY <1>3, AppliedTypes, DropsType DEF Removes
  <2> QED BY <1>3, <2>1 DEF Removes, TypeOK, Owners, budget
<1>4. CASE Applies(p)
  <2>1. helm' \in [Releases -> Owners] /\ dropped' \in [Releases -> SUBSET Charts]
    BY <1>4, AppliedTypes, DropsType DEF Applies
  <2>2. relns' \in [Releases -> Namespace]
    BY <1>1, <1>4, AppliedTypes, Objects DEF Applies, TypeOK, Owners
  <2>3. work' \in [Charts -> Step]
    BY <1>1, <1>4, GoesType, Objects DEF Applies, PCs
  <2> QED BY <1>4, <2>1, <2>2, <2>3 DEF Applies, TypeOK, Owners, Step, budget
<1>5. CASE ApplyFails(p)
  <2>1. helm' \in [Releases -> Owners] /\ dropped' \in [Releases -> SUBSET Charts]
    BY <1>5, AppliedTypes, DropsType DEF ApplyFails, TypeOK, Owners
  <2>2. relns' \in [Releases -> Namespace]
    <3>1. AppliedNamespace(ReleaseOf[p], ReleaseNamespace(work[p].verdict, p))
            \in [Releases -> Namespace]
      BY <1>1, AppliedTypes, Objects DEF Owners
    <3>2. relns' = relns
          \/ relns' = AppliedNamespace(ReleaseOf[p], ReleaseNamespace(work[p].verdict, p))
      BY <1>5 DEF ApplyFails
    <3> QED BY <3>1, <3>2 DEF TypeOK
  <2>3. work' \in [Charts -> Step]
    BY <1>1, <1>5, GoesType, Steps DEF ApplyFails
  <2>4. faults' \in Nat
    BY <1>5, FaultType DEF ApplyFails
  <2> QED BY <1>5, <2>1, <2>2, <2>3, <2>4 DEF ApplyFails, TypeOK, Owners, Step
<1>6. CASE KeepsStatus(p)
  <2>1. work' \in [Charts -> Step]
    BY <1>1, <1>6, GoesType, Steps DEF KeepsStatus
  <2> QED BY <1>6, <2>1 DEF KeepsStatus, TypeOK, Step, server, caches, budget
<1>7. CASE UpdatesStatus(p)
  <2> DEFINE c == [work[p].copy EXCEPT !.status = work[p].verdict]
  <2>1. c \in ProjectHelmChart
    BY <1>1, <1>7, Objects DEF UpdatesStatus, ChangesStatus, Verdicts, Step
  <2>2. work' \in [Charts -> Step]
    BY <1>7, <2>1, GoesType, Steps DEF UpdatesStatus
  <2>3. phc' \in [Charts -> ProjectHelmChart] /\ fresh' \subseteq Charts /\ held' \subseteq Charts
    BY <1>7, <2>1, StoreType DEF UpdatesStatus
  <2> QED BY <1>7, <2>2, <2>3 DEF UpdatesStatus, TypeOK, Step, budget
<1>8. CASE StatusRefused(p)
  <2>1. work' \in [Charts -> Step]
    BY <1>1, <1>8, GoesType, Steps DEF StatusRefused
  <2>2. faults' \in Nat
    BY <1>8, FaultType DEF StatusRefused, Refused
  <2> QED BY <1>8, <2>1, <2>2 DEF StatusRefused, TypeOK, Step, server, caches
<1>9. CASE AddsFinalizer(p)
  <2>1. phc' \in [Charts -> ProjectHelmChart] /\ fresh' \subseteq Charts /\ held' \subseteq Charts
    BY <1>1, <1>9, StoreType, Objects DEF AddsFinalizer
  <2>2. work' \in [Charts -> Step]
    BY <1>9, GoesType, Objects DEF AddsFinalizer
  <2> QED BY <1>9, <2>1, <2>2 DEF AddsFinalizer, TypeOK, Step, budget
<1>10. CASE OnRemove(p)
  <2>1. relns' \in [Releases -> Namespace]
    BY <1>1, <1>10, AppliedTypes, Objects DEF OnRemove, TypeOK, Owners
  <2>2. work' \in [Charts -> Step]
    BY <1>1, <1>10, GoesType, Objects DEF OnRemove, PCs
  <2> QED BY <1>10, <2>1, <2>2 DEF OnRemove, TypeOK, Step, caches, budget
<1>11. CASE RemovesFinalizer(p)
  <2>1. phc' \in [Charts -> ProjectHelmChart] /\ fresh' \subseteq Charts /\ held' \subseteq Charts
    BY <1>11, StoreType, Objects DEF RemovesFinalizer
  <2>2. work' \in [Charts -> Step]
    BY <1>11, GoesType, Objects DEF RemovesFinalizer
  <2> QED BY <1>11, <2>1, <2>2 DEF RemovesFinalizer, TypeOK, Step, budget
<1>12. CASE RemoveFails(p)
  <2>1. work' \in [Charts -> Step]
    BY <1>12, GoesType, Objects DEF RemoveFails
  <2>2. faults' \in Nat
    BY <1>12, FaultType DEF RemoveFails, Refused
  <2> QED BY <1>12, <2>1, <2>2 DEF RemoveFails, TypeOK, Step, server, caches
<1> QED
  BY <1>2, <1>3, <1>4, <1>5, <1>6, <1>7, <1>8, <1>9, <1>10, <1>11, <1>12 DEF Works

\* A step of an informer, a resync, a start and a crash keep the types.
LEMMA OtherTypes ==
  ASSUME TypeOK, Observes \/ Resyncs \/ Starts \/ Crashes
  PROVE  TypeOK'
<1>1. ASSUME NEW p \in Charts, ObservesChart(p) PROVE TypeOK'
  BY <1>1 DEF ObservesChart, TypeOK, server, budget
<1>2. ASSUME NEW r \in Releases, ObservesHelm(r) PROVE TypeOK'
  <2>1. dropped[r] \subseteq Charts /\ Owner(helm[r]) \subseteq Charts
    BY DEF TypeOK, Owner
  <2>2. helmView' \in [Releases -> Owners] /\ dropped' \in [Releases -> SUBSET Charts]
    BY <1>2 DEF ObservesHelm, TypeOK, Owners
  <2> QED BY <1>2, <2>1, <2>2 DEF ObservesHelm, TypeOK, Owners, server, budget
<1>3. ASSUME NEW r \in Releases, ObservesNamespace(r) PROVE TypeOK'
  <2>1. nsView[r].owner \in Owners /\ relns[r].owner \in Owners
    BY DEF TypeOK, Namespace, Owners
  <2>2. Owner(IF relns[r].exists THEN relns[r].owner ELSE nsView[r].owner) \subseteq Charts
    BY <2>1 DEF Owner, Owners
  <2>3. queue' \subseteq Charts
    BY <1>3, <2>2 DEF ObservesNamespace, TypeOK
  <2> QED BY <1>3, <2>3 DEF ObservesNamespace, TypeOK, server, budget
<1>4. CASE Resyncs
  BY <1>4 DEF Resyncs, TypeOK, server, caches, budget
<1>5. CASE Starts
  <2>1. WithoutCleanupLabels \in [Charts -> ProjectHelmChart]
    BY Objects DEF WithoutCleanupLabels, TypeOK
  <2>2. {helm[r] : r \in Releases} \ {None} \subseteq Charts
    BY DEF TypeOK
  <2> QED BY <1>5, <2>1, <2>2 DEF Starts, TypeOK, budget
<1>6. CASE Crashes
  <2>1. [p \in Charts |-> Idle] \in [Charts -> Step]
    BY Objects
  <2> QED BY <1>6, <2>1, FaultType, Objects DEF Crashes, TypeOK, Step, server
<1> QED BY <1>1, <1>2, <1>3, <1>4, <1>5, <1>6 DEF Observes

\* A step of a user or of the Helm controller keeps the types.
LEMMA OutsideTypes ==
  ASSUME TypeOK, Users \/ \E r \in Releases : Installs(r) \/ Uninstalls(r)
  PROVE  TypeOK'
<1>1. ASSUME NEW r \in Releases, Installs(r) \/ Uninstalls(r) PROVE TypeOK'
  <2>1. queue' \subseteq Charts
    BY <1>1, EnqueueType DEF Installs, Uninstalls, ByReleaseName
  <2> QED BY <1>1, <2>1 DEF Installs, Uninstalls, TypeOK, caches, budget
<1>2. ASSUME NEW p \in Charts, NEW op, NEW c \in ProjectHelmChart, UserStores(op, p, c)
      PROVE  TypeOK'
  BY <1>2, StoreType, ChangeType DEF UserStores, TypeOK
<1>3. ASSUME NEW p \in Charts, Creates(p) \/ Deletes(p) \/ Labels(p) PROVE TypeOK'
  <2>1. phc[p] \in ProjectHelmChart
    BY DEF TypeOK
  <2>2. CASE Creates(p)
    BY <2>2, <1>2, Objects DEF Creates
  <2>3. CASE Deletes(p)
    BY <2>1, <2>3, <1>2, Objects DEF Deletes
  <2>4. CASE Labels(p)
    <3>1. [phc[p] EXCEPT !.cleanup = ~phc[p].cleanup] \in ProjectHelmChart
      BY <2>1, Objects
    <3> QED BY <2>4, <3>1, <1>2 DEF Labels
  <2> QED BY <1>3, <2>2, <2>3, <2>4
<1>4. ASSUME NEW p \in Charts, ChangesTargets(p) PROVE TypeOK'
  <2>1. queue' \subseteq Charts
    BY <1>4, EnqueueType DEF ChangesTargets
  <2> QED BY <1>4, <2>1, ChangeType DEF ChangesTargets, TypeOK, caches
<1>5. ASSUME NEW r \in Releases, DeletesNamespace(r) PROVE TypeOK'
  BY <1>5, ChangeType, Objects DEF DeletesNamespace, TypeOK, caches
<1>6. ASSUME NEW r \in Releases, DeletesHelm(r) PROVE TypeOK'
  <2>1. helm' \in [Releases -> Owners]
    BY <1>6 DEF DeletesHelm, TypeOK, Owners
  <2> QED BY <1>6, <2>1, ChangeType, DropsType DEF DeletesHelm, TypeOK, Owners
<1> QED BY <1>1, <1>3, <1>4, <1>5, <1>6 DEF Users

\* Every variable keeps its type, whoever takes a step.
THEOREM PCTypeCorrect == Spec => []TypeOK
<1>1. Init => TypeOK
  BY PCAssumption, Objects DEF Init, TypeOK, Owners, Step
<1>2. TypeOK /\ [Next]_vars => TypeOK'
  <2> SUFFICES ASSUME TypeOK, [Next]_vars PROVE TypeOK'
    OBVIOUS
  <2>1. CASE UNCHANGED vars
    BY <2>1 DEF vars, server, caches, budget, TypeOK
  <2> QED BY <2>1, WorkerTypes, OtherTypes, OutsideTypes DEF Next
<1> QED BY <1>1, <1>2, PTL DEF Spec

-----------------------------------------------------------------------------
(* What a worker does to itself and to the others *)

\* A worker leaves the caches, the dashboards and all other ProjectHelmCharts alone.
LEMMA WorkerFrame ==
  ASSUME TypeOK, NEW p \in Charts, Works(p)
  PROVE  /\ phase' = phase /\ cache' = cache /\ dashboard' = dashboard /\ helmView' = helmView
         /\ \A q \in Charts \ {p} :
              /\ phc'[q] = phc[q] /\ work'[q] = work[q]
              /\ (q \in fresh') = (q \in fresh) /\ (q \in held') = (q \in held)
              /\ (q \in queue') = (q \in queue)
BY DEF Works, TypeOK, Handles, Removes, Applies, ApplyFails, KeepsStatus, UpdatesStatus,
       StatusRefused, AddsFinalizer, OnRemove, RemovesFinalizer, RemoveFails, Goes, Store,
       server, caches, budget

\* An idle worker holds the copy of nothing.
LEMMA IdleIs == Idle.pc = "idle" /\ Idle.copy = Gone /\ Gone.phase = "Absent" /\ ~Gone.cleanup
BY DEF Idle, Gone

\* The worker carries on with its copy or stops.
LEMMA AndThenCopy ==
  ASSUME NEW p, NEW c
  PROVE  /\ AndThen(p, c) = Idle
              \/ (AndThen(p, c).pc \in {"finalizer", "remove"} /\ AndThen(p, c).copy = c)
         /\ p \in Managed /\ c.phase = "Deleting" /\ c.finalizer => AndThen(p, c).pc = "remove"
BY DEF AndThen, Idle

\* OnChange deploys only what it manages, has no cleanup label and no conflict.
LEMMA VerdictDeploys ==
  ASSUME NEW p, NEW T, Verdict(p, T) \in Deploys
  PROVE  p \in Managed /\ ~cache[p].cleanup /\ ~Conflicting(p)
BY DEF Verdict, Deploys, ShouldManage

\* A step of its worker leaves a ProjectHelmChart queued, or its copies outdated, or
\* it is one of five.
LEMMA WorkerSelf ==
  ASSUME TypeOK, NEW p \in Charts, Works(p)
  PROVE  \/ p \in queue' /\ phc' = phc
         \/ p \notin fresh' /\ helm' = helm
         \/ Handles(p) \/ Removes(p) \/ Applies(p) \/ KeepsStatus(p) \/ OnRemove(p)
BY DEF Works, TypeOK, ApplyFails, UpdatesStatus, StatusRefused, AddsFinalizer, RemovesFinalizer,
       RemoveFails, Store, server

-----------------------------------------------------------------------------
(* ChartsOK is inductive *)

\* A step of a worker preserves ChartsOK.
LEMMA ChartsWork ==
  ASSUME TypeOK, ChartsOK, NEW p \in Charts, Works(p)
  PROVE  ChartsOK'
<1> DEFINE Mine == CopyOK(p)' /\ FinalizerOK(p)' /\ DeployerOK(p)'
<1>1. CopyOK(p) /\ FinalizerOK(p) /\ DeployerOK(p) /\ ProcessOK
  BY DEF ChartsOK
<1>2. phase = "up" /\ phase' = "up"
  <2>1. work[p] # Idle \/ phase = "up"
    BY DEF Works, Idle, Handles, Removes, Applies, ApplyFails, KeepsStatus, UpdatesStatus,
           ChangesStatus, StatusRefused, AddsFinalizer, OnRemove, RemovesFinalizer, RemoveFails
  <2>2. phase = "up"
    BY <1>1, <2>1 DEF ProcessOK, TypeOK
  <2> QED BY <2>2, WorkerFrame
<1>3. ProcessOK'
  BY <1>2 DEF ProcessOK
<1>4. \A q \in Charts \ {p} : CopyOK(q)' /\ FinalizerOK(q)' /\ DeployerOK(q)'
  <2> SUFFICES ASSUME NEW q \in Charts \ {p} PROVE CopyOK(q)' /\ FinalizerOK(q)' /\ DeployerOK(q)'
    OBVIOUS
  <2>1. CopyOK(q) /\ FinalizerOK(q) /\ DeployerOK(q)
    BY DEF ChartsOK
  <2> QED BY <2>1, WorkerFrame DEF CopyOK, FinalizerOK, DeployerOK, Telling
<1>5. ASSUME Handles(p) PROVE Mine
  <2>1. PICK T \in {targets, {}} :
          Goes(p, IF cache[p].phase = "Deleting" THEN AndThen(p, cache[p])
                  ELSE [pc |-> "apply", verdict |-> Verdict(p, T), copy |-> cache[p]])
    BY <1>5 DEF Handles
  <2>2. cache[p].phase = "Live" \/ cache[p].phase = "Deleting"
    BY <1>5 DEF Handles, TypeOK, ProjectHelmChart
  <2>3. CASE cache[p].phase = "Deleting"
    <3>1. work'[p] = AndThen(p, cache[p])
      BY <2>1, <2>3 DEF Goes, TypeOK
    <3>2. work'[p].pc \in {"idle", "finalizer", "remove"}
          /\ (work'[p] = Idle \/ work'[p].copy = cache[p])
      BY <3>1, AndThenCopy DEF Idle
    <3> QED BY <1>1, <1>5, <3>2, IdleIs DEF Handles, CopyOK, FinalizerOK, DeployerOK, Telling, caches, server
  <2>4. CASE cache[p].phase = "Live"
    <3>1. work'[p] = [pc |-> "apply", verdict |-> Verdict(p, T), copy |-> cache[p]]
      BY <2>1, <2>4 DEF Goes, TypeOK
    <3>2. CopyOK(p)' /\ FinalizerOK(p)'
      BY <1>1, <1>5, <3>1 DEF Handles, CopyOK, FinalizerOK, caches, server
    <3>3. DeployerOK(p)'
      BY <2>4, <3>1, VerdictDeploys DEF DeployerOK
    <3> QED BY <3>2, <3>3
  <2> QED BY <2>2, <2>3, <2>4
<1>6. ASSUME Removes(p) PROVE Mine
  BY <1>1, <1>6 DEF Removes, CopyOK, FinalizerOK, DeployerOK, Telling, Idle
<1>7. ASSUME Applies(p) \/ OnRemove(p) PROVE Mine
  <2>1. work'[p].verdict = work[p].verdict /\ work'[p].copy = work[p].copy
        /\ work[p].pc # "idle" /\ (Telling(p)' <=> Telling(p))
    BY <1>7 DEF Applies, OnRemove, Goes, TypeOK, Telling
  <2> QED BY <1>1, <1>7, <2>1 DEF Applies, OnRemove, CopyOK, FinalizerOK, DeployerOK, caches
<1>8. ASSUME ApplyFails(p) \/ KeepsStatus(p) \/ StatusRefused(p) PROVE Mine
  <2>1. work'[p] = AndThen(p, work[p].copy) /\ work[p].pc # "idle"
    BY <1>8 DEF ApplyFails, KeepsStatus, StatusRefused, ChangesStatus, Goes, TypeOK
  <2>2. work'[p].pc \in {"idle", "finalizer", "remove"}
        /\ (work'[p] = Idle \/ work'[p].copy = work[p].copy)
    BY <2>1, AndThenCopy DEF Idle
  <2>3. /\ phc' = phc /\ cache' = cache /\ fresh' = fresh /\ held' = held
        /\ p \in queue => p \in queue'
    BY <1>8 DEF ApplyFails, KeepsStatus, StatusRefused, caches, server, TypeOK
  <2> QED BY <1>1, <2>1, <2>2, <2>3, IdleIs DEF CopyOK, FinalizerOK, DeployerOK, Telling
<1>9. ASSUME UpdatesStatus(p) PROVE Mine
  <2> DEFINE c == [work[p].copy EXCEPT !.status = work[p].verdict]
  <2>1. work'[p] = AndThen(p, c) /\ phc'[p] = c /\ p \notin fresh' /\ cache' = cache /\ p \in held'
    BY <1>9 DEF UpdatesStatus, Store, Goes, TypeOK
  <2>2. work'[p].pc \in {"idle", "finalizer", "remove"} /\ (work'[p] = Idle \/ work'[p].copy = c)
    BY <2>1, AndThenCopy DEF Idle
  <2>3. c.phase = "Deleting" => c.finalizer
    BY <1>1 DEF FinalizerOK, TypeOK, ProjectHelmChart
  <2> HIDE DEF c
  <2> QED BY <1>1, <2>1, <2>2, <2>3, IdleIs DEF CopyOK, FinalizerOK, DeployerOK, Telling
<1>10. ASSUME AddsFinalizer(p) PROVE Mine
  <2>1. /\ work'[p] = Idle /\ p \notin fresh' /\ cache' = cache
        /\ phc'[p] = [work[p].copy EXCEPT !.finalizer = TRUE]
    BY <1>10 DEF AddsFinalizer, Store, Goes, TypeOK
  <2>2. phc'[p].finalizer
    BY <2>1 DEF TypeOK, ProjectHelmChart
  <2> QED BY <1>1, <2>1, <2>2, IdleIs DEF CopyOK, FinalizerOK, DeployerOK, Telling
<1>11. ASSUME RemovesFinalizer(p) PROVE Mine
  <2>1. work'[p] = Idle /\ p \notin fresh' /\ cache' = cache /\ phc'[p] = Gone
    BY <1>11 DEF RemovesFinalizer, Store, Goes, TypeOK
  <2> QED BY <1>1, <2>1, IdleIs DEF CopyOK, FinalizerOK, DeployerOK, Telling
<1>12. ASSUME RemoveFails(p) PROVE Mine
  <2>1. work'[p] = Idle /\ phc' = phc /\ cache' = cache /\ fresh' = fresh
    BY <1>12 DEF RemoveFails, Goes, TypeOK, caches, server
  <2> QED BY <1>1, <2>1, IdleIs DEF CopyOK, FinalizerOK, DeployerOK, Telling
<1>13. Mine
  BY <1>5, <1>6, <1>7, <1>8, <1>9, <1>10, <1>11, <1>12 DEF Works
<1> QED BY <1>3, <1>4, <1>13 DEF ChartsOK

\* What changes neither the ProjectHelmCharts nor their copies or workers, and only
\* adds to the queue.
LEMMA ChartsFrame ==
  ASSUME TypeOK, ChartsOK, UNCHANGED <<phc, cache, work, held, fresh>>, phase' = phase,
         queue \subseteq queue'
  PROVE  ChartsOK'
BY DEF ChartsOK, ProcessOK, CopyOK, FinalizerOK, DeployerOK, Telling

\* A step of a user or of the Helm controller preserves ChartsOK.
LEMMA ChartsOutside ==
  ASSUME TypeOK, ChartsOK, Users \/ \E r \in Releases : Installs(r) \/ Uninstalls(r)
  PROVE  ChartsOK'
<1>1. ASSUME NEW S, Enqueue(S) PROVE queue \subseteq queue'
  BY <1>1 DEF Enqueue
<1>2. ASSUME NEW r \in Releases, Installs(r) \/ Uninstalls(r) PROVE ChartsOK'
  BY <1>1, <1>2, ChartsFrame DEF Installs, Uninstalls, caches
<1>3. ASSUME NEW p \in Charts, ChangesTargets(p) PROVE ChartsOK'
  <2>1. queue \subseteq queue'
    BY <1>1, <1>3 DEF ChangesTargets
  <2> QED BY <1>3, <2>1, ChartsFrame DEF ChangesTargets, caches
<1>4. ASSUME NEW r \in Releases, DeletesNamespace(r) \/ DeletesHelm(r) PROVE ChartsOK'
  BY <1>4, ChartsFrame DEF DeletesNamespace, DeletesHelm, caches
<1>5. ASSUME NEW p \in Charts, NEW op, NEW c, UserStores(op, p, c),
             c.phase = "Deleting" => c.finalizer
      PROVE  ChartsOK'
  <2>1. /\ phc' = [phc EXCEPT ![p] = c] /\ fresh' = fresh \ {p} /\ held' = held \ {p}
        /\ UNCHANGED <<phase, cache, queue, work>>
    BY <1>5 DEF UserStores, Store
  <2>2. ProcessOK'
    BY <2>1 DEF ChartsOK, ProcessOK
  <2>3. ASSUME NEW q \in Charts PROVE CopyOK(q)' /\ FinalizerOK(q)' /\ DeployerOK(q)'
    <3>1. CopyOK(q) /\ FinalizerOK(q) /\ DeployerOK(q)
      BY DEF ChartsOK
    <3>2. phc'[q] = IF q = p THEN c ELSE phc[q]
      BY <2>1 DEF TypeOK
    <3> QED BY <1>5, <2>1, <3>1, <3>2 DEF CopyOK, FinalizerOK, DeployerOK, Telling
  <2> QED BY <2>2, <2>3 DEF ChartsOK
<1>6. ASSUME NEW p \in Charts, Creates(p) \/ Deletes(p) \/ Labels(p) PROVE ChartsOK'
  <2>1. phc[p] \in ProjectHelmChart
    BY DEF TypeOK
  <2>2. New.phase = "Live" /\ Gone.phase = "Absent"
    BY DEF New, Gone
  <2>3. phc[p].finalizer => [phc[p] EXCEPT !.phase = "Deleting"].finalizer
    BY <2>1 DEF ProjectHelmChart
  <2>4. ASSUME phc[p].phase = "Live"
        PROVE  [phc[p] EXCEPT !.cleanup = ~phc[p].cleanup].phase = "Live"
    BY <2>1, <2>4 DEF ProjectHelmChart
  <2>5. CASE Creates(p)
    BY <1>5, <2>2, <2>5 DEF Creates
  <2>6. CASE Deletes(p)
    BY <1>5, <2>2, <2>3, <2>6 DEF Deletes
  <2>7. CASE Labels(p)
    BY <1>5, <2>4, <2>7 DEF Labels
  <2> QED BY <1>6, <2>5, <2>6, <2>7
<1> QED BY <1>2, <1>3, <1>4, <1>6 DEF Users

\* A restart finds nobody at work, and takes no label away.
LEMMA Restart ==
  ASSUME TypeOK, ChartsOK, Starts
  PROVE  /\ phc' = phc /\ cache' = phc /\ fresh' = Charts /\ held' = {}
         /\ work' = work /\ \A p \in Charts : work[p] = Idle
<1>1. held = {} /\ \A p \in Charts : work[p] = Idle
  BY DEF Starts, ChartsOK, ProcessOK
<1>2. WithoutCleanupLabels = phc
  BY DEF Starts, WithoutCleanupLabels, ShouldManage, TypeOK
<1> QED BY <1>1, <1>2 DEF Starts

\* A step of an informer, a resync, a start and a crash preserve ChartsOK.
LEMMA ChartsOther ==
  ASSUME TypeOK, ChartsOK, Observes \/ Resyncs \/ Starts \/ Crashes
  PROVE  ChartsOK'
<1>1. ASSUME NEW p \in Charts, ObservesChart(p) PROVE ChartsOK'
  <2>1. /\ cache' = [cache EXCEPT ![p] = phc[p]] /\ fresh' = fresh \cup {p}
        /\ queue' = queue \cup {p} /\ phase = "up" /\ phase' = "up"
        /\ UNCHANGED <<phc, work, held>>
    BY <1>1 DEF ObservesChart, server
  <2>2. ASSUME NEW q \in Charts PROVE CopyOK(q)' /\ FinalizerOK(q)' /\ DeployerOK(q)'
    <3>1. CopyOK(q) /\ FinalizerOK(q) /\ DeployerOK(q)
      BY DEF ChartsOK
    <3>2. cache'[q] = IF q = p THEN phc[p] ELSE cache[q]
      BY <2>1 DEF TypeOK
    <3> QED BY <2>1, <3>1, <3>2 DEF CopyOK, FinalizerOK, DeployerOK, Telling
  <2> QED BY <2>1, <2>2 DEF ChartsOK, ProcessOK
<1>2. ASSUME NEW r \in Releases, ObservesHelm(r) \/ ObservesNamespace(r) PROVE ChartsOK'
  <2>1. queue \subseteq queue'
    BY <1>2 DEF ObservesHelm, ObservesNamespace
  <2> QED BY <1>2, <2>1, ChartsFrame DEF ObservesHelm, ObservesNamespace, server
<1>3. CASE Resyncs
  <2>1. queue \subseteq queue'
    BY <1>3 DEF Resyncs, Quiet
  <2> QED BY <1>3, <2>1, ChartsFrame DEF Resyncs, server, caches
<1>4. CASE Starts
  <2>1. ASSUME NEW q \in Charts PROVE CopyOK(q)' /\ FinalizerOK(q)' /\ DeployerOK(q)'
    <3>1. FinalizerOK(q)
      BY DEF ChartsOK
    <3> QED BY <1>4, <3>1, Restart, IdleIs DEF CopyOK, FinalizerOK, DeployerOK, Telling
  <2> QED BY <1>4, <2>1 DEF ChartsOK, ProcessOK, Starts
<1>5. CASE Crashes
  <2>1. ASSUME NEW q \in Charts PROVE CopyOK(q)' /\ FinalizerOK(q)' /\ DeployerOK(q)'
    <3>1. FinalizerOK(q) /\ phc' = phc /\ cache'[q] = Gone /\ work'[q] = Idle /\ fresh' = {}
      BY <1>5 DEF ChartsOK, Crashes, server
    <3> QED BY <3>1, IdleIs DEF CopyOK, FinalizerOK, DeployerOK, Telling
  <2> QED BY <1>5, <2>1 DEF ChartsOK, ProcessOK, Crashes
<1> QED BY <1>1, <1>2, <1>3, <1>4, <1>5 DEF Observes

-----------------------------------------------------------------------------
(* OwnersOK is inductive *)

\* What an apply does to the owners.
LEMMA AppliedOwners ==
  ASSUME TypeOK, NEW p \in Charts, NEW v, NEW r \in Releases, NEW q \in Charts,
         AppliedHelm(p, v)[r] = q
  PROVE  \/ helm[r] = q /\ (v \notin Deploys /\ r = ReleaseOf[p] => q # p \/ helmView[r] # p)
         \/ q = p /\ r = ReleaseOf[p] /\ v \in Deploys
BY PCAssumption DEF AppliedHelm, TypeOK

\* A worker makes nobody the owner of a release but its own ProjectHelmChart.
LEMMA WorkerOwners ==
  ASSUME TypeOK, ChartsOK, NEW p \in Charts, Works(p), NEW r \in Releases, NEW q \in Charts,
         helm'[r] = q
  PROVE  helm[r] = q \/ (q = p /\ r = ReleaseOf[p] /\ p \in Managed)
<1>1. DeployerOK(p)
  BY DEF ChartsOK
<1>2. helm' = helm \/ helm' = AppliedHelm(p, "Unmanaged")
      \/ (work[p].pc = "apply" /\ helm' = AppliedHelm(p, work[p].verdict))
  BY DEF Works, Handles, Removes, Applies, ApplyFails, KeepsStatus, UpdatesStatus, StatusRefused,
         AddsFinalizer, OnRemove, RemovesFinalizer, RemoveFails, server
<1>3. "Unmanaged" \notin Deploys
  BY DEF Deploys
<1> QED BY <1>1, <1>2, <1>3, AppliedOwners DEF DeployerOK, Telling

\* A step of a worker preserves OwnersOK.
LEMMA OwnersWork ==
  ASSUME TypeOK, ChartsOK, OwnersOK, NEW p \in Charts, Works(p)
  PROVE  OwnersOK'
<1>1. ASSUME NEW r \in Releases, NEW q \in Charts \ {p} PROVE OwnerOK(r, q)'
  <2>1. OwnerOK(r, q)
    BY DEF OwnersOK
  <2>2. helm'[r] = q => helm[r] = q
    BY WorkerOwners
  <2> QED BY <2>1, <2>2, WorkerFrame DEF OwnerOK, Leaving, ToBeHandled
<1>2. ASSUME NEW r \in Releases, helm'[r] = p PROVE OwnerOK(r, p)'
  <2>1. OwnerOK(r, p) /\ CopyOK(p) /\ FinalizerOK(p) /\ DeployerOK(p)
    BY DEF OwnersOK, ChartsOK
  <2>2. p \in Managed /\ ReleaseOf[p] = r
    BY <1>2, <2>1, WorkerOwners DEF OwnerOK
  <2> DEFINE Goal == Leaving(r, p)' \/ (Deploying(phc[p])' /\ ~phc'[p].cleanup)
  <2>3. ASSUME p \in queue' \/ p \notin fresh' PROVE Goal
    BY <2>3 DEF Leaving, ToBeHandled
  <2>4. ASSUME Handles(p) PROVE Goal
    <3>1. CASE p \notin fresh
      BY <2>3, <2>4, <3>1 DEF Handles, caches
    <3>2. CASE p \in fresh /\ cache[p].phase = "Deleting"
      <4>1. AndThen(p, cache[p]).pc = "remove"
        BY <2>1, <2>2, <3>2, AndThenCopy DEF FinalizerOK
      <4>2. work'[p] = AndThen(p, cache[p])
        BY <2>4, <3>2 DEF Handles, Goes, TypeOK
      <4> QED BY <4>1, <4>2 DEF Leaving
    <3>3. CASE p \in fresh /\ cache[p].phase # "Deleting"
      <4>1. work'[p].pc = "apply"
        BY <2>4, <3>3 DEF Handles, Goes, TypeOK
      <4> QED BY <4>1 DEF Leaving
    <3> QED BY <3>1, <3>2, <3>3
  <2>5. ASSUME Removes(p) PROVE Goal
    <3>1. "Unmanaged" \notin Deploys
      BY DEF Deploys
    <3>2. helmView[r] # p
      BY <1>2, <2>2, <2>5, <3>1, AppliedOwners DEF Removes
    <3> QED BY <2>5, <3>2 DEF Removes, Leaving
  <2>6. ASSUME Applies(p) PROVE Goal
    <3>1. work'[p].pc = "status" /\ work'[p].verdict = work[p].verdict
      BY <2>6 DEF Applies, Goes, TypeOK
    <3>2. work[p].verdict \in Deploys \/ helmView[r] # p
      BY <1>2, <2>2, <2>6, AppliedOwners DEF Applies
    <3> QED BY <2>6, <3>1, <3>2 DEF Applies, Leaving
  <2>7. ASSUME KeepsStatus(p) PROVE Goal
    <3>1. UNCHANGED <<phase, queue, fresh, helmView, phc, helm>> /\ work[p].pc = "status"
      BY <2>7 DEF KeepsStatus, server, caches
    <3>2. Leaving(r, p) \/ (Deploying(phc[p]) /\ ~phc[p].cleanup)
      BY <1>2, <2>1, <3>1 DEF OwnerOK
    <3>3. CASE ToBeHandled(p) \/ helmView[r] # p \/ (Deploying(phc[p]) /\ ~phc[p].cleanup)
      BY <3>1, <3>3 DEF Leaving, ToBeHandled, Deploying
    <3>4. CASE work[p].verdict \in Deploys
      <4>1. work[p].copy.status = work[p].verdict
        BY <2>7, <3>4 DEF KeepsStatus, Deploys
      <4>2. Deploying(work[p].copy) /\ ~work[p].copy.cleanup
        BY <2>1, <3>1, <3>4, <4>1 DEF DeployerOK, Telling, Deploying
      <4>3. p \in held => work[p].copy = phc[p]
        BY <2>1, <3>1 DEF CopyOK
      <4>4. p \notin held => ToBeHandled(p)
        BY <2>1, <3>1 DEF CopyOK, ToBeHandled
      <4> QED BY <3>1, <4>2, <4>3, <4>4 DEF Leaving, ToBeHandled, Deploying
    <3> QED BY <3>1, <3>2, <3>3, <3>4 DEF Leaving
  <2>8. ASSUME OnRemove(p) PROVE Goal
    <3>1. work'[p].pc = "unfinalize"
      BY <2>8 DEF OnRemove, Goes, TypeOK
    <3> QED BY <3>1 DEF Leaving
  <2>9. Goal
    BY <2>3, <2>4, <2>5, <2>6, <2>7, <2>8, WorkerSelf
  <2> QED BY <2>2, <2>9 DEF OwnerOK
<1>3. ASSUME NEW r \in Releases, helm'[r] # p PROVE OwnerOK(r, p)'
  BY <1>3 DEF OwnerOK
<1> QED BY <1>1, <1>2, <1>3 DEF OwnersOK

\* Whoever is stored anew, or enqueued, is to be handled.
LEMMA OwnersFrame ==
  ASSUME TypeOK, OwnersOK, UNCHANGED <<phase, helmView, work>>,
         queue \subseteq queue', fresh' \subseteq fresh,
         \A p \in Charts : phc'[p] = phc[p] \/ p \notin fresh',
         \A r \in Releases : helm'[r] = helm[r] \/ helm'[r] = None
  PROVE  OwnersOK'
<1> SUFFICES ASSUME NEW r \in Releases, NEW p \in Charts PROVE OwnerOK(r, p)'
  BY DEF OwnersOK
<1>1. OwnerOK(r, p)
  BY DEF OwnersOK
<1>2. helm'[r] = p => helm[r] = p
  BY PCAssumption
<1>3. ToBeHandled(p) => ToBeHandled(p)'
  BY DEF ToBeHandled
<1>4. CASE phc'[p] = phc[p]
  BY <1>1, <1>2, <1>3, <1>4 DEF OwnerOK, Leaving, Deploying
<1>5. CASE p \notin fresh'
  BY <1>1, <1>2, <1>5 DEF OwnerOK, Leaving, ToBeHandled
<1> QED BY <1>4, <1>5

\* Every other step preserves OwnersOK.
LEMMA OwnersOther ==
  ASSUME TypeOK, ChartsOK, OwnersOK,
         Observes \/ Resyncs \/ Starts \/ Crashes \/ Users
           \/ \E r \in Releases : Installs(r) \/ Uninstalls(r)
  PROVE  OwnersOK'
<1>1. ASSUME NEW S, Enqueue(S) PROVE queue \subseteq queue'
  BY <1>1 DEF Enqueue
<1>2. ASSUME NEW r \in Releases, Installs(r) \/ Uninstalls(r) PROVE OwnersOK'
  BY <1>1, <1>2, OwnersFrame DEF Installs, Uninstalls, caches
<1>3. ASSUME NEW p \in Charts, ChangesTargets(p) PROVE OwnersOK'
  <2>1. queue \subseteq queue'
    BY <1>1, <1>3 DEF ChangesTargets
  <2> QED BY <1>3, <2>1, OwnersFrame DEF ChangesTargets, caches
<1>4. ASSUME NEW r \in Releases, DeletesNamespace(r) PROVE OwnersOK'
  BY <1>4, OwnersFrame DEF DeletesNamespace, caches
<1>5. ASSUME NEW r \in Releases, DeletesHelm(r) PROVE OwnersOK'
  <2>1. \A s \in Releases : helm'[s] = helm[s] \/ helm'[s] = None
    BY <1>5 DEF DeletesHelm, TypeOK
  <2> QED BY <1>5, <2>1, OwnersFrame DEF DeletesHelm
<1>6. ASSUME NEW p \in Charts, NEW op, NEW c, UserStores(op, p, c) PROVE OwnersOK'
  <2>1. \A q \in Charts : phc'[q] = phc[q] \/ q \notin fresh'
    BY <1>6 DEF UserStores, Store, TypeOK
  <2>2. fresh' \subseteq fresh /\ UNCHANGED <<phase, helmView, work, queue, helm>>
    BY <1>6 DEF UserStores, Store
  <2> QED BY <2>1, <2>2, OwnersFrame
<1>7. ASSUME NEW p \in Charts, Creates(p) \/ Deletes(p) \/ Labels(p) PROVE OwnersOK'
  BY <1>6, <1>7 DEF Creates, Deletes, Labels
<1>8. CASE Resyncs
  <2>1. queue \subseteq queue'
    BY <1>8 DEF Resyncs, Quiet
  <2> QED BY <1>8, <2>1, OwnersFrame DEF Resyncs, server, caches
<1>9. ASSUME NEW r \in Releases, ObservesNamespace(r) PROVE OwnersOK'
  <2>1. queue \subseteq queue'
    BY <1>9 DEF ObservesNamespace
  <2> QED BY <1>9, <2>1, OwnersFrame DEF ObservesNamespace, server
<1>10. ASSUME NEW p \in Charts, ObservesChart(p) PROVE OwnersOK'
  <2> SUFFICES ASSUME NEW r \in Releases, NEW q \in Charts PROVE OwnerOK(r, q)'
    BY DEF OwnersOK
  <2>1. OwnerOK(r, q)
    BY DEF OwnersOK
  <2>2. /\ queue' = queue \cup {p} /\ fresh' = fresh \cup {p}
        /\ UNCHANGED <<phc, helm, phase, helmView, work>>
    BY <1>10 DEF ObservesChart, server
  <2> QED BY <2>1, <2>2 DEF OwnerOK, Leaving, ToBeHandled, Deploying
<1>11. ASSUME NEW s \in Releases, ObservesHelm(s) PROVE OwnersOK'
  <2> SUFFICES ASSUME NEW r \in Releases, NEW q \in Charts PROVE OwnerOK(r, q)'
    BY DEF OwnersOK
  <2>1. OwnerOK(r, q)
    BY DEF OwnersOK
  <2>2. /\ helmView' = [helmView EXCEPT ![s] = helm[s]]
        /\ queue' = queue \cup dropped[s] \cup Owner(helm[s])
        /\ UNCHANGED <<phc, helm, phase, fresh, work>>
    BY <1>11 DEF ObservesHelm, server
  <2>3. CASE r = s
    <3>1. helm[r] = q => q \in queue'
      BY <2>2, <2>3, PCAssumption DEF Owner
    <3> QED BY <2>1, <2>2, <3>1 DEF OwnerOK, Leaving, ToBeHandled
  <2>4. CASE r # s
    <3>1. helmView'[r] = helmView[r]
      BY <2>2, <2>4 DEF TypeOK
    <3> QED BY <2>1, <2>2, <3>1 DEF OwnerOK, Leaving, ToBeHandled, Deploying
  <2> QED BY <2>3, <2>4
<1>12. CASE Starts
  <2> SUFFICES ASSUME NEW r \in Releases, NEW q \in Charts PROVE OwnerOK(r, q)'
    BY DEF OwnersOK
  <2>1. OwnerOK(r, q) /\ helm' = helm
    BY <1>12 DEF OwnersOK, Starts
  <2>2. helm[r] = q => q \in queue'
    BY <1>12, PCAssumption DEF Starts
  <2> QED BY <2>1, <2>2 DEF OwnerOK, Leaving, ToBeHandled
<1>13. CASE Crashes
  <2> SUFFICES ASSUME NEW r \in Releases, NEW q \in Charts PROVE OwnerOK(r, q)'
    BY DEF OwnersOK
  <2>1. OwnerOK(r, q) /\ helm' = helm /\ phase' = "down"
    BY <1>13 DEF OwnersOK, Crashes, server
  <2> QED BY <2>1 DEF OwnerOK, Leaving, ToBeHandled
<1> QED BY <1>2, <1>3, <1>4, <1>5, <1>7, <1>8, <1>9, <1>10, <1>11, <1>12, <1>13
        DEF Observes, Users

-----------------------------------------------------------------------------
(* ConflictsOK and DashboardsOK are inductive *)

\* What a worker is about to say follows from the copy it took.
LEMMA HandlesTells ==
  ASSUME TypeOK, ChartsOK, NEW p \in Managed, Handles(p), p \in fresh, phc[p].phase = "Live"
  PROVE  /\ phase = "up" /\ work'[p].pc = "apply"
         /\ \E T : work'[p].verdict = Verdict(p, T)
<1>1. p \in Charts /\ cache[p] = phc[p]
  BY PCAssumption DEF ChartsOK, CopyOK
<1>2. PICK T \in {targets, {}} :
        Goes(p, IF cache[p].phase = "Deleting" THEN AndThen(p, cache[p])
                ELSE [pc |-> "apply", verdict |-> Verdict(p, T), copy |-> cache[p]])
  BY DEF Handles
<1>3. work'[p] = [pc |-> "apply", verdict |-> Verdict(p, T), copy |-> cache[p]]
  BY <1>1, <1>2 DEF Goes, TypeOK
<1> QED BY <1>3 DEF Handles

\* OnChange says something of what is managed: not that it deploys in a conflict, nor Deployed
\* without a dashboard.
LEMMA VerdictSays ==
  ASSUME NEW p \in Managed, NEW T, phase = "up"
  PROVE  /\ Verdict(p, T) # "Unmanaged"
         /\ Conflicting(p) => Verdict(p, T) \notin Deploys
         /\ ReleaseOf[p] \notin dashboard => Verdict(p, T) # "Deployed"
BY DEF Verdict, ShouldManage, Deploys

\* A rival whose copy is current is found.
LEMMA RivalConflicts ==
  ASSUME TypeOK, ChartsOK, NEW p \in Managed, NEW q \in Managed, Rivals(p, q), phase = "up",
         q \in fresh, Deploying(phc[q])
  PROVE  Conflicting(p)
<1>1. q \in Charts /\ cache[q] = phc[q]
  BY PCAssumption DEF ChartsOK, CopyOK
<1>2. phc[q].status \notin {""} \cup Unable
  BY DEF Deploying, Deploys, Unable
<1>3. q \in ByReleaseName(ReleaseOf[p]) \ {p}
  BY <1>1 DEF ByReleaseName, ShouldManage, Rivals, Deploying
<1> QED BY <1>1, <1>2, <1>3 DEF Conflicting

\* Who is to be handled, or about to say what it did not say yet, stays so until it
\* was handled or has said it.
LEMMA StillToTell ==
  ASSUME TypeOK, ChartsOK, NEW p \in Charts, Works(p), ~Handles(p), NEW S,
         phc'[p].phase = "Live", phc'[p].status \in S,
         ToBeHandled(p) \/ (Telling(p) /\ work[p].verdict \notin S \cup {"Unmanaged"})
  PROVE  ToBeHandled(p)' \/ (Telling(p)' /\ work'[p].verdict \notin S \cup {"Unmanaged"})
<1>1. CopyOK(p) /\ CopyOK(p)'
  BY ChartsWork DEF ChartsOK
<1>2. CASE p \in queue' \/ p \notin fresh'
  BY <1>2 DEF ToBeHandled
<1>3. CASE Removes(p) /\ p \in fresh'
  <2>1. cache'[p].phase = "Absent" /\ cache'[p] = phc'[p]
    BY <1>1, <1>3 DEF Removes, CopyOK
  <2> QED BY <2>1
<1>4. CASE Applies(p)
  <2>1. work'[p].pc = "status" /\ work'[p].verdict = work[p].verdict
        /\ UNCHANGED <<phase, queue, fresh>>
    BY <1>4 DEF Applies, Goes, TypeOK
  <2> QED BY <2>1 DEF ToBeHandled, Telling
<1>5. CASE KeepsStatus(p)
  <2>1. UNCHANGED <<phase, queue, fresh, phc>> /\ work[p].pc = "status"
        /\ work[p].verdict \in {"Unmanaged", work[p].copy.status}
    BY <1>5 DEF KeepsStatus, server, caches
  <2>2. CASE ToBeHandled(p)
    BY <2>1, <2>2 DEF ToBeHandled
  <2>3. CASE work[p].verdict \notin S \cup {"Unmanaged"}
    <3>1. work[p].copy.status \notin S
      BY <2>1, <2>3
    <3>2. p \notin held
      BY <1>1, <2>1, <3>1 DEF CopyOK
    <3> QED BY <1>1, <2>1, <3>2 DEF CopyOK, ToBeHandled
  <2> QED BY <2>2, <2>3
<1>6. CASE OnRemove(p)
  <2>1. UNCHANGED <<phase, queue, fresh>> /\ work[p].pc = "remove"
    BY <1>6 DEF OnRemove, caches
  <2> QED BY <2>1 DEF ToBeHandled, Telling
<1> QED BY <1>2, <1>3, <1>4, <1>5, <1>6, WorkerSelf

\* A step of a worker preserves ConflictsOK.
LEMMA ConflictsWork ==
  ASSUME TypeOK, ChartsOK, ConflictsOK, NEW x \in Charts, Works(x)
  PROVE  ConflictsOK'
<1>1. ASSUME NEW p \in Managed, p # x PROVE SteppingBack(p)' <=> SteppingBack(p)
  <2>1. p \in Charts \ {x}
    BY <1>1, PCAssumption
  <2> QED BY <2>1, WorkerFrame DEF SteppingBack, ToBeHandled, Telling
<1>2. ASSUME NEW p \in Managed, NEW q \in Managed, p = x, Rivals(p, q),
             Deploying(phc'[p]), Deploying(phc'[q])
      PROVE  SteppingBack(p)' \/ SteppingBack(q)'
  <2>1. q \in Charts \ {x} /\ phc'[q] = phc[q] /\ phase' = phase
    BY <1>2, WorkerFrame, PCAssumption DEF Rivals
  <2>2. CASE p \in queue' \/ p \notin fresh'
    BY <2>2 DEF SteppingBack, ToBeHandled
  <2>3. CASE p \notin queue' /\ p \in fresh' /\ SteppingBack(q)
    BY <1>1, <2>1, <2>3
  <2>4. CASE p \notin queue' /\ p \in fresh' /\ ~SteppingBack(q)
    <3>1. phc' = phc \/ Handles(p) \/ Removes(p) \/ Applies(p) \/ KeepsStatus(p) \/ OnRemove(p)
      BY <1>2, <2>4, WorkerSelf
    <3>2. phc' = phc
      BY <3>1 DEF Handles, Removes, Applies, KeepsStatus, OnRemove, server
    <3>3. SteppingBack(p)
      BY <1>2, <2>4, <3>2 DEF ConflictsOK
    <3>4. CASE Handles(p)
      <4>1. p \in fresh /\ phc[p].phase = "Live"
        BY <1>2, <2>4, <3>2, <3>4 DEF Handles, caches, Deploying
      <4>2. phase = "up" /\ work'[p].pc = "apply" /\ \E T : work'[p].verdict = Verdict(p, T)
        BY <3>4, <4>1, HandlesTells
      <4>3. q \in fresh
        BY <2>4 DEF SteppingBack, ToBeHandled
      <4>4. Conflicting(p)
        BY <1>2, <2>1, <4>2, <4>3, RivalConflicts
      <4> QED BY <4>2, <4>4, VerdictSays DEF SteppingBack, Telling
    <3>5. CASE ~Handles(p)
      <4>1. ToBeHandled(p) \/ (Telling(p) /\ work[p].verdict \notin Deploys \cup {"Unmanaged"})
        BY <3>3 DEF SteppingBack
      <4>2. phc'[p].phase = "Live" /\ phc'[p].status \in Deploys
        BY <1>2 DEF Deploying
      <4>3. ToBeHandled(p)' \/ (Telling(p)' /\ work'[p].verdict \notin Deploys \cup {"Unmanaged"})
        BY <1>2, <3>5, <4>1, <4>2, StillToTell
      <4> QED BY <4>3 DEF SteppingBack
    <3> QED BY <3>4, <3>5
  <2> QED BY <2>2, <2>3, <2>4
<1>3. ASSUME NEW p \in Managed, NEW q \in Managed, p # x, q # x, Rivals(p, q),
             Deploying(phc'[p]), Deploying(phc'[q])
      PROVE  SteppingBack(p)' \/ SteppingBack(q)'
  <2>1. phc'[p] = phc[p] /\ phc'[q] = phc[q]
    BY <1>3, WorkerFrame, PCAssumption
  <2> QED BY <1>1, <1>3, <2>1 DEF ConflictsOK
<1>4. \A p, q : Rivals(p, q) <=> Rivals(q, p)
  BY DEF Rivals
<1> SUFFICES ASSUME NEW p \in Managed, NEW q \in Managed, Rivals(p, q),
                    Deploying(phc'[p]), Deploying(phc'[q])
             PROVE  SteppingBack(p)' \/ SteppingBack(q)'
  BY DEF ConflictsOK, Rivals, Deploying
<1>5. CASE p = x
  BY <1>2, <1>5
<1>6. CASE q = x
  BY <1>2, <1>4, <1>6
<1> QED BY <1>3, <1>5, <1>6

\* A step of a worker preserves DashboardsOK.
LEMMA DashboardsWork ==
  ASSUME TypeOK, ChartsOK, DashboardsOK, NEW x \in Charts, Works(x)
  PROVE  DashboardsOK'
<1> SUFFICES ASSUME NEW p \in Managed PROVE DashboardOK(p)'
  BY DEF DashboardsOK
<1>1. DashboardOK(p) /\ p \in Charts /\ dashboard' = dashboard
  BY WorkerFrame, PCAssumption DEF DashboardsOK
<1>2. CASE p # x
  BY <1>1, <1>2, WorkerFrame DEF DashboardOK, ToBeHandled, Telling
<1>3. CASE p = x
  <2> SUFFICES ASSUME phc'[p].phase = "Live", phc'[p].status = "Deployed",
                      ReleaseOf[p] \notin dashboard, p \notin queue', p \in fresh'
               PROVE  ToBeHandled(p)'
                      \/ (Telling(p)' /\ work'[p].verdict \notin {"Deployed", "Unmanaged"})
    BY <1>1 DEF DashboardOK, ToBeHandled
  <2>1. phc' = phc
    BY <1>3, WorkerSelf DEF Handles, Removes, Applies, KeepsStatus, OnRemove, server
  <2>2. CASE Handles(p)
    <3>1. p \in fresh
      BY <2>2 DEF Handles, caches
    <3>2. phase = "up" /\ work'[p].pc = "apply" /\ \E T : work'[p].verdict = Verdict(p, T)
      BY <2>1, <2>2, <3>1, HandlesTells
    <3> QED BY <3>2, VerdictSays DEF Telling
  <2>3. CASE ~Handles(p)
    <3>1. ToBeHandled(p) \/ (Telling(p) /\ work[p].verdict \notin {"Deployed"} \cup {"Unmanaged"})
      BY <1>1, <2>1 DEF DashboardOK
    <3>2. ToBeHandled(p)'
          \/ (Telling(p)' /\ work'[p].verdict \notin {"Deployed"} \cup {"Unmanaged"})
      BY <1>1, <1>3, <2>3, <3>1, StillToTell
    <3> QED BY <3>2
  <2> QED BY <2>2, <2>3
<1> QED BY <1>2, <1>3

\* No worker, but possibly a new version, a key or a dashboard.
LEMMA TellingFrame ==
  ASSUME TypeOK, ConflictsOK, DashboardsOK, UNCHANGED <<phase, work>>,
         queue \subseteq queue', dashboard \subseteq dashboard',
         \A p \in Charts : (phc'[p] = phc[p] /\ (p \in fresh' => p \in fresh))
                             \/ p \notin fresh' \/ p \in queue'
  PROVE  ConflictsOK' /\ DashboardsOK'
<1>1. ASSUME NEW p \in Managed
      PROVE  ToBeHandled(p)' \/ (phc'[p] = phc[p] /\ (ToBeHandled(p) => ToBeHandled(p)')
                                   /\ (SteppingBack(p) => SteppingBack(p)'))
  BY PCAssumption DEF ToBeHandled, SteppingBack, Telling
<1>2. ASSUME NEW p \in Managed, NEW q \in Managed, Rivals(p, q),
             Deploying(phc'[p]), Deploying(phc'[q])
      PROVE  SteppingBack(p)' \/ SteppingBack(q)'
  <2>1. CASE ToBeHandled(p)' \/ ToBeHandled(q)'
    BY <2>1 DEF SteppingBack
  <2>2. CASE ~ToBeHandled(p)' /\ ~ToBeHandled(q)'
    <3>1. phc'[p] = phc[p] /\ phc'[q] = phc[q]
          /\ (SteppingBack(p) => SteppingBack(p)') /\ (SteppingBack(q) => SteppingBack(q)')
      BY <1>1, <2>2
    <3> QED BY <1>2, <3>1 DEF ConflictsOK
  <2> QED BY <2>1, <2>2
<1>3. ASSUME NEW p \in Managed PROVE DashboardOK(p)'
  BY <1>1, <1>3 DEF DashboardsOK, DashboardOK, Telling
<1>4. ConflictsOK'
  BY <1>2 DEF ConflictsOK, Rivals, Deploying
<1> QED BY <1>3, <1>4 DEF DashboardsOK

\* A step that is no worker's preserves ConflictsOK and DashboardsOK.
LEMMA TellingOther ==
  ASSUME TypeOK, ChartsOK, ConflictsOK, DashboardsOK,
         Observes \/ Resyncs \/ Starts \/ Crashes \/ Users
           \/ \E r \in Releases : Installs(r) \/ Uninstalls(r)
  PROVE  ConflictsOK' /\ DashboardsOK'
<1>1. ASSUME NEW S, Enqueue(S) PROVE queue \subseteq queue'
  BY <1>1 DEF Enqueue
<1>2. ASSUME NEW r \in Releases, Installs(r) PROVE ConflictsOK' /\ DashboardsOK'
  BY <1>1, <1>2, TellingFrame DEF Installs, caches
<1>3. ASSUME NEW p \in Charts, ChangesTargets(p) PROVE ConflictsOK' /\ DashboardsOK'
  <2>1. queue \subseteq queue'
    BY <1>1, <1>3 DEF ChangesTargets
  <2> QED BY <1>3, <2>1, TellingFrame DEF ChangesTargets, caches
<1>4. ASSUME NEW r \in Releases, DeletesNamespace(r) \/ DeletesHelm(r)
      PROVE  ConflictsOK' /\ DashboardsOK'
  BY <1>4, TellingFrame DEF DeletesNamespace, DeletesHelm, caches
<1>5. ASSUME NEW p \in Charts, NEW op, NEW c, UserStores(op, p, c)
      PROVE  ConflictsOK' /\ DashboardsOK'
  <2>1. \A q \in Charts : (phc'[q] = phc[q] /\ (q \in fresh' => q \in fresh)) \/ q \notin fresh'
    BY <1>5 DEF UserStores, Store, TypeOK
  <2>2. UNCHANGED <<phase, work, queue, dashboard>>
    BY <1>5 DEF UserStores
  <2> QED BY <2>1, <2>2, TellingFrame
<1>6. ASSUME NEW p \in Charts, Creates(p) \/ Deletes(p) \/ Labels(p)
      PROVE  ConflictsOK' /\ DashboardsOK'
  BY <1>5, <1>6 DEF Creates, Deletes, Labels
<1>7. CASE Resyncs
  <2>1. queue \subseteq queue'
    BY <1>7 DEF Resyncs, Quiet
  <2> QED BY <1>7, <2>1, TellingFrame DEF Resyncs, server, caches
<1>8. ASSUME NEW r \in Releases, ObservesHelm(r) \/ ObservesNamespace(r)
      PROVE  ConflictsOK' /\ DashboardsOK'
  <2>1. queue \subseteq queue'
    BY <1>8 DEF ObservesHelm, ObservesNamespace
  <2> QED BY <1>8, <2>1, TellingFrame DEF ObservesHelm, ObservesNamespace, server
<1>9. ASSUME NEW p \in Charts, ObservesChart(p) PROVE ConflictsOK' /\ DashboardsOK'
  <2>1. \A q \in Charts : (phc'[q] = phc[q] /\ (q \in fresh' => q \in fresh)) \/ q \in queue'
    BY <1>9 DEF ObservesChart, server
  <2> QED BY <1>9, <2>1, TellingFrame DEF ObservesChart, server
<1>10. ASSUME NEW r \in Releases, Uninstalls(r) PROVE ConflictsOK' /\ DashboardsOK'
  <2>1. queue \subseteq queue' /\ UNCHANGED <<phc, fresh, phase, work, cache>>
    BY <1>1, <1>10 DEF Uninstalls, caches
  <2>2. ConflictsOK'
    BY <2>1 DEF ConflictsOK, SteppingBack, ToBeHandled, Telling, Deploying
  <2>3. ASSUME NEW p \in Managed PROVE DashboardOK(p)'
    <3>1. DashboardOK(p) /\ p \in Charts
      BY PCAssumption DEF DashboardsOK
    <3>2. ToBeHandled(p) => ToBeHandled(p)'
      BY <2>1 DEF ToBeHandled
    <3>3. CASE ReleaseOf[p] # r
      <4>1. ReleaseOf[p] \in dashboard' <=> ReleaseOf[p] \in dashboard
        BY <1>10, <3>3 DEF Uninstalls
      <4> QED BY <2>1, <3>1, <3>2, <4>1 DEF DashboardOK, Telling
    <3>4. CASE ReleaseOf[p] = r /\ ~ToBeHandled(p)
      <4>1. phase = "up" /\ cache[p] = phc[p]
        BY <3>1, <3>4 DEF ToBeHandled, ChartsOK, CopyOK, TypeOK
      <4>2. phc[p].phase = "Live" => p \in ByReleaseName(r)
        BY <3>1, <3>4, <4>1 DEF ByReleaseName, ShouldManage
      <4>3. phc[p].phase = "Live" => p \in queue'
        BY <1>10, <4>1, <4>2 DEF Uninstalls, Enqueue
      <4> QED BY <2>1, <4>3 DEF DashboardOK, ToBeHandled
    <3>5. CASE ToBeHandled(p)
      BY <3>2, <3>5 DEF DashboardOK
    <3> QED BY <3>3, <3>4, <3>5
  <2> QED BY <2>2, <2>3 DEF DashboardsOK
<1>11. CASE Starts
  <2>1. ASSUME NEW p \in Managed, phc'[p].phase = "Live" PROVE ToBeHandled(p)'
    BY <1>11, <2>1, PCAssumption DEF Starts, ToBeHandled
  <2> QED BY <2>1 DEF ConflictsOK, DashboardsOK, DashboardOK, SteppingBack, Deploying
<1>12. CASE Crashes
  <2>1. \A p \in Managed : ToBeHandled(p)'
    BY <1>12 DEF Crashes, ToBeHandled
  <2> QED BY <2>1 DEF ConflictsOK, DashboardsOK, DashboardOK, SteppingBack
<1> QED BY <1>2, <1>3, <1>4, <1>6, <1>7, <1>8, <1>9, <1>10, <1>11, <1>12 DEF Observes, Users

-----------------------------------------------------------------------------
(* The invariant and what follows from it when nothing is left to do *)

\* The invariant holds initially.
LEMMA Initially == Init => IInv
<1> SUFFICES ASSUME Init PROVE IInv
  OBVIOUS
<1>1. ASSUME NEW p \in Charts
      PROVE  /\ phase = "down" /\ fresh = {} /\ held = {} /\ work[p] = Idle
             /\ cache[p] = Gone /\ phc[p].phase # "Deleting"
  <2>1. New.phase = "Live" /\ Gone.phase = "Absent"
    BY DEF New, Gone
  <2>2. phc[p] \in {Gone, New}
    BY <1>1 DEF Init
  <2>3. phase = "down" /\ fresh = {} /\ held = {} /\ work[p] = Idle /\ cache[p] = Gone
    BY <1>1 DEF Init
  <2> QED BY <2>1, <2>2, <2>3
<1>2. ASSUME NEW p \in Charts PROVE CopyOK(p) /\ FinalizerOK(p) /\ DeployerOK(p)
  BY <1>1, <1>2, IdleIs DEF CopyOK, FinalizerOK, DeployerOK, Telling
<1>3. ChartsOK
  BY <1>1, <1>2 DEF ChartsOK, ProcessOK, Init
<1>4. OwnersOK
  BY PCAssumption DEF OwnersOK, OwnerOK, Init
<1>5. \A p \in Charts : ToBeHandled(p)
  BY DEF Init, ToBeHandled
<1>6. ConflictsOK /\ DashboardsOK
  BY <1>5, PCAssumption DEF ConflictsOK, DashboardsOK, DashboardOK, SteppingBack
<1> QED BY <1>3, <1>4, <1>6 DEF IInv

\* Every step preserves the invariant.
LEMMA Inductive == TypeOK /\ IInv /\ [Next]_vars => IInv'
<1> SUFFICES ASSUME TypeOK, IInv, [Next]_vars PROVE IInv'
  OBVIOUS
<1> USE DEF IInv
<1>1. ASSUME NEW p \in Charts, Works(p) PROVE IInv'
  BY <1>1, ChartsWork, OwnersWork, ConflictsWork, DashboardsWork
<1>2. CASE Observes \/ Resyncs \/ Starts \/ Crashes
  BY <1>2, ChartsOther, OwnersOther, TellingOther
<1>3. CASE Users \/ \E r \in Releases : Installs(r) \/ Uninstalls(r)
  BY <1>3, ChartsOutside, OwnersOther, TellingOther
<1>4. CASE UNCHANGED vars
  <2>1. UNCHANGED <<phc, helm, dashboard, phase, cache, fresh, helmView, queue, work, held>>
    BY <1>4 DEF vars, server, caches
  <2>2. ChartsOK'
    BY <2>1, ChartsFrame
  <2>3. OwnersOK'
    BY <2>1, OwnersFrame
  <2>4. ConflictsOK' /\ DashboardsOK'
    BY <2>1, TellingFrame
  <2> QED BY <2>2, <2>3, <2>4
<1> QED BY <1>1, <1>2, <1>3, <1>4 DEF Next

\* In every state, whoever owns or claims a release wrongly has work to come that will end
\* it: an outdated copy, a queued key, or a worker that is about to write (controller.go:192-394).
THEOREM InvariantHolds == Spec => []IInv
<1> QED BY Initially, Inductive, PCTypeCorrect, PTL DEF Spec

\* When nothing is left to do no work is to come.
LEMMA QuietMeans ==
  ASSUME Quiet, NEW p \in Charts
  PROVE  ~ToBeHandled(p) /\ ~Telling(p) /\ work[p].pc = "idle" /\ helmView = helm
BY IdleIs DEF Quiet, ToBeHandled, Telling

\* Hence the owner of a release deploys it.
LEMMA OwnerDeploys ==
  ASSUME TypeOK, IInv, Quiet, NEW r \in Releases, helm[r] # None
  PROVE  helm[r] \in Managed /\ ReleaseOf[helm[r]] = r
         /\ Deploying(phc[helm[r]]) /\ ~phc[helm[r]].cleanup
<1>1. helm[r] \in Charts
  BY DEF TypeOK
<1>2. OwnerOK(r, helm[r])
  BY <1>1 DEF IInv, OwnersOK
<1> QED BY <1>1, <1>2, QuietMeans DEF OwnerOK, Leaving

\* Hence of two rivals one has stepped back.
LEMMA OneOfRivals ==
  ASSUME IInv, Quiet, NEW p \in Managed, NEW q \in Managed, Rivals(p, q)
  PROVE  ~(Deploying(phc[p]) /\ Deploying(phc[q]))
<1>1. ~SteppingBack(p) /\ ~SteppingBack(q)
  BY QuietMeans, PCAssumption DEF SteppingBack
<1> QED BY <1>1 DEF IInv, ConflictsOK

\* When nothing is left to do, every HelmChart and HelmRelease belongs to a
\* ProjectHelmChart that deploys it, for any number of ProjectHelmCharts that were
\* deleted, labelled or in conflict, and of crashes (controller.go:199-359).
THEOREM NothingLeftBehind == Spec => []NoReleaseLeftBehind
<1>1. TypeOK /\ IInv => NoReleaseLeftBehind
  BY OwnerDeploys DEF NoReleaseLeftBehind
<1> QED BY <1>1, PCTypeCorrect, InvariantHolds, PTL

\* When nothing is left to do, of the ProjectHelmCharts of a release one deploys it,
\* even if they were processed at once (controller.go:232-253).
THEOREM AtMostOneDeploys == Spec => []OneDeploys
<1>1. IInv => OneDeploys
  BY OneOfRivals DEF OneDeploys, Rivals
<1> QED BY <1>1, InvariantHolds, PTL

\* When nothing is left to do, Deployed is said by the ProjectHelmChart that owns the
\* release (status.go:66-69).
THEOREM DeployedIsTrue == Spec => []DeployedIsBacked
<1>1. ASSUME TypeOK, IInv, Quiet, \A r \in Releases : r \in dashboard <=> CanInstall(r),
             NEW p \in Managed, phc[p].phase = "Live", phc[p].status = "Deployed"
      PROVE  helm[ReleaseOf[p]] = p
  <2> DEFINE r == ReleaseOf[p]
             q == helm[r]
  <2>1. p \in Charts /\ r \in Releases /\ DashboardOK(p)
    BY <1>1, PCAssumption DEF IInv, DashboardsOK
  <2>2. r \in dashboard
    BY <1>1, <2>1, QuietMeans DEF DashboardOK
  <2>3. q # None
    BY <1>1, <2>1, <2>2 DEF CanInstall
  <2>4. q \in Managed /\ ReleaseOf[q] = r /\ Deploying(phc[q])
    BY <1>1, <2>1, <2>3, OwnerDeploys
  <2>5. Deploying(phc[p])
    BY <1>1 DEF Deploying, Deploys
  <2> QED BY <1>1, <2>4, <2>5, OneOfRivals DEF Rivals
<1>2. TypeOK /\ IInv => DeployedIsBacked
  BY <1>1 DEF DeployedIsBacked
<1> QED BY <1>2, PCTypeCorrect, InvariantHolds, PTL
=============================================================================
