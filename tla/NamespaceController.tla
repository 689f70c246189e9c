------------------------- MODULE NamespaceController -------------------------
(***************************************************************************)
(* The namespace controller of the Helm Project Operator                   *)
(* (internal/helm-project-operator/controllers/namespace) with a project   *)
(* label: it keeps one registration namespace, with a ConfigMap, for every *)
(* project that some namespace is labelled with, and a tracker of them.    *)
(*                                                                         *)
(* The process starts from a list of the namespaces, handles each of them  *)
(* (Register, before any cache runs), waits for the tracker and then serves*)
(* the events of the caches.  Every apply goes through an applyinator,     *)
(* which is taken here as its specification Applier.                       *)
(*                                                                         *)
(* A copy of an object is up to date or it is not (its resourceVersion);   *)
(* a cache that is behind catches up in one step.                          *)
(***************************************************************************)
EXTENDS Naturals, FiniteSets

CONSTANTS Projects,       \* project IDs; also the names of their registration namespaces
          LongProjects,   \* those whose registration namespace has a name above 63 characters
          Namespaces,     \* the other namespaces
          SystemNamespaces, \* opts.SystemNamespaces
          None,           \* no label
          System,         \* the project ID of the system project
          Empty,          \* the empty label
          HasReleaseLabel,\* opts.ProjectReleaseLabelValue is not empty
          MaxAttempts,    \* steps of retry.DefaultRetry (5 in client-go)
          MaxChanges,     \* bound: what users do to namespaces and ConfigMaps
          MaxFaults       \* bound: failed calls, crashes, waits that were too short

ASSUME NCAssumption ==
  /\ LongProjects \subseteq Projects
  /\ Projects \cap Namespaces = {}
  /\ SystemNamespaces \subseteq Namespaces
  /\ {None, System, Empty, "Untracked"} \cap Projects = {}
  /\ HasReleaseLabel \in BOOLEAN
  /\ MaxAttempts \in Nat \ {0}
  /\ MaxChanges \in Nat /\ MaxFaults \in Nat

VARIABLES
  obj,         \* the namespaces in the API server
  config,      \* the ConfigMap of each registration namespace in the API server
  phase,       \* "down", "init" (Register runs) or "up" (the caches run)
  view,        \* the copies the process works from: the list, then the cache
  fresh,       \* the names whose copy in view is up to date
  todo,        \* the listed namespaces Register has not handled yet
  attempts,    \* failed attempts at the one that Register handles
  initList,    \* projectRegistrationNamespaceInitializationList
  tracker,     \* projectRegistrationNamespaceTracker: the label of what is tracked
  queue,       \* keys in the work queue of the namespace controller
  work,        \* what each running handler is about to do, and its copy
  held,        \* the names whose handler has a copy that is up to date
  run,         \* what each running apply function is about to do
  pending,     \* Applier: projects waiting for an apply
  retrying,    \* Applier: projects waiting for a retry
  closed,      \* Applier: it does not run
  configView,  \* the cache of the ConfigMaps
  configEvents,\* ConfigMaps whose change the cache has not delivered yet
  charts,      \* projects whose ProjectHelmCharts were enqueued since the caches run
  changes, faults, \* what is used up of the bounds
  relabelled   \* history: the registration namespaces users gave to the system's project

server == <<obj, config>>
handling == <<todo, attempts, initList, queue, work, held>>
requests == <<pending, retrying, closed>>
applying == <<run, requests>>
caches == <<configView, configEvents>>
budget == <<changes, faults, relabelled>>
vars == <<server, phase, view, fresh, handling, tracker, applying, caches, charts, budget>>

Names == Projects \cup Namespaces
Labels == Projects \cup {None, System}
Untracked == "Untracked"

Object == [phase: {"Absent", "Active", "Terminating"}, project: Labels,
           helm: Projects \cup {None, Empty}, orphaned: BOOLEAN]

Gone == [phase |-> "Absent", project |-> None, helm |-> None, orphaned |-> FALSE]

User(label) == [Gone EXCEPT !.phase = "Active", !.project = label]

\* getProjectRegistrationNamespace
Registration(p, isOrphaned) ==
  [phase |-> "Active", project |-> p, helm |-> p, orphaned |-> isOrphaned]

Idle == [pc |-> "idle"]

Running == {p \in Projects : run[p] # Idle}

\* The applyinator; it is shut down when the process ends.
A == INSTANCE Applier WITH Keys <- Projects, running <- Running

Init ==
  /\ obj \in {o \in [Names -> {Gone} \cup {User(l) : l \in Labels}] :
                \A p \in Projects : o[p] = Gone}
  /\ config = [p \in Projects |-> "Absent"]
  /\ phase = "down"
  /\ view = [n \in Names |-> Gone]
  /\ fresh = {} /\ held = {} /\ todo = {} /\ initList = {} /\ queue = {}
  /\ attempts = 0
  /\ tracker = [p \in Projects |-> Untracked]
  /\ work = [n \in Names |-> Idle]
  /\ run = [p \in Projects |-> Idle]
  /\ pending = {} /\ retrying = {} /\ closed = TRUE
  /\ configView = [p \in Projects |-> "Absent"]
  /\ configEvents = {} /\ charts = {}
  /\ changes = 0 /\ faults = 0 /\ relabelled = {}

-----------------------------------------------------------------------------
(* The API server and the caches *)

Changed(n, o) == IF o = obj[n] THEN {} ELSE {n}

\* An object is stored: if that changes it, the copies of it are outdated.
Store(n, o) ==
  /\ obj' = [obj EXCEPT ![n] = o]
  /\ fresh' = fresh \ Changed(n, o)
  /\ held' = held \ Changed(n, o)

StoreConfig(p, c) ==
  /\ config' = [config EXCEPT ![p] = c]
  /\ configEvents' = IF phase = "up" /\ c # config[p] THEN configEvents \cup {p} ELSE configEvents

Tracked(n) == n \in Projects /\ tracker[n] # Untracked

\* isSystemNamespace
IsSystem(n, o) == n \in SystemNamespaces \/ o.project = System

\* NamespacesByProjectExcludingRegistrationID; empty before the cache runs.
\* Registration namespaces are excluded by a label they all carry.
Index(label) ==
  {n \in Namespaces : /\ phase = "up"
                      /\ view[n].phase # "Absent"
                      /\ ~IsSystem(n, view[n])
                      /\ view[n].project = label}

-----------------------------------------------------------------------------
(* The process *)

\* The process ends and loses all it has in memory.
Exit ==
  /\ phase' = "down"
  /\ view' = [n \in Names |-> Gone]
  /\ fresh' = {} /\ held' = {} /\ todo' = {} /\ initList' = {} /\ queue' = {}
  /\ attempts' = 0
  /\ tracker' = [p \in Projects |-> Untracked]
  /\ work' = [n \in Names |-> Idle]
  /\ run' = [p \in Projects |-> Idle]
  /\ pending' = {} /\ retrying' = {} /\ closed' = TRUE
  /\ configView' = [p \in Projects |-> "Absent"]
  /\ configEvents' = {} /\ charts' = {}
  /\ UNCHANGED server

Fault == faults < MaxFaults /\ faults' = faults + 1 /\ UNCHANGED <<changes, relabelled>>

Crash == phase # "down" /\ Fault /\ Exit

\* initProjectRegistrationNamespaces: every namespace is listed ...
Starts ==
  /\ phase = "down"
  /\ phase' = "init"
  /\ view' = obj
  /\ fresh' = Names
  /\ todo' = {n \in Names : obj[n].phase # "Absent"}
  /\ closed' = FALSE
  /\ UNCHANGED <<server, attempts, initList, tracker, queue, work, held, run, pending, retrying,
                 caches, charts, budget>>

\* Mutant: what is missing in the tracker is not looked for.
MatchesWithMissing == {p \in Projects : Tracked(p)} \subseteq initList

\* ... and once each is handled, the tracker is compared with the list.
Matches == initList = {p \in Projects : Tracked(p)}

Initialised == phase = "init" /\ todo = {}

\* Register returns, the caches fill and every key is queued.
Serves ==
  /\ Initialised /\ Matches
  /\ phase' = "up"
  /\ view' = obj
  /\ fresh' = Names
  /\ queue' = queue \cup {n \in Names : obj[n].phase # "Absent"}
  /\ configView' = config
  /\ configEvents' = {p \in Projects : config[p] # "Absent"}
  /\ UNCHANGED <<server, todo, attempts, initList, tracker, work, held, applying, charts, budget>>

\* The retries of the comparison are used up and the process exits.
GivesUp ==
  /\ Initialised /\ ~Matches
  /\ pending = {} /\ retrying = {} /\ Running = {}
  /\ Exit
  /\ UNCHANGED budget

\* The workers were slower than all these retries.
GivesUpEarly == Initialised /\ ~Matches /\ Fault /\ Exit

-----------------------------------------------------------------------------
(* OnMultiNamespaceChange *)

\* A worker takes a key; Register takes one namespace after the other.
MayHandle(n) ==
  /\ work[n] = Idle
  /\ \/ phase = "up" /\ n \in queue
     \/ phase = "init" /\ n \in todo /\ \A m \in Names : work[m] = Idle

Ends(n) ==
  /\ work' = [work EXCEPT ![n] = Idle]
  /\ todo' = todo \ {n}
  /\ attempts' = 0

\* Mutant: one attempt too many.
ErrsOnceMore(n, isConflict) ==
  \/ /\ phase = "up"
     /\ queue' = queue \cup {n}
     /\ work' = [work EXCEPT ![n] = Idle]
     /\ held' = held \ {n}
     /\ UNCHANGED <<server, phase, view, fresh, todo, attempts, initList, tracker, applying,
                    caches, charts>>
  \/ /\ phase = "init" /\ isConflict /\ attempts < MaxAttempts
     /\ attempts' = attempts + 1
     /\ work' = [work EXCEPT ![n] = Idle]
     /\ held' = held \ {n}
     /\ UNCHANGED <<server, phase, view, fresh, todo, initList, tracker, queue, applying,
                    caches, charts>>
  \/ /\ phase = "init" /\ ~isConflict
     /\ Exit

\* The handler returns an error: the key is queued again.  Register handles
\* the copy it has once more after a conflict, and the process exits otherwise.
Errs(n, isConflict) ==
  \/ /\ phase = "up"
     /\ queue' = queue \cup {n}
     /\ work' = [work EXCEPT ![n] = Idle]
     /\ held' = held \ {n}
     /\ UNCHANGED <<server, phase, view, fresh, todo, attempts, initList, tracker, applying,
                    caches, charts>>
  \/ /\ phase = "init" /\ isConflict /\ attempts + 1 < MaxAttempts
     /\ attempts' = attempts + 1
     /\ work' = [work EXCEPT ![n] = Idle]
     /\ held' = held \ {n}
     /\ UNCHANGED <<server, phase, view, fresh, todo, initList, tracker, queue, applying,
                    caches, charts>>
  \/ /\ phase = "init"
     /\ ~isConflict \/ attempts + 1 >= MaxAttempts
     /\ Exit

\* No object, or a namespace of the system.
HandlesNothing(n) ==
  /\ MayHandle(n)
  /\ ~Tracked(n) => IsSystem(n, view[n]) \/ view[n].phase = "Absent"
  /\ Tracked(n) => view[n].phase = "Absent"
  /\ Ends(n)
  /\ queue' = queue \ {n}
  /\ UNCHANGED <<server, phase, view, fresh, initList, tracker, held, applying, caches,
                 charts, budget>>

\* enqueueProjectNamespaces, for the project of the tracked copy.
HandlesRegistration(p) ==
  /\ MayHandle(p) /\ Tracked(p) /\ view[p].phase # "Absent" /\ tracker[p] # None
  /\ queue' = (queue \ {p}) \cup Index(tracker[p])
  /\ IF view[p].phase = "Terminating"
     THEN work' = [work EXCEPT ![p] = [pc |-> "untrack"]] /\ UNCHANGED <<todo, attempts>>
     ELSE Ends(p)
  /\ UNCHANGED <<server, phase, view, fresh, initList, tracker, held, applying, caches,
                 charts, budget>>

\* The tracked copy has no project label.
FailsRegistration(p) ==
  /\ MayHandle(p) /\ Tracked(p) /\ view[p].phase # "Absent" /\ tracker[p] = None
  /\ Errs(p, FALSE)
  /\ UNCHANGED budget

\* Then a registration namespace that is being deleted leaves the tracker.
Untracks(p) ==
  /\ work[p].pc = "untrack"
  /\ tracker' = [tracker EXCEPT ![p] = Untracked]
  /\ Ends(p)
  /\ UNCHANGED <<server, phase, view, fresh, initList, queue, held, applying, caches, charts,
                 budget>>

\* Mutant: a project is put on the list only while the process starts.
RequestsUnlisted(label) ==
  IF label \in Projects
  THEN /\ initList' = IF phase = "init" THEN initList \cup {label} ELSE initList
       /\ UNCHANGED run
       /\ A!Request(label)
  ELSE UNCHANGED <<initList, applying>>

\* Mutant: nothing is requested for a project that is on the list.
RequestsOnce(label) ==
  IF label \in Projects \ initList
  THEN initList' = initList \cup {label} /\ UNCHANGED run /\ A!Request(label)
  ELSE UNCHANGED <<initList, applying>>

\* applyProjectRegistrationNamespaceForNamespace, once the label is right.
Requests(label) ==
  IF label \in Projects
  THEN initList' = initList \cup {label} /\ UNCHANGED run /\ A!Request(label)
  ELSE UNCHANGED <<initList, applying>>

\* updateNamespaceWithHelmOperatorProjectLabel has to call the API server.
NeedsUpdate(o) ==
  /\ o.phase = "Active"
  /\ HasReleaseLabel
  /\ o.project = None => o.helm # None

IsRegular(n) ==
  MayHandle(n) /\ view[n].phase # "Absent" /\ ~Tracked(n) /\ ~IsSystem(n, view[n])

\* applyProjectRegistrationNamespaceForNamespace of a namespace that needs no update.
HandlesRegular(n) ==
  /\ IsRegular(n) /\ ~NeedsUpdate(view[n])
  /\ Requests(view[n].project)
  /\ Ends(n)
  /\ queue' = queue \ {n}
  /\ UNCHANGED <<server, phase, view, fresh, tracker, held, caches, charts, budget>>

\* One that does: the copy the handler works on may become outdated.
StartsUpdate(n) ==
  /\ IsRegular(n) /\ NeedsUpdate(view[n])
  /\ work' = [work EXCEPT ![n] = [pc |-> "update", label |-> view[n].project]]
  /\ held' = IF n \in fresh THEN held \cup {n} ELSE held \ {n}
  /\ queue' = queue \ {n}
  /\ UNCHANGED <<server, phase, view, fresh, todo, attempts, initList, tracker, applying,
                 caches, charts, budget>>

\* Mutant: a patch, which an outdated copy does not keep from being stored.
PatchesLabel(n) ==
  /\ work[n].pc = "update" /\ work[n].label \in Projects
  /\ obj[n].phase # "Absent"
  /\ LET o == [obj[n] EXCEPT !.helm = work[n].label] IN
     /\ obj' = [obj EXCEPT ![n] = o]
     /\ fresh' = fresh \ Changed(n, o)
  /\ held' = held \ {n}
  /\ Requests(work[n].label)
  /\ Ends(n)
  /\ UNCHANGED <<config, phase, view, tracker, queue, caches, charts, budget>>

\* Of a namespace in a project: its label is set to the project.
SetsLabel(n) ==
  /\ work[n].pc = "update" /\ work[n].label \in Projects
  /\ n \in held
  /\ LET o == [obj[n] EXCEPT !.helm = work[n].label] IN
     /\ obj' = [obj EXCEPT ![n] = o]
     /\ fresh' = fresh \ Changed(n, o)
  /\ held' = held \ {n}
  /\ Requests(work[n].label)
  /\ Ends(n)
  /\ UNCHANGED <<config, phase, view, tracker, queue, caches, charts, budget>>

\* Of one in no project: the label is removed.  Then the first copy is written
\* too, with an empty label; the removal has just made it outdated.
RemovesLabel(n) ==
  /\ work[n].pc = "update" /\ work[n].label = None
  /\ n \in held
  /\ Store(n, [obj[n] EXCEPT !.helm = None])
  /\ work' = [work EXCEPT ![n].pc = "again"]
  /\ UNCHANGED <<config, phase, view, todo, attempts, initList, tracker, queue, applying,
                 caches, charts, budget>>

\* The API server refuses the update of an outdated copy.
Conflicts(n) ==
  /\ work[n].pc \in {"update", "again"}
  /\ n \notin held
  /\ Errs(n, obj[n].phase # "Absent")
  /\ UNCHANGED budget

UpdateFails(n) ==
  /\ work[n].pc \in {"update", "again"}
  /\ Fault
  /\ Errs(n, FALSE)

-----------------------------------------------------------------------------
(* applyProjectRegistrationNamespace, run by the applyinator *)

Goes(p, step) == run' = [run EXCEPT ![p] = step]

Returns(p) == Goes(p, Idle)

\* Whether the project is orphaned is read from the index.
ApplyBegins(p) ==
  /\ LET live == {n \in Index(p) : view[n].phase = "Active"} IN
     Goes(p, [pc |-> "apply", orphaned |-> live = {}])
  /\ A!Begin(p)
  /\ UNCHANGED <<server, phase, view, fresh, handling, tracker, caches, charts, budget>>

\* The name would be too long.
ApplySkips(p) ==
  /\ run[p].pc = "apply" /\ p \in LongProjects
  /\ Returns(p)
  /\ A!Succeed(p)
  /\ UNCHANGED <<server, phase, view, fresh, handling, tracker, caches, charts, budget>>

\* What apply compares with: the cached copy, or the stored one when there is none.
Known(p) == IF phase = "up" /\ view[p].phase # "Absent" THEN view[p] ELSE obj[p]

\* Mutant: a namespace that exists is left as it is.
CreatesRegistration(p) ==
  /\ run[p].pc = "apply" /\ p \notin LongProjects
  /\ IF Known(p).phase = "Absent"
     THEN Store(p, Registration(p, run[p].orphaned))
     ELSE UNCHANGED <<obj, fresh, held>>
  /\ Goes(p, [pc |-> "get"])
  /\ UNCHANGED <<config, phase, view, todo, attempts, initList, queue, work, tracker, requests,
                 caches, charts, budget>>

\* A patch has what is to be changed in known; nothing else is written.
Patched(o, known, wanted) ==
  [o EXCEPT !.project = IF known.project = wanted.project THEN @ ELSE wanted.project,
            !.helm = IF known.helm = wanted.helm THEN @ ELSE wanted.helm,
            !.orphaned = IF known.orphaned = wanted.orphaned THEN @ ELSE wanted.orphaned]

\* namespaceApply.ApplyObjects creates the namespace, patches it or leaves it.
ApplyRegistration(p) ==
  /\ run[p].pc = "apply" /\ p \notin LongProjects
  /\ LET wanted == Registration(p, run[p].orphaned)
         known  == Known(p) IN
     \/ /\ known.phase = "Absent"
        /\ Store(p, wanted)
     \/ /\ known.phase # "Absent"
        /\ [known EXCEPT !.phase = "Active"] = wanted
        /\ UNCHANGED <<obj, fresh, held>>
     \/ /\ known.phase # "Absent" /\ obj[p].phase # "Absent"
        /\ [known EXCEPT !.phase = "Active"] # wanted
        /\ Store(p, Patched(obj[p], known, wanted))
  /\ Goes(p, [pc |-> "get"])
  /\ UNCHANGED <<config, phase, view, todo, attempts, initList, queue, work, tracker, requests,
                 caches, charts, budget>>

\* namespaces.Get
ApplyGets(p) ==
  /\ run[p].pc = "get" /\ obj[p].phase # "Absent"
  /\ Goes(p, [pc |-> "track", label |-> obj[p].project,
              terminating |-> obj[p].phase = "Terminating"])
  /\ UNCHANGED <<server, phase, view, fresh, handling, tracker, requests, caches,
                 charts, budget>>

\* The namespace is tracked as it was read; one that is being deleted gets no more.
ApplyTracks(p) ==
  /\ run[p].pc = "track"
  /\ tracker' = [tracker EXCEPT ![p] = run[p].label]
  /\ IF run[p].terminating
     THEN Returns(p) /\ A!Succeed(p)
     ELSE Goes(p, [pc |-> "config"]) /\ UNCHANGED requests
  /\ UNCHANGED <<server, phase, view, fresh, handling, caches, charts, budget>>

\* enqueueProjectHelmChartsForNamespace lists them in a cache, and the function returns.
Completes(p) ==
  /\ Returns(p)
  /\ charts' = IF phase = "up" THEN charts \cup {p} ELSE charts
  /\ A!Succeed(p)

KnownConfig(p) ==
  IF phase = "up" /\ configView[p] # "Absent" THEN configView[p] ELSE config[p]

\* The ConfigMap is created when there is none ...
ApplyCreatesConfig(p) ==
  /\ \/ run[p].pc = "config" /\ KnownConfig(p) = "Absent"
     \/ run[p].pc = "create" /\ config[p] = "Absent"
  /\ obj[p].phase = "Active"
  /\ StoreConfig(p, "Ours")
  /\ Completes(p)
  /\ UNCHANGED <<obj, phase, view, fresh, handling, tracker, configView, budget>>

\* ... left when it is as wanted ...
ApplyLeavesConfig(p) ==
  /\ run[p].pc = "config" /\ KnownConfig(p) = "Ours"
  /\ Completes(p)
  /\ UNCHANGED <<server, phase, view, fresh, handling, tracker, caches, budget>>

\* ... and else deleted, to be created anew (deleteAndReplace).
ApplyDeletesConfig(p) ==
  /\ run[p].pc = "config" /\ KnownConfig(p) = "Foreign" /\ config[p] # "Absent"
  /\ StoreConfig(p, "Absent")
  /\ Goes(p, [pc |-> "create"])
  /\ UNCHANGED <<obj, phase, view, fresh, handling, tracker, requests, configView,
                 charts, budget>>

\* The call of this step is refused, as things are in the API server.
Refused(p) ==
  \/ /\ run[p].pc = "apply" /\ p \notin LongProjects
     /\ Known(p).phase # "Absent" /\ obj[p].phase = "Absent"
     /\ [Known(p) EXCEPT !.phase = "Active"] # Registration(p, run[p].orphaned)
  \/ run[p].pc = "get" /\ obj[p].phase = "Absent"
  \/ run[p].pc = "config" /\ KnownConfig(p) = "Absent" /\ obj[p].phase # "Active"
  \/ run[p].pc = "config" /\ KnownConfig(p) = "Foreign" /\ config[p] = "Absent"
  \/ run[p].pc = "create" /\ (config[p] # "Absent" \/ obj[p].phase # "Active")

\* It returns an error and is retried.
ApplyErrs(p) ==
  /\ Returns(p)
  /\ A!Fail(p)
  /\ UNCHANGED <<server, phase, view, fresh, handling, tracker, caches, charts>>

ApplyIsRefused(p) == Refused(p) /\ ApplyErrs(p) /\ UNCHANGED budget

ApplyFails(p) ==
  /\ run[p] # Idle /\ p \notin LongProjects
  /\ run[p].pc # "track"
  /\ Fault
  /\ ApplyErrs(p)

ApplyRetries(p) ==
  /\ UNCHANGED run
  /\ A!Retry(p)
  /\ UNCHANGED <<server, phase, view, fresh, handling, tracker, caches, charts, budget>>

-----------------------------------------------------------------------------
(* The caches *)

Delivers(n) ==
  /\ phase = "up" /\ n \notin fresh
  /\ view' = [view EXCEPT ![n] = obj[n]]
  /\ fresh' = fresh \cup {n}
  /\ queue' = queue \cup {n}
  /\ UNCHANGED <<server, phase, todo, attempts, initList, tracker, work, held, applying, caches,
                 charts, budget>>

\* resolveProjectRegistrationNamespaceData
ResolvesConfig(p) ==
  /\ p \in configEvents
  /\ configEvents' = configEvents \ {p}
  /\ configView' = [configView EXCEPT ![p] = config[p]]
  /\ queue' = IF Tracked(p) THEN queue \cup {p} ELSE queue
  /\ UNCHANGED <<server, phase, view, fresh, todo, attempts, initList, tracker, work, held,
                 applying, charts, budget>>

\* Every ten hours the caches deliver what they have again.
Resyncs(n) ==
  /\ phase = "up" /\ view[n].phase # "Absent" /\ n \notin queue
  /\ queue' = queue \cup {n}
  /\ UNCHANGED <<server, phase, view, fresh, todo, attempts, initList, tracker, work, held,
                 applying, caches, charts, budget>>

-----------------------------------------------------------------------------
(* The users and Kubernetes *)

UserStores(n, o) ==
  /\ Store(n, o)
  /\ UNCHANGED <<config, phase, view, todo, attempts, initList, tracker, queue, work, applying,
                 caches, charts>>

MayChange == changes < MaxChanges /\ changes' = changes + 1 /\ UNCHANGED faults

Change == MayChange /\ UNCHANGED relabelled

CreateNamespace(n, label) ==
  /\ n \in Namespaces /\ obj[n].phase = "Absent"
  /\ Change
  /\ UserStores(n, User(label))

MoveNamespace(n, label) ==
  /\ n \in Namespaces /\ obj[n].phase = "Active" /\ obj[n].project # label
  /\ Change
  /\ UserStores(n, [obj[n] EXCEPT !.project = label])

DeleteNamespace(n) ==
  /\ obj[n].phase = "Active"
  /\ Change
  /\ UserStores(n, [obj[n] EXCEPT !.phase = "Terminating"])

EditRegistration(p, label) ==
  /\ obj[p].phase = "Active" /\ obj[p].project # label
  /\ MayChange
  /\ relabelled' = IF label = System THEN relabelled \cup {p} ELSE relabelled
  /\ UserStores(p, [obj[p] EXCEPT !.project = label])

EditConfig(p, c) ==
  /\ config[p] \notin {"Absent", c}
  /\ Change
  /\ StoreConfig(p, c)
  /\ UNCHANGED <<obj, phase, view, fresh, handling, tracker, applying, configView, charts>>

\* A namespace that is being deleted is emptied, and is gone.
ContentIsRemoved(p) ==
  /\ obj[p].phase = "Terminating" /\ config[p] # "Absent"
  /\ StoreConfig(p, "Absent")
  /\ UNCHANGED <<obj, phase, view, fresh, handling, tracker, applying, configView, charts, budget>>

NamespaceIsGone(n) ==
  /\ obj[n].phase = "Terminating"
  /\ n \in Projects => config[n] = "Absent"
  /\ UserStores(n, Gone)
  /\ UNCHANGED budget

-----------------------------------------------------------------------------

Handles(n) ==
  \/ HandlesNothing(n) \/ HandlesRegular(n) \/ StartsUpdate(n)
  \/ SetsLabel(n) \/ RemovesLabel(n) \/ Conflicts(n)
  \/ n \in Projects /\ (HandlesRegistration(n) \/ FailsRegistration(n) \/ Untracks(n))

Applies(p) ==
  \/ ApplyBegins(p) \/ ApplySkips(p) \/ ApplyRegistration(p) \/ ApplyGets(p) \/ ApplyTracks(p)
  \/ ApplyCreatesConfig(p) \/ ApplyLeavesConfig(p) \/ ApplyDeletesConfig(p)
  \/ ApplyIsRefused(p)

Users ==
  \/ \E n \in Namespaces, l \in Labels : CreateNamespace(n, l) \/ MoveNamespace(n, l)
  \/ \E n \in Names : DeleteNamespace(n)
  \/ \E p \in Projects, l \in {None, System} : EditRegistration(p, l)
  \/ \E p \in Projects, c \in {"Absent", "Foreign"} : EditConfig(p, c)

Next ==
  \/ Crash \/ Starts \/ Serves \/ GivesUp \/ GivesUpEarly
  \/ \E n \in Names : Handles(n) \/ UpdateFails(n) \/ Delivers(n) \/ Resyncs(n)
                      \/ NamespaceIsGone(n)
  \/ \E p \in Projects : Applies(p) \/ ApplyFails(p) \/ ApplyRetries(p) \/ ResolvesConfig(p)
                         \/ ContentIsRemoved(p)
  \/ Users

\* The process is restarted when it ended; its workers, the workers of the
\* applyinator, the caches, the retries and Kubernetes go on.  A comparison
\* is repeated until it succeeds or its retries are used up.
Fairness ==
  /\ WF_vars(Starts) /\ WF_vars(Serves) /\ WF_vars(GivesUp)
  /\ \A n \in Names : WF_vars(Handles(n)) /\ WF_vars(Delivers(n)) /\ WF_vars(Resyncs(n))
                      /\ WF_vars(NamespaceIsGone(n))
  /\ \A p \in Projects : WF_vars(Applies(p)) /\ WF_vars(ApplyRetries(p))
                         /\ WF_vars(ResolvesConfig(p)) /\ WF_vars(ContentIsRemoved(p))

Spec == Init /\ [][Next]_vars /\ Fairness

-----------------------------------------------------------------------------
(* Properties *)

HandlerStep == {Idle, [pc |-> "untrack"]} \cup [pc: {"update", "again"}, label: Labels]

ApplyStep ==
  {Idle} \cup [pc: {"apply"}, orphaned: BOOLEAN] \cup [pc: {"get", "config", "create"}]
  \cup [pc: {"track"}, label: Labels, terminating: BOOLEAN]

ObjectsOK ==
  /\ obj \in [Names -> Object] /\ view \in [Names -> Object]
  /\ fresh \subseteq Names /\ held \subseteq Names

ConfigsOK ==
  /\ config \in [Projects -> {"Absent", "Ours", "Foreign"}]
  /\ configView \in [Projects -> {"Absent", "Ours", "Foreign"}]
  /\ configEvents \subseteq Projects /\ charts \subseteq Projects

HandlersOK ==
  /\ phase \in {"down", "init", "up"}
  /\ todo \subseteq Names /\ queue \subseteq Names
  /\ attempts \in 0 .. MaxAttempts - 1
  /\ work \in [Names -> HandlerStep]

TrackerOK == initList \subseteq Projects /\ tracker \in [Projects -> Labels \cup {Untracked}]

AppliesOK ==
  /\ run \in [Projects -> ApplyStep]
  /\ pending \subseteq Projects /\ retrying \subseteq Projects
  /\ closed \in BOOLEAN

BudgetOK ==
  changes \in 0 .. MaxChanges /\ faults \in 0 .. MaxFaults /\ relabelled \subseteq Projects

\* Type invariant.
NCTypeOK == ObjectsOK /\ ConfigsOK /\ HandlersOK /\ TrackerOK /\ AppliesOK /\ BudgetOK

Populated(p) ==
  \E n \in Namespaces \ SystemNamespaces : obj[n].phase = "Active" /\ obj[n].project = p

\* Nothing is left to do: no key is queued, no handler and no apply runs, the
\* caches are up to date.
Settled ==
  /\ phase = "up"
  /\ queue = {} /\ \A n \in Names : work[n] = Idle
  /\ pending = {} /\ retrying = {} /\ Running = {}
  /\ fresh = Names /\ configEvents = {}
  /\ \A n \in Names : obj[n].phase # "Terminating"

Registered(p) ==
  /\ obj[p].phase = "Active" /\ obj[p].project = p /\ ~obj[p].orphaned
  /\ Tracked(p)
  /\ config[p] = "Ours"

\* The label that names the project of a namespace is only ever written for the
\* project the namespace is in at that moment, however old the copy was that the
\* handler started from (the conflict of Update, controller.go:367-396).
LabelsAreCurrent ==
  [][\A n \in Namespaces :
       obj'[n].phase = "Active" /\ obj'[n].helm # obj[n].helm =>
         obj'[n].project = (IF obj'[n].helm = None THEN None ELSE obj'[n].helm)]_vars

\* Every project that is tracked, or that an apply runs for or is due for, is on
\* the list the tracker is compared with: the lengths Compare looks at
\* (tracker.go:94) can only differ while something is missing.
WorkIsExpected ==
  pending \cup retrying \cup Running \cup {p \in Projects : Tracked(p)} \subseteq initList

\* Register returns, and hands out its ProjectGetter, only when it tracks the
\* registration namespace of every project it found a namespace of
\* (namespaces.go:30-32).
ReadyKnowsProjects ==
  [][phase = "init" /\ phase' = "up" =>
       \A n \in Names : /\ view[n].phase # "Absent" /\ ~IsSystem(n, view[n])
                        /\ view[n].project \in Projects
                        => Tracked(view[n].project)]_vars

\* When nothing is left to do, a registration namespace that is in its project,
\* which has namespaces, is tracked, so that its changes are seen, and is not
\* marked as orphaned, which would say that it may be deleted (operatorlabels.go:49);
\* and its ProjectHelmCharts were enqueued once the caches ran (utils.go:41).  Except
\* for one that was given to the project of the system: when that label is read back
\* after an apply, it is what is expected of the registration namespace from then on,
\* and nothing enqueues the namespaces of the project (controller.go:197-217).
SettledIsRegistered ==
  Settled =>
    \A p \in Projects \ (LongProjects \cup relabelled) :
      Populated(p) /\ obj[p].phase = "Active" /\ obj[p].project = p =>
        Tracked(p) /\ ~obj[p].orphaned /\ p \in charts

\* A project with namespaces has its registration namespace in the end, whatever
\* failed, crashed or was deleted before, if no namespace stays in a project that
\* cannot be registered: that one keeps a restarted process from serving.
ProjectsGetRegistered ==
  <>[](\A p \in LongProjects : ~Populated(p)) =>
  <>[](\A p \in Projects \ LongProjects : Populated(p) => phase = "up" /\ Registered(p))

\* However often the comparison is retried, the process serves in the end: a
\* failure to register in time can be fixed by more retries (runtime.go:117).
RetriesSuffice == <>(phase = "up")

\* The registration namespace of a project that no namespace is in any more is
\* marked as orphaned (docs/helm-project-operator/design.md:30).
OrphansAreMarked ==
  Settled =>
    \A p \in Projects \ LongProjects :
      obj[p].phase = "Active" /\ ~Populated(p) => obj[p].orphaned
=============================================================================
