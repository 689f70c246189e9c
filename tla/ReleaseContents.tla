--------------------------- MODULE ReleaseContents ---------------------------
(***************************************************************************)
(* What the project controller puts into a release that is deployed: the   *)
(* values of its HelmChart, and the RoleBindings that give those who are   *)
(* bound to the operator's default ClusterRoles in the registration        *)
(* namespace, or in the whole cluster, the Roles that the chart brings     *)
(* along; and that both go away when the project has no namespaces.        *)
(* (ProjectController says whether a release is deployed at all; its       *)
(* namespace is assumed to be there.)                                      *)
(*                                                                         *)
(* One ProjectHelmChart.  Everything is read from caches, at different     *)
(* times, and resolvers turn the changes they are told of into its key;    *)
(* several changes of one object are delivered as the last of them.        *)
(***************************************************************************)
EXTENDS Naturals, FiniteSets

CONSTANTS Bindings,       \* RoleBindings in the registration namespace
          ClusterBindings,\* ClusterRoleBindings
          Roles,          \* Roles in the release namespace
          DefaultRoles,   \* "admin", "edit", "view", those that are configured
          RolesOf,        \* the default roles whose ClusterRole a binding refers to
          Users,          \* users and groups
          Accounts,       \* service accounts
          Namespaces,     \* namespaces that may belong to the project
          ReleaseNamespaces, \* the dedicated namespace of the release, or none
          SpecValues,     \* what spec.values may be
          ValuesFor(_, _),\* the values for spec.values and a set of namespaces
          NoValues,       \* there is no HelmChart; or there is to be none
          UserOps,        \* bound: what users and Helm do
          MaxChanges,     \* bound: how often they do it
          MaxFaults       \* bound: failed applies and restarts

AllBindings == Bindings \cup ClusterBindings

ASSUME RCAssumption ==
  /\ RolesOf \in [AllBindings -> SUBSET DefaultRoles]
  /\ DefaultRoles \cap {"absent", "unlabelled", "other"} = {}
  /\ Bindings \cap ClusterBindings = {} /\ Users \cap Accounts = {}
  /\ \A values \in SpecValues, targets \in SUBSET (Namespaces \cup ReleaseNamespaces) :
       ValuesFor(values, targets) # NoValues
  /\ UserOps \subseteq {"bind", "role", "label", "tamper", "join", "leave", "spec"}
  /\ MaxChanges \in Nat /\ MaxFaults \in Nat

VARIABLES
  subjects,    \* the subjects of each binding; one that is not there has none
  roles,       \* which default role each Role aggregates from
  granted,     \* the RoleBinding generated for each Role: its subjects and their order
  members,     \* the namespaces of the project
  spec,        \* spec.values
  chart,       \* the values of the HelmChart
  tracked,     \* the registration namespace is in the tracker
  subjectsSeen, rolesSeen, grantedSeen, specSeen, chartSeen,  \* the informers' copies
  news,        \* the objects whose changes have yet to be delivered
  indexed,     \* the bindings that were indexed by their ClusterRole
  queue,       \* the ProjectHelmChart is in the work queue
  work,        \* what its worker is about to do, and what it has read
  changes, faults

server == <<subjects, roles, granted, members, spec, chart>>
seen == <<subjectsSeen, rolesSeen, grantedSeen, specSeen, chartSeen, news, indexed>>
budget == <<changes, faults>>
vars == <<server, tracked, seen, queue, work, budget>>

\* A Role is not there, does not have the release label (or had none when it was
\* deleted), or does not aggregate from a default role.
RoleStates == DefaultRoles \cup {"absent", "unlabelled", "other"}

\* What there is an informer for; and the registration namespace, whose
\* ProjectHelmCharts the namespace controller enqueues.
Objects == ({"binding"} \X AllBindings) \cup ({"role", "grant"} \X Roles)
             \cup ({"spec", "chart", "registration"} \X {""})

\* Subjects are listed in one order or in another.
Orders(users) == IF Cardinality(users) > 1 THEN {1, 2} ELSE {1}
RoleBinding == [to : SUBSET Users, order : {1, 2}]
NoBinding == [to |-> {}, order |-> 1]

Idle == [pc |-> "idle", values |-> NoValues, refs |-> [d \in DefaultRoles |-> {}],
         to |-> [d \in DefaultRoles |-> {}]]

TypeOK ==
  /\ {subjects, subjectsSeen} \subseteq [AllBindings -> SUBSET (Users \cup Accounts)]
  /\ {roles, rolesSeen} \subseteq [Roles -> RoleStates]
  /\ {granted, grantedSeen} \subseteq [Roles -> RoleBinding]
  /\ members \subseteq Namespaces
  /\ {spec, specSeen} \subseteq SpecValues
  /\ tracked \in BOOLEAN /\ queue \in BOOLEAN
  /\ news \subseteq Objects
  /\ indexed \subseteq AllBindings
  /\ work.pc \in {"idle", "bindings", "clusterbindings", "apply"}
  /\ work.refs \in [DefaultRoles -> SUBSET Roles]
  /\ work.to \in [DefaultRoles -> SUBSET Users]
  /\ changes \in 0 .. MaxChanges /\ faults \in 0 .. MaxFaults

-----------------------------------------------------------------------------
(* The indices *)

\* roleBindingInRegistrationNamespaceToRoleRef and clusterRoleBindingToRoleRef: a
\* RoleBinding is indexed only if its namespace is tracked by then.
Indexes(b) == RolesOf[b] # {} /\ (b \in Bindings => tracked)

\* The operator starts when the registration namespace is there or not yet; the
\* caches are filled.
Init ==
  /\ subjects \in [AllBindings -> {{}, Users}]
  /\ roles = [r \in Roles |-> "absent"]
  /\ granted = [r \in Roles |-> NoBinding]
  /\ members \in SUBSET Namespaces
  /\ spec \in SpecValues
  /\ chart = NoValues
  /\ tracked \in BOOLEAN
  /\ subjectsSeen = subjects /\ rolesSeen = roles /\ grantedSeen = granted
  /\ specSeen = spec /\ chartSeen = chart /\ news = {}
  /\ indexed = {b \in AllBindings : Indexes(b)}
  /\ queue = TRUE
  /\ work = Idle
  /\ changes = 0 /\ faults = 0

-----------------------------------------------------------------------------
(* OnChange *)

\* Mutant: service accounts are bound, too.
AnySubjects(s) == s

FilterToUsersAndGroups(s) == s \cap Users

\* getSubjectRoleToRoleRefsFromRoles
RoleRefs(d) == {r \in Roles : rolesSeen[r] = d}

\* Mutant: the RoleBindings and the HelmChart are returned whatever the targets are.
HandlesAnyway ==
  /\ queue /\ work.pc = "idle"
  /\ queue' = FALSE
  /\ work' = IF ~tracked THEN Idle
             ELSE [Idle EXCEPT !.pc = "bindings",
                               !.values = ValuesFor(specSeen, members \cup ReleaseNamespaces),
                               !.refs = [d \in DefaultRoles |-> RoleRefs(d)]]
  /\ UNCHANGED <<server, tracked, seen, budget>>

\* shouldManage, the target namespaces (read from the API server), the values and the
\* Roles.  A ProjectHelmChart of a namespace that is not tracked owns nothing yet.
\* Without target namespaces there is nothing to release: neither HelmChart nor
\* RoleBindings are returned, so the apply deletes them.
Handles ==
  /\ queue /\ work.pc = "idle"
  /\ queue' = FALSE
  /\ work' = IF ~tracked THEN Idle
             ELSE IF members = {} THEN [Idle EXCEPT !.pc = "apply"]
             ELSE [Idle EXCEPT !.pc = "bindings",
                               !.values = ValuesFor(specSeen, members \cup ReleaseNamespaces),
                               !.refs = [d \in DefaultRoles |-> RoleRefs(d)]]
  /\ UNCHANGED <<server, tracked, seen, budget>>

\* as[b] is the default role that IsDefaultClusterRoleRef finds for b.
SubjectsOf(d, as) ==
  FilterToUsersAndGroups(UNION {subjectsSeen[b] : b \in {b \in DOMAIN as : as[b] = d}})

\* getSubjectRoleToSubjectsFromBindings reads one cache after the other.  When default
\* roles share a ClusterRole, Go's iteration over them decides.
Reads(pc, bindings, next) ==
  /\ work.pc = pc
  /\ \E as \in [indexed \cap bindings -> DefaultRoles] :
       /\ \A b \in indexed \cap bindings : as[b] \in RolesOf[b]
       /\ work' = [work EXCEPT
                     !.pc = next,
                     !.to = [d \in DefaultRoles |-> work.to[d] \cup SubjectsOf(d, as)]]
  /\ UNCHANGED <<server, tracked, seen, queue, budget>>

ReadsBindings == Reads("bindings", Bindings, "clusterbindings")
ReadsClusterBindings == Reads("clusterbindings", ClusterBindings, "apply")

\* getRoleBindings: one for each Role, if somebody is bound to its default role.
Wanted(r, order) ==
  IF \E d \in DefaultRoles : r \in work.refs[d]
  THEN LET d == CHOOSE d \in DefaultRoles : r \in work.refs[d]
       IN [to |-> work.to[d], order |-> IF order[d] \in Orders(work.to[d]) THEN order[d] ELSE 1]
  ELSE NoBinding

\* The apply (external) writes what the caches do not show in the wanted form.
AppliedBinding(r, order) ==
  IF grantedSeen[r] = Wanted(r, order) THEN granted[r] ELSE Wanted(r, order)

AppliedChart == IF chartSeen = work.values THEN chart ELSE work.values

\* What was written or deleted is news.
Announces ==
  news' = news \cup {<<"grant", r>> : r \in {r \in Roles : granted'[r] # granted[r]}}
               \cup {<<"chart", "">> : x \in {x \in {1} : chart' # chart}}

copies == <<subjectsSeen, rolesSeen, grantedSeen, specSeen, chartSeen, indexed>>

\* The subjects come out of a map, in any order.
Applies(order) ==
  /\ work.pc = "apply"
  /\ granted' = [r \in Roles |-> AppliedBinding(r, order)]
  /\ chart' = AppliedChart
  /\ Announces
  /\ work' = Idle
  /\ UNCHANGED <<subjects, roles, members, spec, tracked, copies, queue, budget>>

AnyOrder == [DefaultRoles -> {1, 2}]

Fault == faults < MaxFaults /\ faults' = faults + 1

\* A call fails; what was written before stays, the key is queued again.
ApplyFails ==
  /\ work.pc = "apply"
  /\ Fault
  /\ \E order \in AnyOrder, done \in SUBSET Roles :
       granted' = [r \in Roles |-> IF r \in done THEN AppliedBinding(r, order) ELSE granted[r]]
  /\ chart' \in {chart, AppliedChart}
  /\ Announces
  /\ work' = Idle
  /\ queue' = TRUE
  /\ UNCHANGED <<subjects, roles, members, spec, tracked, copies, changes>>

-----------------------------------------------------------------------------
(* The informers and their resolvers *)

Learns(kind, name) == <<kind, name>> \in news /\ news' = news \ {<<kind, name>>}

\* Mutant: the new subjects of a ClusterRoleBinding are not resolved.
ObservesBindingQuietly(b) ==
  /\ Learns("binding", b)
  /\ subjectsSeen' = [subjectsSeen EXCEPT ![b] = subjects[b]]
  /\ indexed' = IF Indexes(b) THEN indexed \cup {b} ELSE indexed \ {b}
  /\ queue' = (queue \/ (Indexes(b) /\ b \in Bindings))
  /\ UNCHANGED <<server, tracked, rolesSeen, grantedSeen, specSeen, chartSeen, work, budget>>

\* resolveProjectRegistrationNamespaceRoleBinding, resolveClusterRoleBinding (the latter
\* for the ProjectHelmCharts of the namespaces that are tracked).
ObservesBinding(b) ==
  /\ Learns("binding", b)
  /\ subjectsSeen' = [subjectsSeen EXCEPT ![b] = subjects[b]]
  /\ indexed' = IF Indexes(b) THEN indexed \cup {b} ELSE indexed \ {b}
  /\ queue' = (queue \/ (Indexes(b) /\ tracked))
  /\ UNCHANGED <<server, tracked, rolesSeen, grantedSeen, specSeen, chartSeen, work, budget>>

\* The release label of a Role names the ProjectHelmChart; of one that was deleted the
\* last copy does.
Resolved(r) == (IF roles[r] = "absent" THEN rolesSeen[r] ELSE roles[r]) # "unlabelled"

\* resolveByProjectReleaseLabelValue
ObservesRole(r) ==
  /\ Learns("role", r)
  /\ rolesSeen' = [rolesSeen EXCEPT ![r] = roles[r]]
  /\ queue' = (queue \/ (Resolved(r) /\ tracked))
  /\ UNCHANGED <<server, tracked, subjectsSeen, grantedSeen, specSeen, chartSeen, indexed,
                 work, budget>>

\* resolveProjectHelmChartOwned, for the RoleBindings of the release namespace and the
\* HelmChart.
ObservesGrant(r) ==
  /\ Learns("grant", r)
  /\ grantedSeen' = [grantedSeen EXCEPT ![r] = granted[r]]
  /\ queue' = TRUE
  /\ UNCHANGED <<server, tracked, subjectsSeen, rolesSeen, specSeen, chartSeen, indexed, work,
                 budget>>

ObservesChart ==
  /\ Learns("chart", "")
  /\ chartSeen' = chart
  /\ queue' = TRUE
  /\ UNCHANGED <<server, tracked, subjectsSeen, rolesSeen, grantedSeen, specSeen, indexed, work,
                 budget>>

ObservesSpec ==
  /\ Learns("spec", "")
  /\ specSeen' = spec
  /\ queue' = TRUE
  /\ UNCHANGED <<server, tracked, subjectsSeen, rolesSeen, grantedSeen, chartSeen, indexed, work,
                 budget>>

Observes ==
  \/ \E b \in AllBindings : ObservesBinding(b)
  \/ \E r \in Roles : ObservesRole(r) \/ ObservesGrant(r)
  \/ ObservesChart \/ ObservesSpec

\* applyProjectRegistrationNamespace: the registration namespace is in the tracker, and
\* later its ProjectHelmCharts are enqueued.
Tracks ==
  /\ ~tracked
  /\ tracked' = TRUE
  /\ news' = news \cup {<<"registration", "">>}
  /\ UNCHANGED <<server, copies, queue, work, budget>>

EnqueuesProjectHelmCharts ==
  /\ tracked
  /\ Learns("registration", "")
  /\ queue' = TRUE
  /\ UNCHANGED <<server, tracked, copies, work, budget>>

Quiet ==
  /\ ~queue /\ work.pc = "idle" /\ news = {}

\* The resync periods ended: every object is handed out, and indexed, again.  Bound:
\* when the rest is quiet.
Resyncs ==
  /\ Quiet
  /\ indexed' = {b \in AllBindings : Indexes(b)}
  /\ queue' = TRUE
  /\ UNCHANGED <<server, tracked, subjectsSeen, rolesSeen, grantedSeen, specSeen, chartSeen, news,
                 work, budget>>

\* The pod ends and is started again: the caches are filled when the registration
\* namespaces are tracked.
Restarts ==
  /\ Fault
  /\ tracked' = TRUE
  /\ subjectsSeen' = subjects /\ rolesSeen' = roles /\ grantedSeen' = granted
  /\ specSeen' = spec /\ chartSeen' = chart /\ news' = {}
  /\ indexed' = {b \in AllBindings : RolesOf[b] # {}}
  /\ queue' = TRUE
  /\ work' = Idle
  /\ UNCHANGED <<server, changes>>

-----------------------------------------------------------------------------
(* Users and Helm, within the bounds UserOps and MaxChanges *)

Change(op, kind, name) ==
  /\ op \in UserOps /\ changes < MaxChanges
  /\ changes' = changes + 1
  /\ news' = news \cup ({<<kind, name>>} \cap Objects)
  /\ UNCHANGED <<tracked, copies, work, faults>>

Toggled(S, x) == IF x \in S THEN S \ {x} ELSE S \cup {x}

\* Somebody is bound or not any more; a binding without subjects is gone.
Binds(b) ==
  /\ Change("bind", "binding", b)
  /\ \E x \in Users \cup Accounts : subjects' = [subjects EXCEPT ![b] = Toggled(@, x)]
  /\ UNCHANGED <<roles, granted, members, spec, chart, queue>>

\* The chart that was installed brings its Roles, and an upgrade changes them.
\* Somebody removes the label of a Role.
ChangesRole(r) ==
  /\ \/ /\ Change("role", "role", r)
        /\ chart # NoValues
        /\ \E d \in RoleStates \ {"unlabelled"} :
             /\ roles[r] = "unlabelled" => d # "absent"
             /\ roles' = [roles EXCEPT ![r] = d]
     \/ /\ Change("label", "role", r)
        /\ roles[r] # "absent"
        /\ roles' = [roles EXCEPT ![r] = "unlabelled"]
  /\ UNCHANGED <<subjects, granted, members, spec, chart, queue>>

\* The chart is gone, and its Roles with it.
Uninstalls(r) ==
  /\ chart = NoValues /\ roles[r] \notin {"absent", "unlabelled"}
  /\ roles' = [roles EXCEPT ![r] = "absent"]
  /\ news' = news \cup {<<"role", r>>}
  /\ UNCHANGED <<subjects, granted, members, spec, chart, tracked, copies, queue, work, budget>>

\* Somebody changes a generated RoleBinding.
Tampers(r) ==
  /\ Change("tamper", "grant", r)
  /\ granted[r].to # {}
  /\ \E x \in Users :
       granted' = [granted EXCEPT ![r] = [to |-> Toggled(@.to, x), order |-> 1]]
  /\ UNCHANGED <<subjects, roles, members, spec, chart, queue>>

\* A namespace joins the project, which the namespace controller deals with; or leaves
\* it: by its deletion, which it may deal with, or by its label, which it does not.
ChangesMembers(n) ==
  /\ \/ /\ Change("join", "registration", "") /\ n \notin members
        /\ members' = members \cup {n}
     \/ /\ \E kind \in {"registration", "nothing"} : Change("leave", kind, "")
        /\ n \in members
        /\ members' = members \ {n}
  /\ UNCHANGED <<subjects, roles, granted, spec, chart, queue>>

EditsSpec ==
  /\ Change("spec", "spec", "")
  /\ spec' \in SpecValues
  /\ UNCHANGED <<subjects, roles, granted, members, chart, queue>>

OthersChange ==
  \/ \E b \in AllBindings : Binds(b)
  \/ \E r \in Roles : ChangesRole(r) \/ Uninstalls(r) \/ Tampers(r)
  \/ \E n \in Namespaces : ChangesMembers(n)
  \/ EditsSpec

-----------------------------------------------------------------------------
Works == Handles \/ ReadsBindings \/ ReadsClusterBindings \/ \E order \in AnyOrder : Applies(order)

Next ==
  \/ Works \/ ApplyFails
  \/ Observes
  \/ Tracks \/ EnqueuesProjectHelmCharts
  \/ Resyncs \/ Restarts
  \/ OthersChange

Spec == Init /\ [][Next]_vars

\* The subjects are listed as they are already.
AppliesSameOrder ==
  /\ work.pc = "apply"
  /\ \E order \in AnyOrder :
       /\ \A d \in DefaultRoles : \A r \in work.refs[d] : grantedSeen[r].order = order[d]
       /\ Applies(order)

\* Workers and informers go on, and the resync periods end again and again (strongly
\* fair, because of their bound).  No order of the subjects is avoided for ever: Go
\* iterates over a map in random order.
Fairness ==
  /\ WF_vars(Works)
  /\ SF_vars(AppliesSameOrder)
  /\ WF_vars(Observes \/ Tracks \/ EnqueuesProjectHelmCharts)
  /\ SF_vars(Resyncs)

FairSpec == Spec /\ Fairness

-----------------------------------------------------------------------------
(* Properties *)

\* The users and groups that those of the given bindings that refer to d name.
Bound(d, bindings) ==
  Users \cap UNION {subjects[b] : b \in {b \in bindings : RolesOf[b] = {d}}}

\* When nothing is left to do, a Role of the release is granted to those who are bound
\* to its default role and to nobody else, whatever was read before it changed, and
\* also if somebody changed the RoleBinding; and when the chart is gone, nothing is
\* granted any more (controller.go:273-281).  (For the bindings that were indexed: a
\* RoleBinding is not when it was seen before its namespace was tracked.)
SettledGrants ==
  Quiet /\ tracked =>
    \A r \in Roles :
      IF chart = NoValues THEN granted[r].to = {}
      ELSE /\ roles[r] \in DefaultRoles => granted[r].to = Bound(roles[r], indexed)
           /\ roles[r] = "other" => granted[r].to = {}

\* The values of a project with these namespaces: none if it has none.
WantedValues(values, namespaces) ==
  IF namespaces = {} THEN NoValues ELSE ValuesFor(values, namespaces \cup ReleaseNamespaces)

\* In the end, for good, all who are bound and nobody else has access, and the values
\* are those for spec.values and the namespaces that belong to the project; and if none
\* does, there is no chart and nobody has access.  What no resolver notices a resync
\* does (resolvers.go:96-130, 186-190).
ContentsSettle ==
  <>[](/\ \A r \in Roles :
            granted[r].to = IF members # {} /\ roles[r] \in DefaultRoles
                            THEN Bound(roles[r], AllBindings) ELSE {}
       /\ chart = WantedValues(spec, members))
=============================================================================
