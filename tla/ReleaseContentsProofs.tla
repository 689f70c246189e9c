------------------------ MODULE ReleaseContentsProofs ------------------------
(***************************************************************************)
(* For all sets of bindings, Roles, users and namespaces, whatever fails:  *)
(* when nothing is left to do, the Roles of a release are granted to those *)
(* who are bound to the default roles, and its values are the operator's   *)
(* layers and the current spec.values, overlaid.                           *)
(***************************************************************************)
EXTENDS ReleaseValues, TLAPS

\* The worker's state is a record with these fields, whatever values are.
WorkOK ==
  work = [pc |-> work.pc, values |-> work.values, refs |-> work.refs, to |-> work.to]

Types == TypeOK /\ WorkOK

-----------------------------------------------------------------------------
(* The type invariant.                                                     *)

\* The empty objects.
LEMMA Nothing ==
  /\ NoBinding \in RoleBinding /\ NoBinding.to = {}
  /\ Idle.pc = "idle" /\ Idle.values = NoValues
  /\ Idle.refs \in [DefaultRoles -> SUBSET Roles]
  /\ Idle.to \in [DefaultRoles -> SUBSET Users]
  /\ Idle = [pc |-> Idle.pc, values |-> Idle.values, refs |-> Idle.refs, to |-> Idle.to]
BY DEF NoBinding, RoleBinding, Idle

\* What is applied is a RoleBinding.
LEMMA WantedType ==
  ASSUME Types, NEW r \in Roles, NEW order \in AnyOrder
  PROVE  Wanted(r, order) \in RoleBinding /\ AppliedBinding(r, order) \in RoleBinding
<1>1. Wanted(r, order) \in RoleBinding
  <2>1. CASE \E d \in DefaultRoles : r \in work.refs[d]
    <3> DEFINE d == CHOOSE d \in DefaultRoles : r \in work.refs[d]
    <3>1. d \in DefaultRoles
      BY <2>1
    <3>2. /\ Wanted(r, order).to = work.to[d]
          /\ Wanted(r, order).order \in {1, order[d]}
          /\ Wanted(r, order) = [to |-> Wanted(r, order).to, order |-> Wanted(r, order).order]
      BY <2>1 DEF Wanted
    <3>3. work.to[d] \in SUBSET Users /\ order[d] \in {1, 2}
      BY <3>1 DEF Types, TypeOK, AnyOrder
    <3> HIDE DEF d
    <3> QED BY <3>2, <3>3 DEF RoleBinding
  <2>2. CASE ~\E d \in DefaultRoles : r \in work.refs[d]
    BY <2>2, Nothing DEF Wanted
  <2> QED BY <2>1, <2>2
<1> QED BY <1>1 DEF AppliedBinding, Types, TypeOK

\* What a fault or a change costs is within the bound.
LEMMA BudgetType ==
  ASSUME TypeOK
  PROVE  /\ Fault => faults' \in 0 .. MaxFaults
         /\ \A op, kind, name : Change(op, kind, name) => changes' \in 0 .. MaxChanges
BY RCAssumption DEF TypeOK, Fault, Change

\* What is announced is about an object.
LEMMA NewsType ==
  ASSUME TypeOK
  PROVE  /\ Announces => news' \subseteq Objects
         /\ \A op, kind, name : Change(op, kind, name) => news' \subseteq Objects
         /\ \A kind, name : Learns(kind, name) => news' \subseteq Objects
<1>1. \A r \in Roles : <<"grant", r>> \in Objects
  BY DEF Objects
<1>2. <<"chart", "">> \in Objects
  BY DEF Objects
<1> QED BY <1>1, <1>2 DEF TypeOK, Announces, Change, Learns

\* The worker's steps.
LEMMA WorkTypes ==
  ASSUME Types, Works \/ ApplyFails
  PROVE  Types'
<1> USE DEF Types
<1>1. CASE Handles
  <2>1. \/ work' = Idle
        \/ work' = [Idle EXCEPT !.pc = "apply"]
        \/ work' = [Idle EXCEPT !.pc = "bindings",
                                !.values = ValuesFor(specSeen, members \cup ReleaseNamespaces),
                                !.refs = [d \in DefaultRoles |-> RoleRefs(d)]]
    BY <1>1 DEF Handles
  <2>2. [d \in DefaultRoles |-> RoleRefs(d)] \in [DefaultRoles -> SUBSET Roles]
    BY DEF RoleRefs
  <2>3. /\ WorkOK' /\ work'.pc \in {"idle", "bindings", "apply"}
        /\ work'.refs \in [DefaultRoles -> SUBSET Roles]
        /\ work'.to \in [DefaultRoles -> SUBSET Users]
    BY <2>1, <2>2, Nothing DEF WorkOK
  <2> QED BY <1>1, <2>3 DEF Handles, TypeOK, server, seen, budget
<1>2. CASE ReadsBindings \/ ReadsClusterBindings
  <2>0. PICK next \in {"clusterbindings", "apply"} : \E pc, bindings : Reads(pc, bindings, next)
    BY <1>2 DEF ReadsBindings, ReadsClusterBindings
  <2>1. PICK pc, bindings : Reads(pc, bindings, next)
    BY <2>0
  <2>2. PICK as \in [indexed \cap bindings -> DefaultRoles] :
          work' = [work EXCEPT !.pc = next,
                               !.to = [d \in DefaultRoles |-> work.to[d] \cup SubjectsOf(d, as)]]
    BY <2>1 DEF Reads
  <2>3. [d \in DefaultRoles |-> work.to[d] \cup SubjectsOf(d, as)]
          \in [DefaultRoles -> SUBSET Users]
    BY DEF SubjectsOf, FilterToUsersAndGroups, TypeOK
  <2>4. /\ WorkOK' /\ work'.pc \in {"clusterbindings", "apply"} /\ work'.refs = work.refs
        /\ work'.to \in [DefaultRoles -> SUBSET Users]
    BY <2>2, <2>3 DEF WorkOK
  <2>5. UNCHANGED <<server, tracked, seen, queue, budget>>
    BY <2>1 DEF Reads
  <2> QED BY <2>4, <2>5 DEF TypeOK, server, seen, budget
<1>3. ASSUME NEW order \in AnyOrder, Applies(order)
      PROVE  Types'
  <2>1. granted' \in [Roles -> RoleBinding]
    BY <1>3, WantedType DEF Applies
  <2>2. news' \subseteq Objects
    BY <1>3, NewsType DEF Applies
  <2>3. /\ WorkOK' /\ work'.pc = "idle"
        /\ work'.refs \in [DefaultRoles -> SUBSET Roles]
        /\ work'.to \in [DefaultRoles -> SUBSET Users]
    BY <1>3, Nothing DEF Applies, WorkOK
  <2> QED BY <1>3, <2>1, <2>2, <2>3 DEF Applies, TypeOK, copies, budget
<1>4. CASE ApplyFails
  <2>1. granted' \in [Roles -> RoleBinding]
    <3>1. PICK order \in AnyOrder, done \in SUBSET Roles :
            granted' = [r \in Roles |-> IF r \in done THEN AppliedBinding(r, order)
                                        ELSE granted[r]]
      BY <1>4 DEF ApplyFails
    <3>2. granted \in [Roles -> RoleBinding]
      BY DEF TypeOK
    <3> QED BY <3>1, <3>2, WantedType
  <2>2. news' \subseteq Objects /\ faults' \in 0 .. MaxFaults
    BY <1>4, NewsType, BudgetType DEF ApplyFails
  <2>3. /\ WorkOK' /\ work'.pc = "idle"
        /\ work'.refs \in [DefaultRoles -> SUBSET Roles]
        /\ work'.to \in [DefaultRoles -> SUBSET Users]
    BY <1>4, Nothing DEF ApplyFails, WorkOK
  <2> QED BY <1>4, <2>1, <2>2, <2>3 DEF ApplyFails, TypeOK, copies
<1> QED BY <1>1, <1>2, <1>3, <1>4 DEF Works

\* The informers, the resync and the restart.
LEMMA ObserveTypes ==
  ASSUME Types, Observes \/ Tracks \/ EnqueuesProjectHelmCharts \/ Resyncs \/ Restarts
  PROVE  Types'
<1> USE DEF Types
<1>1. ASSUME NEW b \in AllBindings, ObservesBinding(b)
      PROVE  Types'
  <2>1. news' \subseteq Objects
    BY <1>1, NewsType DEF ObservesBinding
  <2>2. subjectsSeen' \in [AllBindings -> SUBSET (Users \cup Accounts)]
        /\ indexed' \subseteq AllBindings /\ queue' \in BOOLEAN
    BY <1>1 DEF ObservesBinding, TypeOK
  <2> QED BY <1>1, <2>1, <2>2 DEF ObservesBinding, TypeOK, WorkOK, server, budget
<1>2. ASSUME NEW r \in Roles, ObservesRole(r)
      PROVE  Types'
  <2>1. news' \subseteq Objects
    BY <1>2, NewsType DEF ObservesRole
  <2>2. rolesSeen' \in [Roles -> RoleStates] /\ queue' \in BOOLEAN
    BY <1>2 DEF ObservesRole, TypeOK
  <2> QED BY <1>2, <2>1, <2>2 DEF ObservesRole, TypeOK, WorkOK, server, budget
<1>3. ASSUME NEW r \in Roles, ObservesGrant(r)
      PROVE  Types'
  <2>1. news' \subseteq Objects
    BY <1>3, NewsType DEF ObservesGrant
  <2>2. grantedSeen' \in [Roles -> RoleBinding]
    BY <1>3 DEF ObservesGrant, TypeOK
  <2> QED BY <1>3, <2>1, <2>2 DEF ObservesGrant, TypeOK, WorkOK, server, budget
<1>4. CASE ObservesChart
  <2>1. news' \subseteq Objects
    BY <1>4, NewsType DEF ObservesChart
  <2> QED BY <1>4, <2>1 DEF ObservesChart, TypeOK, WorkOK, server, budget
<1>5. CASE ObservesSpec
  <2>1. news' \subseteq Objects
    BY <1>5, NewsType DEF ObservesSpec
  <2> QED BY <1>5, <2>1 DEF ObservesSpec, TypeOK, WorkOK, server, budget
<1>6. CASE Tracks \/ EnqueuesProjectHelmCharts
  <2>1. <<"registration", "">> \in Objects
    BY DEF Objects
  <2>2. news' \subseteq Objects /\ tracked' \in BOOLEAN /\ queue' \in BOOLEAN
    BY <1>6, <2>1, NewsType DEF Tracks, EnqueuesProjectHelmCharts, TypeOK
  <2>3. UNCHANGED <<server, copies, work, budget>>
    BY <1>6 DEF Tracks, EnqueuesProjectHelmCharts
  <2> QED BY <2>2, <2>3 DEF TypeOK, WorkOK, server, copies, budget
<1>7. CASE Resyncs
  BY <1>7 DEF Resyncs, TypeOK, WorkOK, server, budget
<1>8. CASE Restarts
  <2>1. faults' \in 0 .. MaxFaults
    BY <1>8, BudgetType DEF Restarts
  <2>2. WorkOK' /\ work'.pc = "idle" /\ work'.refs \in [DefaultRoles -> SUBSET Roles]
        /\ work'.to \in [DefaultRoles -> SUBSET Users]
    BY <1>8, Nothing DEF Restarts, WorkOK
  <2> QED BY <1>8, <2>1, <2>2 DEF Restarts, TypeOK, server
<1> QED BY <1>1, <1>2, <1>3, <1>4, <1>5, <1>6, <1>7, <1>8 DEF Observes

\* Users and Helm.
LEMMA ChangeTypes ==
  ASSUME Types, OthersChange
  PROVE  Types'
<1> USE DEF Types
<1>0. ASSUME NEW op, NEW kind, NEW name, Change(op, kind, name)
      PROVE  /\ changes' \in 0 .. MaxChanges /\ news' \subseteq Objects
             /\ UNCHANGED <<tracked, copies, work, faults>>
  BY <1>0, BudgetType, NewsType DEF Change
<1>1. ASSUME NEW b \in AllBindings, Binds(b)
      PROVE  Types'
  <2>1. subjects' \in [AllBindings -> SUBSET (Users \cup Accounts)]
    BY <1>1 DEF Binds, TypeOK, Toggled
  <2> QED BY <1>0, <1>1, <2>1 DEF Binds, TypeOK, WorkOK, copies
<1>2. ASSUME NEW r \in Roles, ChangesRole(r)
      PROVE  Types'
  <2>1. roles' \in [Roles -> RoleStates]
    BY <1>2 DEF ChangesRole, TypeOK, RoleStates
  <2>2. \E op, kind, name : Change(op, kind, name)
    BY <1>2 DEF ChangesRole
  <2> QED BY <1>0, <1>2, <2>1, <2>2 DEF ChangesRole, TypeOK, WorkOK, copies
<1>3. ASSUME NEW r \in Roles, Tampers(r)
      PROVE  Types'
  <2>1. PICK x \in Users : granted' = [granted EXCEPT ![r] = [to |-> Toggled(granted[r].to, x),
                                                              order |-> 1]]
    BY <1>3 DEF Tampers
  <2>2. [to |-> Toggled(granted[r].to, x), order |-> 1] \in RoleBinding
    BY DEF TypeOK, RoleBinding, Toggled
  <2>3. granted' \in [Roles -> RoleBinding]
    BY <2>1, <2>2 DEF TypeOK
  <2> QED BY <1>0, <1>3, <2>3 DEF Tampers, TypeOK, WorkOK, copies
<1>4. ASSUME NEW n \in Namespaces, ChangesMembers(n)
      PROVE  Types'
  <2>1. members' \subseteq Namespaces /\ queue' = queue
    BY <1>4 DEF ChangesMembers, TypeOK
  <2>2. \E op, kind, name : Change(op, kind, name)
    BY <1>4 DEF ChangesMembers
  <2> QED BY <1>0, <1>4, <2>1, <2>2 DEF ChangesMembers, TypeOK, WorkOK, copies
<1>5. CASE EditsSpec
  BY <1>0, <1>5 DEF EditsSpec, TypeOK, WorkOK, copies
<1>6. ASSUME NEW r \in Roles, Uninstalls(r)
      PROVE  Types'
  <2>1. roles' \in [Roles -> RoleStates]
    BY <1>6 DEF Uninstalls, TypeOK, RoleStates
  <2>2. <<"role", r>> \in Objects
    BY DEF Objects
  <2> QED BY <1>6, <2>1, <2>2 DEF Uninstalls, TypeOK, WorkOK, copies, budget
<1> QED BY <1>1, <1>2, <1>3, <1>4, <1>5, <1>6 DEF OthersChange

\* The types hold in all reachable states.
LEMMA TypesAlways == Spec => []Types
<1>1. Init => Types
  <2> SUFFICES ASSUME Init PROVE Types
    OBVIOUS
  <2>1. work = Idle
    BY DEF Init
  <2>2. subjects \in [AllBindings -> SUBSET (Users \cup Accounts)]
    BY DEF Init
  <2>3. changes \in 0 .. MaxChanges /\ faults \in 0 .. MaxFaults
    BY RCAssumption DEF Init
  <2> QED BY <2>1, <2>2, <2>3, Nothing DEF Init, Types, TypeOK, WorkOK, RoleStates
<1>2. Types /\ [Next]_vars => Types'
  <2> SUFFICES ASSUME Types, [Next]_vars PROVE Types'
    OBVIOUS
  <2>1. CASE UNCHANGED vars
    BY <2>1 DEF vars, server, seen, budget, Types, TypeOK, WorkOK
  <2> QED BY <2>1, WorkTypes, ObserveTypes, ChangeTypes DEF Next
<1> QED BY <1>1, <1>2, PTL DEF Spec

\* The state of the release's contents keeps its type for every set of bindings,
\* Roles, users and namespaces.
THEOREM RCTypeCorrect == Spec => []TypeOK
<1>1. Types => TypeOK
  BY DEF Types
<1> QED BY <1>1, TypesAlways, PTL

-----------------------------------------------------------------------------
(* Copies                                                                  *)

\* A copy of which there is no news is the object; what is indexed refers to a default
\* role; and a worker works only for a namespace that is tracked.
CopiesOK ==
  /\ \A b \in AllBindings : <<"binding", b>> \in news \/ subjectsSeen[b] = subjects[b]
  /\ \A r \in Roles : /\ <<"role", r>> \in news \/ rolesSeen[r] = roles[r]
                      /\ <<"grant", r>> \in news \/ grantedSeen[r] = granted[r]
  /\ <<"spec", "">> \in news \/ specSeen = spec
  /\ <<"chart", "">> \in news \/ chartSeen = chart
  /\ \A b \in indexed : RolesOf[b] # {}
  /\ work.pc = "idle" \/ tracked

\* No step loses news.
LEMMA CopiesStep ==
  ASSUME Types, CopiesOK, [Next]_vars
  PROVE  CopiesOK'
<1> USE DEF Types
<1>1. CASE Handles
  <2>1. work'.pc = "idle" \/ tracked
    BY <1>1, Nothing DEF Handles
  <2> QED BY <1>1, <2>1 DEF Handles, CopiesOK, server, seen
<1>2. CASE ReadsBindings \/ ReadsClusterBindings
  <2>1. tracked /\ UNCHANGED <<server, tracked, seen>>
    BY <1>2 DEF ReadsBindings, ReadsClusterBindings, Reads, CopiesOK
  <2> QED BY <2>1 DEF CopiesOK, server, seen
<1>3. CASE ApplyFails \/ \E order \in AnyOrder : Applies(order)
  <2>1. /\ Announces /\ work' = Idle
        /\ UNCHANGED <<subjects, roles, members, spec, tracked, copies>>
    BY <1>3 DEF ApplyFails, Applies
  <2>2. /\ news \subseteq news'
        /\ \A r \in Roles : <<"grant", r>> \in news' \/ granted'[r] = granted[r]
        /\ <<"chart", "">> \in news' \/ chart' = chart
    BY <2>1 DEF Announces
  <2> QED BY <2>1, <2>2, Nothing DEF CopiesOK, copies
<1>4. ASSUME NEW b \in AllBindings, ObservesBinding(b)
      PROVE  CopiesOK'
  <2>1. /\ news' = news \ {<<"binding", b>>}
        /\ subjectsSeen' = [subjectsSeen EXCEPT ![b] = subjects[b]]
        /\ UNCHANGED <<server, tracked, rolesSeen, grantedSeen, specSeen, chartSeen, work>>
    BY <1>4 DEF ObservesBinding, Learns
  <2>2. \A c \in AllBindings : <<"binding", c>> \in news' \/ subjectsSeen'[c] = subjects[c]
    BY <2>1 DEF CopiesOK, TypeOK
  <2>3. \A c \in indexed' : RolesOf[c] # {}
    BY <1>4 DEF ObservesBinding, CopiesOK, Indexes
  <2> QED BY <2>1, <2>2, <2>3 DEF CopiesOK, server
<1>5. ASSUME NEW r \in Roles, ObservesRole(r)
      PROVE  CopiesOK'
  <2>1. /\ news' = news \ {<<"role", r>>}
        /\ rolesSeen' = [rolesSeen EXCEPT ![r] = roles[r]]
        /\ UNCHANGED <<server, tracked, subjectsSeen, grantedSeen, specSeen, chartSeen, work,
                       indexed>>
    BY <1>5 DEF ObservesRole, Learns
  <2>2. \A q \in Roles : <<"role", q>> \in news' \/ rolesSeen'[q] = roles[q]
    BY <2>1 DEF CopiesOK, TypeOK
  <2> QED BY <2>1, <2>2 DEF CopiesOK, server
<1>6. ASSUME NEW r \in Roles, ObservesGrant(r)
      PROVE  CopiesOK'
  <2>1. /\ news' = news \ {<<"grant", r>>}
        /\ grantedSeen' = [grantedSeen EXCEPT ![r] = granted[r]]
        /\ UNCHANGED <<server, tracked, subjectsSeen, rolesSeen, specSeen, chartSeen, work,
                       indexed>>
    BY <1>6 DEF ObservesGrant, Learns
  <2>2. \A q \in Roles : <<"grant", q>> \in news' \/ grantedSeen'[q] = granted[q]
    BY <2>1 DEF CopiesOK, TypeOK
  <2> QED BY <2>1, <2>2 DEF CopiesOK, server
<1>7. CASE ObservesChart
  BY <1>7 DEF ObservesChart, Learns, CopiesOK, server
<1>8. CASE ObservesSpec
  BY <1>8 DEF ObservesSpec, Learns, CopiesOK, server
<1>9. CASE Tracks \/ EnqueuesProjectHelmCharts
  <2>1. /\ \A kind, name : kind # "registration" /\ <<kind, name>> \in news
                           => <<kind, name>> \in news'
        /\ UNCHANGED <<server, copies, work>> /\ tracked' = TRUE
    BY <1>9 DEF Tracks, EnqueuesProjectHelmCharts, Learns, TypeOK
  <2> QED BY <2>1 DEF CopiesOK, server, copies
<1>10. CASE Resyncs
  BY <1>10 DEF Resyncs, CopiesOK, server, Indexes
<1>11. CASE Restarts
  BY <1>11 DEF Restarts, CopiesOK, server
<1>12. ASSUME NEW b \in AllBindings, Binds(b)
       PROVE  CopiesOK'
  <2>1. <<"binding", b>> \in Objects
    BY DEF Objects
  <2>2. /\ news' = news \cup {<<"binding", b>>}
        /\ \A c \in AllBindings \ {b} : subjects'[c] = subjects[c]
        /\ UNCHANGED <<roles, granted, spec, chart, tracked, copies, work>>
    BY <1>12, <2>1 DEF Binds, Change, TypeOK
  <2> QED BY <2>2 DEF CopiesOK, copies
<1>13. ASSUME NEW r \in Roles, ChangesRole(r)
       PROVE  CopiesOK'
  <2>1. <<"role", r>> \in Objects
    BY DEF Objects
  <2>2. /\ news' = news \cup {<<"role", r>>}
        /\ \A q \in Roles \ {r} : roles'[q] = roles[q]
        /\ UNCHANGED <<subjects, granted, spec, chart, tracked, copies, work>>
    BY <1>13, <2>1 DEF ChangesRole, Change, TypeOK
  <2> QED BY <2>2 DEF CopiesOK, copies
<1>14. ASSUME NEW r \in Roles, Tampers(r)
       PROVE  CopiesOK'
  <2>1. <<"grant", r>> \in Objects
    BY DEF Objects
  <2>2. /\ news' = news \cup {<<"grant", r>>}
        /\ \A q \in Roles \ {r} : granted'[q] = granted[q]
        /\ UNCHANGED <<subjects, roles, spec, chart, tracked, copies, work>>
    BY <1>14, <2>1 DEF Tampers, Change, TypeOK
  <2> QED BY <2>2 DEF CopiesOK, copies
<1>15. ASSUME NEW n \in Namespaces, ChangesMembers(n)
       PROVE  CopiesOK'
  BY <1>15 DEF ChangesMembers, Change, CopiesOK, copies
<1>16. CASE EditsSpec
  <2>1. <<"spec", "">> \in Objects
    BY DEF Objects
  <2> QED BY <1>16, <2>1 DEF EditsSpec, Change, CopiesOK, copies
<1>17. CASE UNCHANGED vars
  BY <1>17 DEF vars, server, seen, CopiesOK
<1>18. ASSUME NEW r \in Roles, Uninstalls(r)
       PROVE  CopiesOK'
  <2>1. /\ news' = news \cup {<<"role", r>>}
        /\ \A q \in Roles \ {r} : roles'[q] = roles[q]
        /\ UNCHANGED <<subjects, granted, spec, chart, tracked, copies, work>>
    BY <1>18 DEF Uninstalls, TypeOK
  <2> QED BY <2>1 DEF CopiesOK, copies
<1> QED BY <1>1, <1>2, <1>3, <1>4, <1>5, <1>6, <1>7, <1>8, <1>9, <1>10, <1>11, <1>12, <1>13,
           <1>14, <1>15, <1>16, <1>17, <1>18 DEF Next, Works, Observes, OthersChange

-----------------------------------------------------------------------------
(* What the copies call for                                                *)

\* Whom the copies of the indexed bindings among these bind to d.
Named(d, bindings) ==
  Users \cap UNION {subjectsSeen[b] : b \in {b \in indexed \cap bindings : RolesOf[b] = {d}}}

\* Those whom r is to be granted to, as far as its copy says, when the chart has these
\* values.
Due(r, to, values) ==
  IF values = NoValues THEN to = {}
  ELSE /\ rolesSeen[r] \in DefaultRoles => to = Named(rolesSeen[r], AllBindings)
       /\ rolesSeen[r] = "other" => to = {}

\* The Roles that were read are those of the copies, but for Roles without their label.
RefsDue ==
  \A r \in Roles : rolesSeen[r] \in DefaultRoles \cup {"other"} =>
    \A d \in DefaultRoles : r \in work.refs[d] <=> rolesSeen[r] = d

\* The bindings that the worker has read.
HasRead ==
  CASE work.pc = "clusterbindings" -> Bindings
    [] work.pc = "apply" -> AllBindings
    [] OTHER -> {}

ToDue == \A d \in DefaultRoles : work.to[d] = Named(d, HasRead)

\* The worker has read what the copies say now; or there is to be no chart.
WorkDue ==
  \/ /\ work.pc = "apply" /\ work.values = NoValues
     /\ \A d \in DefaultRoles : work.refs[d] = {}
  \/ work.values # NoValues /\ RefsDue /\ ToDue

\* The key is queued, or will be whatever is due.
Comes == queue \/ ~tracked \/ <<"registration", "">> \in news

\* Unless the key comes, the worker has read what the copies say now; and when it is done,
\* so has the server, or there is news that will queue the key.
Pending ==
  ~Comes =>
    /\ work.pc # "idle" => WorkDue
    /\ work.pc = "idle" => \/ <<"chart", "">> \in news
                           \/ \A r \in Roles : <<"grant", r>> \in news \/ Due(r, granted[r].to, chart)

\* Default roles have ClusterRoles of their own.
OneRoleEach == \A b \in AllBindings : \A d, e \in RolesOf[b] : d = e

\* Then those who are read for d are those whom the copies name.
LEMMA SubjectsNamed ==
  ASSUME OneRoleEach, Types, NEW d \in DefaultRoles, NEW bindings,
         NEW as \in [indexed \cap bindings -> DefaultRoles],
         \A b \in indexed \cap bindings : as[b] \in RolesOf[b]
  PROVE  SubjectsOf(d, as) = Named(d, bindings)
<1> DEFINE read == indexed \cap bindings
<1>1. ASSUME NEW b \in read
      PROVE  as[b] = d <=> RolesOf[b] = {d}
  <2>1. b \in AllBindings /\ as[b] \in RolesOf[b]
    BY DEF Types, TypeOK
  <2>2. \A e \in RolesOf[b] : e = as[b]
    BY <2>1 DEF OneRoleEach
  <2>3. RolesOf[b] = {as[b]}
    BY <2>1, <2>2
  <2> QED BY <2>3
<1>2. {b \in read : as[b] = d} = {b \in read : RolesOf[b] = {d}}
  BY <1>1
<1>3. UNION {subjectsSeen[b] : b \in {b \in read : as[b] = d}}
        = UNION {subjectsSeen[b] : b \in {b \in read : RolesOf[b] = {d}}}
  BY <1>2
<1>4. DOMAIN as = read
  OBVIOUS
<1> HIDE DEF read
<1>5. SubjectsOf(d, as) = Users \cap UNION {subjectsSeen[b] : b \in {b \in read : as[b] = d}}
  BY <1>4 DEF SubjectsOf, FilterToUsersAndGroups
<1> QED BY <1>3, <1>5 DEF Named, read

\* What is named in two sets of bindings.
LEMMA NamedInBoth ==
  ASSUME NEW d
  PROVE  /\ Named(d, {}) = {}
         /\ Named(d, AllBindings) = Named(d, Bindings) \cup Named(d, ClusterBindings)
BY DEF Named, AllBindings

\* What is wanted for a Role is what is due.
LEMMA WantedDue ==
  ASSUME Types, WorkDue, work.pc = "apply", NEW r \in Roles, NEW order
  PROVE  Due(r, Wanted(r, order).to, work.values)
<1>1. CASE work.values = NoValues
  <2>1. ~\E d \in DefaultRoles : r \in work.refs[d]
    BY <1>1 DEF WorkDue
  <2>2. Wanted(r, order) = NoBinding
    BY <2>1 DEF Wanted
  <2> QED BY <1>1, <2>2, Nothing DEF Due
<1>2. CASE work.values # NoValues /\ rolesSeen[r] \in DefaultRoles
  <2> DEFINE d == CHOOSE d \in DefaultRoles : r \in work.refs[d]
  <2>0. RefsDue /\ ToDue /\ HasRead = AllBindings
    BY <1>2 DEF WorkDue, HasRead
  <2>1. r \in work.refs[rolesSeen[r]]
    BY <1>2, <2>0 DEF RefsDue
  <2>2. d \in DefaultRoles /\ r \in work.refs[d]
    BY <1>2, <2>1
  <2>3. d = rolesSeen[r]
    BY <1>2, <2>0, <2>2 DEF RefsDue
  <2>4. Wanted(r, order).to = work.to[d]
    BY <2>2 DEF Wanted
  <2> HIDE DEF d
  <2>5. rolesSeen[r] # "other"
    BY <1>2, RCAssumption
  <2> QED BY <1>2, <2>0, <2>3, <2>4, <2>5 DEF Due, ToDue
<1>3. CASE work.values # NoValues /\ rolesSeen[r] = "other"
  <2>1. ~\E d \in DefaultRoles : r \in work.refs[d]
    BY <1>3, RCAssumption DEF WorkDue, RefsDue
  <2>2. Wanted(r, order) = NoBinding
    BY <2>1 DEF Wanted
  <2> QED BY <1>3, <2>2, RCAssumption, Nothing DEF Due
<1> QED BY <1>1, <1>2, <1>3 DEF Due

\* While the copies and the worker stay, so does what is due.
LEMMA DueStays ==
  ASSUME UNCHANGED <<subjectsSeen, rolesSeen, indexed, work>>
  PROVE  /\ WorkDue' = WorkDue
         /\ \A r, to, values : Due(r, to, values)' = Due(r, to, values)
<1>1. \A d, bindings : Named(d, bindings)' = Named(d, bindings)
  BY DEF Named
<1>2. RefsDue' = RefsDue /\ HasRead' = HasRead
  BY DEF RefsDue, HasRead
<1>3. ToDue' = ToDue
  BY <1>1, <1>2 DEF ToDue
<1>4. WorkDue' = WorkDue
  BY <1>2, <1>3 DEF WorkDue
<1> QED BY <1>1, <1>4 DEF Due

\* The worker reads what the copies say.
LEMMA PendingReads ==
  ASSUME OneRoleEach, Types, Pending, Handles \/ ReadsBindings \/ ReadsClusterBindings
  PROVE  Pending'
<1> USE DEF Types
<1>1. CASE Handles
  <2>1. CASE ~tracked
    BY <1>1, <2>1 DEF Handles, Pending, Comes
  <2>2. CASE tracked /\ members = {}
    <3>1. work' = [Idle EXCEPT !.pc = "apply"]
      BY <1>1, <2>2 DEF Handles
    <3>2. work'.pc = "apply" /\ work'.values = NoValues /\ \A d \in DefaultRoles : work'.refs[d] = {}
      BY <3>1 DEF Idle
    <3> QED BY <3>2 DEF Pending, WorkDue
  <2>3. CASE tracked /\ members # {}
    <3> DEFINE values == ValuesFor(specSeen, members \cup ReleaseNamespaces)
    <3>1. work' = [Idle EXCEPT !.pc = "bindings", !.values = values,
                               !.refs = [d \in DefaultRoles |-> RoleRefs(d)]]
      BY <1>1, <2>3 DEF Handles
    <3>2. values # NoValues
      BY RCAssumption DEF TypeOK
    <3> HIDE DEF values
    <3>3. /\ work'.pc = "bindings" /\ work'.values # NoValues
          /\ work'.refs = [d \in DefaultRoles |-> RoleRefs(d)]
          /\ \A d \in DefaultRoles : work'.to[d] = {}
      BY <3>1, <3>2 DEF Idle
    <3>4. RefsDue'
      BY <1>1, <3>3 DEF Handles, seen, RefsDue, RoleRefs
    <3>5. ToDue'
      <4>1. HasRead' = {}
        BY <3>3 DEF HasRead
      <4>2. \A d : Named(d, {})' = {}
        BY DEF Named
      <4> QED BY <3>3, <4>1, <4>2 DEF ToDue
    <3> QED BY <3>3, <3>4, <3>5 DEF Pending, WorkDue
  <2> QED BY <2>1, <2>2, <2>3
<1>2. CASE ReadsBindings \/ ReadsClusterBindings
  <2>1. PICK bindings, next : /\ Reads(work.pc, bindings, next)
                              /\ \/ /\ work.pc = "bindings" /\ bindings = Bindings
                                    /\ next = "clusterbindings"
                                 \/ /\ work.pc = "clusterbindings" /\ bindings = ClusterBindings
                                    /\ next = "apply"
    BY <1>2 DEF ReadsBindings, ReadsClusterBindings, Reads
  <2>2. PICK as \in [indexed \cap bindings -> DefaultRoles] :
          /\ \A b \in indexed \cap bindings : as[b] \in RolesOf[b]
          /\ work' = [work EXCEPT !.pc = next,
                                  !.to = [d \in DefaultRoles |-> work.to[d] \cup SubjectsOf(d, as)]]
    BY <2>1 DEF Reads
  <2>3. /\ work'.pc = next /\ work'.refs = work.refs /\ work'.values = work.values
        /\ \A d \in DefaultRoles : work'.to[d] = work.to[d] \cup SubjectsOf(d, as)
        /\ UNCHANGED <<server, tracked, seen, queue>>
    BY <2>1, <2>2 DEF Reads, WorkOK
  <2>4. \A d, c : Named(d, c)' = Named(d, c)
    BY <2>3 DEF Named, seen
  <2>5. ASSUME ~Comes
        PROVE  WorkDue'
    <3>1. work.values # NoValues /\ RefsDue /\ ToDue
      BY <2>1, <2>5 DEF Pending, WorkDue
    <3>2. RefsDue'
      BY <2>3, <3>1 DEF RefsDue, seen
    <3>3. \A d \in DefaultRoles : work'.to[d] = Named(d, HasRead) \cup Named(d, bindings)
      BY <2>2, <2>3, <3>1, SubjectsNamed DEF ToDue
    <3>4. \A d \in DefaultRoles : Named(d, HasRead) \cup Named(d, bindings) = Named(d, HasRead')
      BY <2>1, <2>3, NamedInBoth DEF HasRead
    <3>5. ToDue'
      BY <2>4, <3>3, <3>4 DEF ToDue
    <3> QED BY <2>3, <3>1, <3>2, <3>5 DEF WorkDue
  <2> QED BY <2>1, <2>3, <2>5 DEF Pending, Comes, seen
<1> QED BY <1>1, <1>2

\* Copies that change queue the key, or call for nothing else than before.
LEMMA PendingStep ==
  ASSUME OneRoleEach, Types, CopiesOK, Pending, [Next]_vars
  PROVE  Pending'
<1> USE DEF Types
<1>0. ASSUME queue' = TRUE
      PROVE  Pending'
  BY <1>0 DEF Pending, Comes
\* The copies stay; the server may change what there is news of.
<1>1. ASSUME UNCHANGED <<subjectsSeen, rolesSeen, indexed, tracked, work, chart, queue>>,
             news \subseteq news',
             \A r \in Roles : granted'[r] = granted[r] \/ <<"grant", r>> \in news'
      PROVE  Pending'
  <2>1. Comes => Comes'
    BY <1>1 DEF Comes
  <2>2. \A r \in Roles : granted'[r] = granted[r] =>
                           (Due(r, granted[r].to, chart)' <=> Due(r, granted[r].to, chart))
    BY <1>1 DEF Due, Named
  <2>3. WorkDue' = WorkDue
    BY <1>1, DueStays
  <2> QED BY <1>1, <2>1, <2>2, <2>3 DEF Pending
<1>2. CASE Handles \/ ReadsBindings \/ ReadsClusterBindings
  BY <1>2, PendingReads
<1>3. CASE Tracks
  BY <1>3 DEF Tracks, Pending, Comes
<1>4. ASSUME NEW order \in AnyOrder, Applies(order)
      PROVE  Pending'
  <2>1. /\ work.pc = "apply" /\ work'.pc = "idle" /\ UNCHANGED <<copies, queue, tracked>>
        /\ granted' = [r \in Roles |-> AppliedBinding(r, order)]
        /\ chart' = AppliedChart /\ Announces
    BY <1>4, Nothing DEF Applies
  <2>2. /\ news \subseteq news'
        /\ \A r \in Roles : <<"grant", r>> \in news' \/ granted'[r] = granted[r]
        /\ <<"chart", "">> \in news' \/ chart' = chart
    BY <2>1 DEF Announces
  <2>3. \A d, c : Named(d, c)' = Named(d, c)
    BY <2>1 DEF Named, copies
  <2>4. ASSUME ~Comes, <<"chart", "">> \notin news', NEW r \in Roles, <<"grant", r>> \notin news'
        PROVE  Due(r, granted[r].to, chart)'
    <3>1. WorkDue
      BY <2>1, <2>4 DEF Pending
    <3>2. chart' = work.values
      BY <2>1, <2>2, <2>4 DEF CopiesOK, AppliedChart
    <3>3. grantedSeen[r] = granted[r]
      BY <2>2, <2>4 DEF CopiesOK
    <3>4. granted'[r] = Wanted(r, order)
      BY <2>1, <3>3 DEF AppliedBinding
    <3>5. Due(r, Wanted(r, order).to, work.values)
      BY <2>1, <3>1, WantedDue
    <3> QED BY <2>1, <2>3, <3>2, <3>4, <3>5 DEF Due, copies
  <2>5. Comes => Comes'
    BY <2>1, <2>2 DEF Comes
  <2> QED BY <2>1, <2>4, <2>5 DEF Pending
<1>5. CASE ApplyFails
  BY <1>0, <1>5 DEF ApplyFails
<1>6. ASSUME NEW b \in AllBindings, ObservesBinding(b)
      PROVE  Pending'
  <2>0. /\ UNCHANGED <<granted, chart, rolesSeen, tracked, work>>
        /\ \A kind, name : kind # "binding" => (<<kind, name>> \in news <=> <<kind, name>> \in news')
    BY <1>6 DEF ObservesBinding, Learns, server
  <2>1. CASE ~tracked \/ RolesOf[b] # {}
    BY <1>0, <1>6, <2>0, <2>1 DEF ObservesBinding, Indexes, Pending, Comes, TypeOK
  <2>2. CASE tracked /\ RolesOf[b] = {}
    <3>1. b \notin indexed /\ indexed' = indexed
      BY <1>6, <2>2 DEF ObservesBinding, Indexes, CopiesOK
    <3>2. \A c \in indexed : subjectsSeen'[c] = subjectsSeen[c]
      BY <1>6, <3>1 DEF ObservesBinding, TypeOK
    <3>3. \A d, bindings : Named(d, bindings)' = Named(d, bindings)
      BY <3>1, <3>2 DEF Named
    <3>4. queue' = queue
      BY <1>6, <2>2 DEF ObservesBinding, Indexes, TypeOK
    <3>5. RefsDue' = RefsDue /\ HasRead' = HasRead
      BY <2>0 DEF RefsDue, HasRead
    <3>6. ToDue' = ToDue
      BY <2>0, <3>3, <3>5 DEF ToDue
    <3>7. /\ WorkDue' = WorkDue
          /\ \A r \in Roles : Due(r, granted[r].to, chart)' = Due(r, granted[r].to, chart)
      BY <2>0, <3>3, <3>5, <3>6 DEF WorkDue, Due
    <3> QED BY <2>0, <3>4, <3>7 DEF Pending, Comes
  <2> QED BY <2>1, <2>2
<1>7. ASSUME NEW r \in Roles, ObservesRole(r)
      PROVE  Pending'
  <2>0. /\ UNCHANGED <<granted, chart, subjectsSeen, indexed, tracked, work>>
        /\ \A kind, name : kind # "role" => (<<kind, name>> \in news <=> <<kind, name>> \in news')
    BY <1>7 DEF ObservesRole, Learns, server
  <2>1. CASE ~tracked \/ Resolved(r)
    BY <1>0, <1>7, <2>0, <2>1 DEF ObservesRole, Pending, Comes, TypeOK
  <2>2. CASE tracked /\ ~Resolved(r)
    <3>1. roles[r] \in {"unlabelled", "absent"}
      BY <2>2 DEF Resolved
    <3>2. /\ rolesSeen'[r] \notin DefaultRoles \cup {"other"}
          /\ \A q \in Roles \ {r} : rolesSeen'[q] = rolesSeen[q]
      BY <1>7, <3>1, RCAssumption DEF ObservesRole, TypeOK
    <3>3. queue' = queue
      BY <1>7, <2>2 DEF ObservesRole, TypeOK
    <3>4. \A d, bindings : Named(d, bindings)' = Named(d, bindings)
      BY <2>0 DEF Named
    <3>5. RefsDue => RefsDue'
      BY <2>0, <3>2 DEF RefsDue
    <3>6. ToDue' = ToDue
      BY <2>0, <3>4 DEF ToDue, HasRead
    <3>7. WorkDue => WorkDue'
      BY <2>0, <3>5, <3>6 DEF WorkDue
    <3>8. \A q \in Roles : Due(q, granted[q].to, chart) => Due(q, granted[q].to, chart)'
      BY <2>0, <3>2, <3>4 DEF Due
    <3> QED BY <2>0, <3>3, <3>7, <3>8 DEF Pending, Comes
  <2> QED BY <2>1, <2>2
<1>8. CASE (\E r \in Roles : ObservesGrant(r)) \/ ObservesChart \/ ObservesSpec
  BY <1>0, <1>8 DEF ObservesGrant, ObservesChart, ObservesSpec
<1>9. CASE EnqueuesProjectHelmCharts \/ Resyncs \/ Restarts
  BY <1>0, <1>9 DEF EnqueuesProjectHelmCharts, Resyncs, Restarts
<1>10. ASSUME NEW b \in AllBindings, Binds(b)
       PROVE  Pending'
  BY <1>1, <1>10 DEF Binds, Change, copies
<1>11. ASSUME NEW r \in Roles, ChangesRole(r) \/ Uninstalls(r)
       PROVE  Pending'
  BY <1>1, <1>11 DEF ChangesRole, Uninstalls, Change, copies
<1>12. ASSUME NEW r \in Roles, Tampers(r)
       PROVE  Pending'
  <2>1. <<"grant", r>> \in Objects
    BY DEF Objects
  <2>2. /\ news' = news \cup {<<"grant", r>>}
        /\ \A q \in Roles \ {r} : granted'[q] = granted[q]
        /\ UNCHANGED <<chart, queue, tracked, copies, work>>
    BY <1>12, <2>1 DEF Tampers, Change, TypeOK
  <2> QED BY <1>1, <2>2 DEF copies
<1>13. ASSUME NEW n \in Namespaces, ChangesMembers(n)
       PROVE  Pending'
  BY <1>1, <1>13 DEF ChangesMembers, Change, copies
<1>14. CASE EditsSpec
  BY <1>1, <1>14 DEF EditsSpec, Change, copies
<1>15. CASE UNCHANGED vars
  BY <1>1, <1>15 DEF vars, server, seen
<1> QED BY <1>2, <1>3, <1>4, <1>5, <1>6, <1>7, <1>8, <1>9, <1>10, <1>11, <1>12, <1>13, <1>14,
           <1>15 DEF Next, Works, Observes, OthersChange

\* The invariant, from the start on.
LEMMA PendingAlways ==
  ASSUME OneRoleEach
  PROVE  Spec => [](Types /\ CopiesOK /\ Pending)
<1>1. Init => CopiesOK /\ Pending
  <2> SUFFICES ASSUME Init PROVE CopiesOK /\ Pending
    OBVIOUS
  <2>1. queue = TRUE /\ work = Idle
    BY DEF Init
  <2>2. CopiesOK
    BY <2>1, Nothing DEF Init, CopiesOK, Indexes
  <2> QED BY <2>1, <2>2 DEF Pending, Comes
<1>2. Types /\ CopiesOK /\ Pending /\ [Next]_vars => CopiesOK' /\ Pending'
  BY CopiesStep, PendingStep
<1> QED BY <1>1, <1>2, TypesAlways, PTL DEF Spec

\* When nothing is left to do, a Role of the release is granted to those who are bound to
\* its default role while there is a chart, and to nobody when the project has no
\* namespaces left and the chart is gone; for any number of bindings, Roles, users,
\* namespaces, changes, failures and restarts; when each default role has a ClusterRole of
\* its own.
THEOREM GrantsSettle ==
  ASSUME OneRoleEach
  PROVE  Spec => []SettledGrants
<1>1. Types /\ CopiesOK /\ Pending => SettledGrants
  <2> SUFFICES ASSUME Types, CopiesOK, Pending, Quiet, tracked, NEW r \in Roles
               PROVE  IF chart = NoValues THEN granted[r].to = {}
                      ELSE /\ roles[r] \in DefaultRoles => granted[r].to = Bound(roles[r], indexed)
                           /\ roles[r] = "other" => granted[r].to = {}
    BY DEF SettledGrants
  <2>1. ~Comes /\ work.pc = "idle" /\ news = {}
    BY DEF Quiet, Comes
  <2>2. Due(r, granted[r].to, chart) /\ rolesSeen[r] = roles[r]
    BY <2>1 DEF Pending, CopiesOK
  <2>3. \A b \in indexed : subjectsSeen[b] = subjects[b]
    BY <2>1 DEF CopiesOK, Types, TypeOK
  <2>4. \A d : Named(d, AllBindings) = Bound(d, indexed)
    BY <2>3 DEF Named, Bound, Types, TypeOK
  <2> QED BY <2>2, <2>4 DEF Due
<1> QED BY <1>1, PendingAlways, PTL

\* When nothing is left to do, the HelmChart has the values for the current spec.values
\* and the namespaces of the project, but for namespaces that left unannounced; and it is
\* gone if there are none.
ValuesFollowSpec ==
  Quiet /\ tracked =>
    \E M \in SUBSET Namespaces : members \subseteq M /\ chart = WantedValues(spec, M)

\* The values are those for the copy of spec.values, and for namespaces of which none has
\* left but those that nobody spoke of.
ValuesDue(values) ==
  \E M \in SUBSET Namespaces : members \subseteq M /\ values = WantedValues(specSeen, M)

\* The values that are read, applied or there are due, or the key comes.
ValuesPending ==
  ~Comes =>
    /\ work.pc # "idle" => ValuesDue(work.values)
    /\ work.pc = "idle" => <<"chart", "">> \in news \/ ValuesDue(chart)

\* No step leaves the key behind with values that are not due.
LEMMA ValuesPendingStep ==
  ASSUME Types, CopiesOK, ValuesPending, [Next]_vars
  PROVE  ValuesPending'
<1> USE DEF Types
<1>1. CASE queue' = TRUE
  BY <1>1 DEF ValuesPending, Comes
\* What the values depend on stays, but for namespaces that leave.
<1>2. ASSUME UNCHANGED <<specSeen, tracked, work, chart, queue>>, members' \subseteq members,
             \A kind \in {"chart", "registration"} :
               <<kind, "">> \in news => <<kind, "">> \in news'
      PROVE  ValuesPending'
  <2>1. Comes => Comes'
    BY <1>2 DEF Comes
  <2>2. \A values : ValuesDue(values) => ValuesDue(values)'
    BY <1>2 DEF ValuesDue, WantedValues
  <2> QED BY <1>2, <2>1, <2>2 DEF ValuesPending
<1>3. CASE Handles
  <2>1. CASE ~tracked
    BY <1>3, <2>1 DEF Handles, ValuesPending, Comes
  <2>2. CASE tracked
    <3>1. work'.values = WantedValues(specSeen, members)
      <4>1. CASE members = {}
        BY <1>3, <2>2, <4>1 DEF Handles, Idle, WantedValues
      <4>2. CASE members # {}
        BY <1>3, <2>2, <4>2 DEF Handles, Idle, WantedValues
      <4> QED BY <4>1, <4>2
    <3>2. work'.pc # "idle"
      <4>1. CASE members = {}
        BY <1>3, <2>2, <4>1 DEF Handles, Idle
      <4>2. CASE members # {}
        BY <1>3, <2>2, <4>2 DEF Handles, Idle
      <4> QED BY <4>1, <4>2
    <3>3. ValuesDue(work.values)'
      BY <1>3, <3>1 DEF Handles, server, seen, ValuesDue, WantedValues, TypeOK
    <3> QED BY <3>2, <3>3 DEF ValuesPending
  <2> QED BY <2>1, <2>2
<1>4. CASE ReadsBindings \/ ReadsClusterBindings
  <2>1. PICK pc, bindings, next : Reads(pc, bindings, next) /\ pc # "idle" /\ next # "idle"
    BY <1>4 DEF ReadsBindings, ReadsClusterBindings
  <2>2. /\ work.pc # "idle" /\ work'.pc # "idle" /\ work'.values = work.values
        /\ UNCHANGED <<server, tracked, seen, queue>>
    BY <2>1 DEF Reads, WorkOK
  <2>3. ValuesDue(work.values)' = ValuesDue(work.values)
    BY <2>2 DEF ValuesDue, WantedValues, seen, server
  <2> QED BY <2>2, <2>3 DEF ValuesPending, Comes, seen
<1>5. ASSUME NEW order \in AnyOrder, Applies(order)
      PROVE  ValuesPending'
  <2>1. /\ work.pc = "apply" /\ work'.pc = "idle" /\ UNCHANGED <<copies, members, queue, tracked>>
        /\ chart' = AppliedChart /\ Announces
    BY <1>5, Nothing DEF Applies
  <2>2. news \subseteq news' /\ (<<"chart", "">> \in news' \/ chart' = chart)
    BY <2>1 DEF Announces
  <2>3. ASSUME ~Comes, <<"chart", "">> \notin news'
        PROVE  ValuesDue(chart)'
    <3>1. ValuesDue(work.values)
      BY <2>1, <2>3 DEF ValuesPending
    <3>2. chartSeen = chart
      BY <2>2, <2>3 DEF CopiesOK
    <3>3. chart' = work.values
      BY <2>1, <2>2, <2>3, <3>2 DEF AppliedChart
    <3> QED BY <2>1, <3>1, <3>3 DEF ValuesDue, WantedValues, copies
  <2>4. Comes => Comes'
    BY <2>1, <2>2 DEF Comes
  <2> QED BY <2>1, <2>3, <2>4 DEF ValuesPending
<1>6. CASE ApplyFails
  BY <1>1, <1>6 DEF ApplyFails
<1>7. ASSUME NEW b \in AllBindings, ObservesBinding(b)
      PROVE  ValuesPending'
  BY <1>1, <1>2, <1>7 DEF ObservesBinding, Learns, server, TypeOK
<1>8. ASSUME NEW r \in Roles, ObservesRole(r)
      PROVE  ValuesPending'
  BY <1>1, <1>2, <1>8 DEF ObservesRole, Learns, server, TypeOK
<1>9. CASE (\E r \in Roles : ObservesGrant(r)) \/ ObservesChart \/ ObservesSpec
  BY <1>1, <1>9 DEF ObservesGrant, ObservesChart, ObservesSpec
<1>10. CASE EnqueuesProjectHelmCharts \/ Resyncs \/ Restarts
  BY <1>1, <1>10 DEF EnqueuesProjectHelmCharts, Resyncs, Restarts
<1>11. CASE Tracks
  BY <1>11 DEF Tracks, ValuesPending, Comes
<1>12. ASSUME NEW b \in AllBindings, Binds(b)
       PROVE  ValuesPending'
  BY <1>2, <1>12 DEF Binds, Change, copies
<1>13. ASSUME NEW r \in Roles, ChangesRole(r) \/ Uninstalls(r) \/ Tampers(r)
       PROVE  ValuesPending'
  BY <1>2, <1>13 DEF ChangesRole, Uninstalls, Tampers, Change, copies
\* Of a namespace that joins there is news.
<1>14. ASSUME NEW n \in Namespaces, ChangesMembers(n)
       PROVE  ValuesPending'
  <2>1. CASE members' \subseteq members
    BY <1>2, <1>14, <2>1 DEF ChangesMembers, Change, copies
  <2>2. CASE ~(members' \subseteq members)
    <3>1. <<"registration", "">> \in Objects
      BY DEF Objects
    <3>2. Change("join", "registration", "")
      BY <1>14, <2>2 DEF ChangesMembers, TypeOK
    <3> QED BY <3>1, <3>2 DEF Change, ValuesPending, Comes
  <2> QED BY <2>1, <2>2
<1>15. CASE EditsSpec
  BY <1>2, <1>15 DEF EditsSpec, Change, copies
<1>16. CASE UNCHANGED vars
  BY <1>2, <1>16 DEF vars, server, seen
<1> QED BY <1>3, <1>4, <1>5, <1>6, <1>7, <1>8, <1>9, <1>10, <1>11, <1>12, <1>13, <1>14, <1>15,
           <1>16 DEF Next, Works, Observes, OthersChange

\* No edit of spec.values and no namespace that joins is missed, whatever fails while the
\* values are applied; and a chart stays only while some namespace may be there.
THEOREM ValuesSettle == Spec => []ValuesFollowSpec
<1>1. Init => CopiesOK /\ ValuesPending
  <2> SUFFICES ASSUME Init PROVE CopiesOK /\ ValuesPending
    OBVIOUS
  <2>1. queue = TRUE /\ work = Idle
    BY DEF Init
  <2>2. CopiesOK
    BY <2>1, Nothing DEF Init, CopiesOK, Indexes
  <2> QED BY <2>1, <2>2 DEF ValuesPending, Comes
<1>2. Types /\ CopiesOK /\ ValuesPending /\ [Next]_vars => CopiesOK' /\ ValuesPending'
  BY CopiesStep, ValuesPendingStep
<1>3. Types /\ CopiesOK /\ ValuesPending => ValuesFollowSpec
  BY DEF ValuesPending, Comes, CopiesOK, Quiet, ValuesDue, ValuesFollowSpec
<1> QED BY <1>1, <1>2, <1>3, TypesAlways, PTL DEF Spec

-----------------------------------------------------------------------------
(* What getValues merges.  The recursive functions are what their          *)
(* definitions say because each of them looks back by one level only.      *)

MapsDef(g, n) == IF n = 0 THEN {} ELSE [Fields -> EntriesOver(g[n - 1])]
MergeDef(g, n) ==
  [layers \in MapsTo[n] \X MapsTo[n] |-> Merged(layers[1], layers[2], g[n - 1])]
PathsDef(g, n) == [f \in MapsTo[n] |-> PathsOf(f, g[n - 1])]

ByMaps == INSTANCE NatRecursion WITH Def <- MapsDef
ByMerge == INSTANCE NatRecursion WITH Def <- MergeDef
ByPaths == INSTANCE NatRecursion WITH Def <- PathsDef

\* Maps of one more level.
LEMMA MapsRecursion ==
  /\ MapsTo[0] = {}
  /\ \A n \in Nat : MapsTo[n + 1] = [Fields -> EntriesOver(MapsTo[n])]
<1>1. ByMaps!LooksBack
  BY DEF ByMaps!LooksBack, MapsDef
<1>2. MapsTo = CHOOSE g : g = [n \in Nat |-> MapsDef(g, n)]
  BY DEF MapsTo, MapsDef
<1>3. MapsTo = [n \in Nat |-> MapsDef(MapsTo, n)]
  <2> HIDE DEF MapsDef
  <2> QED BY <1>1, <1>2, ByMaps!Recursion
<1>4. \A n \in Nat : MapsTo[n] = MapsDef(MapsTo, n)
  <2> HIDE DEF MapsDef
  <2> QED BY <1>3
<1>5. ASSUME NEW n \in Nat PROVE MapsTo[n + 1] = [Fields -> EntriesOver(MapsTo[n])]
  <2>1. MapsTo[n + 1] = MapsDef(MapsTo, n + 1) /\ (n + 1) - 1 = n
    BY <1>4
  <2> QED BY <2>1 DEF MapsDef
<1>6. MapsTo[0] = {}
  BY <1>4 DEF MapsDef
<1> QED BY <1>5, <1>6

\* Maps of one more level are merged field by field.
LEMMA MergeRecursion ==
  \A n \in Nat : \A base, overlay \in MapsTo[n + 1] :
    MergeTo[n + 1][base, overlay] = Merged(base, overlay, MergeTo[n])
<1>1. ByMerge!LooksBack
  <2>1. ASSUME NEW n \in Nat, NEW g, NEW h, \A i \in 0 .. n - 1 : g[i] = h[i]
        PROVE  MergeDef(g, n) = MergeDef(h, n)
    <3>1. CASE n = 0
      BY <3>1, MapsRecursion DEF MergeDef
    <3>2. CASE n # 0
      BY <2>1, <3>2 DEF MergeDef
    <3> QED BY <3>1, <3>2
  <2> QED BY <2>1 DEF ByMerge!LooksBack
<1>2. MergeTo = CHOOSE g : g = [n \in Nat |-> MergeDef(g, n)]
  BY DEF MergeTo, MergeDef
<1>3. MergeTo = [n \in Nat |-> MergeDef(MergeTo, n)]
  <2> HIDE DEF MergeDef
  <2> QED BY <1>1, <1>2, ByMerge!Recursion
<1>4. \A n \in Nat : MergeTo[n] = MergeDef(MergeTo, n)
  <2> HIDE DEF MergeDef
  <2> QED BY <1>3
<1>5. ASSUME NEW n \in Nat, NEW base \in MapsTo[n + 1], NEW overlay \in MapsTo[n + 1]
      PROVE  MergeTo[n + 1][base, overlay] = Merged(base, overlay, MergeTo[n])
  <2>1. MergeTo[n + 1] = MergeDef(MergeTo, n + 1) /\ (n + 1) - 1 = n
    BY <1>4
  <2> QED BY <2>1 DEF MergeDef
<1> QED BY <1>5

\* The paths of maps of one more level.
LEMMA PathsRecursion ==
  \A n \in Nat : \A f \in MapsTo[n + 1] : PathsTo[n + 1][f] = PathsOf(f, PathsTo[n])
<1>1. ByPaths!LooksBack
  <2>1. ASSUME NEW n \in Nat, NEW g, NEW h, \A i \in 0 .. n - 1 : g[i] = h[i]
        PROVE  PathsDef(g, n) = PathsDef(h, n)
    <3>1. CASE n = 0
      BY <3>1, MapsRecursion DEF PathsDef
    <3>2. CASE n # 0
      BY <2>1, <3>2 DEF PathsDef
    <3> QED BY <3>1, <3>2
  <2> QED BY <2>1 DEF ByPaths!LooksBack
<1>2. PathsTo = CHOOSE g : g = [n \in Nat |-> PathsDef(g, n)]
  BY DEF PathsTo, PathsDef
<1>3. PathsTo = [n \in Nat |-> PathsDef(PathsTo, n)]
  <2> HIDE DEF PathsDef
  <2> QED BY <1>1, <1>2, ByPaths!Recursion
<1>4. \A n \in Nat : PathsTo[n] = PathsDef(PathsTo, n)
  <2> HIDE DEF PathsDef
  <2> QED BY <1>3
<1>5. ASSUME NEW n \in Nat, NEW f \in MapsTo[n + 1]
      PROVE  PathsTo[n + 1][f] = PathsOf(f, PathsTo[n])
  <2>1. PathsTo[n + 1] = PathsDef(PathsTo, n + 1) /\ (n + 1) - 1 = n
    BY <1>4
  <2> QED BY <2>1 DEF PathsDef
<1> QED BY <1>5
-----------------------------------------------------------------------------
\* What a field has is nothing, a leaf or a map.
LEMMA EntryKinds ==
  ASSUME NEW maps, NEW e \in EntriesOver(maps)
  PROVE  /\ e # None => HasEntries(e) \/ e \in Opaque
         /\ HasEntries(e) <=> IsMap(e)
         /\ IsMap(e) => e.at \in maps /\ e # None
         /\ e \in Opaque => e # None /\ ~HasEntries(e)
BY DEF EntriesOver, HasEntries, IsMap, Opaque, None

\* An entry that is a map.
LEMMA MapEntry ==
  ASSUME NEW f PROVE IsMap(Map(f)) /\ HasEntries(Map(f)) /\ Map(f) # None /\ Map(f).at = f
BY DEF IsMap, HasEntries, Map, None

\* Merging maps gives a map that is nested no deeper.
LEMMA MergedType ==
  \A n \in Nat : \A base, overlay \in MapsTo[n] : MergeTo[n][base, overlay] \in MapsTo[n]
<1> DEFINE S == {n \in Nat : \A base, overlay \in MapsTo[n] :
                                MergeTo[n][base, overlay] \in MapsTo[n]}
<1>1. 0 \in S
  BY MapsRecursion
<1>2. ASSUME NEW n \in Nat, n \in S PROVE n + 1 \in S
  <2>1. n + 1 \in Nat
    OBVIOUS
  <2>. SUFFICES ASSUME NEW base \in MapsTo[n + 1], NEW overlay \in MapsTo[n + 1]
                PROVE  MergeTo[n + 1][base, overlay] \in MapsTo[n + 1]
    BY <2>1, Zenon
  <2>2. MapsTo[n + 1] = [Fields -> EntriesOver(MapsTo[n])]
    BY MapsRecursion
  <2>3. MergeTo[n + 1][base, overlay] = Merged(base, overlay, MergeTo[n])
    BY MergeRecursion
  <2>4. ASSUME NEW k \in Fields, IsMap(base[k]), IsMap(overlay[k])
        PROVE  Map(MergeTo[n][base[k].at, overlay[k].at]) \in EntriesOver(MapsTo[n])
    <3>1. base[k].at \in MapsTo[n] /\ overlay[k].at \in MapsTo[n]
      BY <2>2, <2>4, EntryKinds
    <3>2. MergeTo[n][base[k].at, overlay[k].at] \in MapsTo[n]
      BY <1>2, <3>1
    <3> QED BY <3>2 DEF EntriesOver, Map
  <2> QED BY <2>2, <2>3, <2>4 DEF Merged
<1> HIDE DEF S
<1>3. S \in SUBSET Nat
  BY DEF S
<1>4. S = Nat
  BY <1>1, <1>2, <1>3, ByMaps!SetInduction
<1> QED BY <1>4 DEF S

-----------------------------------------------------------------------------
\* A path below a field.
LEMMA UnderType ==
  \A k \in Fields : \A q \in Seq(Fields) : Under(k, q) \in Seq(Fields) \ {<<>>}
<1> SUFFICES ASSUME NEW k \in Fields, NEW q \in Seq(Fields)
             PROVE  Under(k, q) \in Seq(Fields) \ {<<>>}
  OBVIOUS
<1>1. Under(k, q) \in Seq(Fields) /\ Len(Under(k, q)) = 1 + Len(q)
  BY DEF Under
<1> QED BY <1>1

\* Paths below fields compare as the fields and the rest do.
LEMMA UnderField ==
  \A k, j \in Fields : \A q, r \in Seq(Fields) :
    /\ Under(k, q) = Under(j, r) <=> k = j /\ q = r
    /\ LeadsTo(Under(k, q), Under(j, r)) <=> k = j /\ LeadsTo(q, r)
<1> SUFFICES ASSUME NEW k \in Fields, NEW j \in Fields,
                    NEW q \in Seq(Fields), NEW r \in Seq(Fields)
             PROVE  /\ Under(k, q) = Under(j, r) <=> k = j /\ q = r
                    /\ LeadsTo(Under(k, q), Under(j, r)) <=> k = j /\ LeadsTo(q, r)
  OBVIOUS
<1> DEFINE s == Under(k, q)
           t == Under(j, r)
<1>1. /\ s \in Seq(Fields) /\ t \in Seq(Fields)
      /\ Len(s) = Len(q) + 1 /\ s[1] = k /\ \A i \in 1 .. Len(q) : s[i + 1] = q[i]
      /\ Len(t) = Len(r) + 1 /\ t[1] = j /\ \A i \in 1 .. Len(r) : t[i + 1] = r[i]
  BY DEF Under
<1> HIDE DEF s, t
<1>2. s = t <=> k = j /\ q = r
  <2>1. ASSUME s = t PROVE k = j /\ q = r
    <3>1. Len(q) = Len(r) /\ k = j
      BY <1>1, <2>1
    <3>2. \A i \in 1 .. Len(q) : q[i] = r[i]
      BY <1>1, <2>1, <3>1
    <3> QED BY <3>1, <3>2
  <2> QED BY <2>1 DEF s, t
<1>3. ASSUME LeadsTo(s, t) PROVE k = j /\ LeadsTo(q, r)
  <2>1. Len(q) <= Len(r) /\ k = j
    BY <1>1, <1>3 DEF LeadsTo
  <2>2. ASSUME NEW i \in 1 .. Len(q) PROVE q[i] = r[i]
    <3>1. i + 1 \in 1 .. Len(s) /\ i \in 1 .. Len(r)
      BY <1>1, <2>1
    <3> QED BY <3>1, <1>1, <1>3 DEF LeadsTo
  <2> QED BY <2>1, <2>2 DEF LeadsTo
<1>4. ASSUME k = j, LeadsTo(q, r) PROVE LeadsTo(s, t)
  <2>1. ASSUME NEW i \in 1 .. Len(s) PROVE s[i] = t[i]
    <3>1. CASE i = 1
      BY <1>1, <1>4, <3>1
    <3>2. CASE i # 1
      <4>1. i - 1 \in 1 .. Len(q) /\ i - 1 \in 1 .. Len(r) /\ (i - 1) + 1 = i
        BY <1>1, <1>4, <3>2 DEF LeadsTo
      <4>2. s[(i - 1) + 1] = q[i - 1] /\ t[(i - 1) + 1] = r[i - 1]
        BY <4>1, <1>1
      <4> QED BY <4>1, <4>2, <1>4 DEF LeadsTo
    <3> QED BY <3>1, <3>2
  <2>2. Len(s) <= Len(t)
    BY <1>1, <1>4 DEF LeadsTo
  <2> QED BY <2>1, <2>2 DEF LeadsTo
<1> QED BY <1>2, <1>3, <1>4 DEF s, t

\* The empty path.
LEMMA LeadsToEnds ==
  \A q \in Seq(Fields) : LeadsTo(<<>>, q) /\ (LeadsTo(q, <<>>) <=> q = <<>>)
BY DEF LeadsTo

-----------------------------------------------------------------------------
\* Leaves and Decides, for maps that are nested at most n deep.
LeavesAt(n, f) == {p \in PathsTo[n][f] : ~HasEntries(p[2])}

DecidesAt(n, f, path) ==
  \E p \in PathsTo[n][f] : p[1] = path \/ (~HasEntries(p[2]) /\ LeadsTo(p[1], path))

\* The path p of f: to the field k, or through it.
PathIn(f, inside, p) ==
  \E k \in Fields :
    \/ f[k] # None /\ p = <<Under(k, <<>>), f[k]>>
    \/ HasEntries(f[k]) /\ \E q \in inside[f[k].at] : p = <<Under(k, q[1]), q[2]>>

\* These are the paths of f.
LEMMA PathsMember ==
  \A f, inside, p : p \in PathsOf(f, inside) <=> PathIn(f, inside, p)
<1> SUFFICES ASSUME NEW f, NEW inside, NEW p
             PROVE  p \in PathsOf(f, inside) <=> PathIn(f, inside, p)
  OBVIOUS
<1> DEFINE Through(k) == {<<Under(k, q[1]), q[2]>> : q \in inside[f[k].at]}
<1>1. p \in {<<<<k>>, f[k]>> : k \in {j \in Fields : f[j] # None}} <=>
        \E k \in Fields : f[k] # None /\ p = <<<<k>>, f[k]>>
  BY Zenon
<1>2. \A k \in Fields : Under(k, <<>>) = <<k>>
  BY DEF Under
<1>3. \A k : p \in Through(k) <=> \E q \in inside[f[k].at] : p = <<Under(k, q[1]), q[2]>>
  BY Zenon
<1> HIDE DEF Through
<1>4. p \in UNION {Through(k) : k \in {j \in Fields : HasEntries(f[j])}} <=>
        \E k \in Fields : HasEntries(f[k]) /\ p \in Through(k)
  OBVIOUS
<1>5. p \in PathsOf(f, inside) <=>
        \/ p \in {<<<<k>>, f[k]>> : k \in {j \in Fields : f[j] # None}}
        \/ p \in UNION {Through(k) : k \in {j \in Fields : HasEntries(f[j])}}
  BY Zenon DEF PathsOf, Through
<1>6. PathIn(f, inside, p) <=>
        \/ \E k \in Fields : f[k] # None /\ p = <<<<k>>, f[k]>>
        \/ \E k \in Fields : HasEntries(f[k]) /\ p \in Through(k)
  BY <1>2, <1>3, Zenon DEF PathIn
<1> QED BY <1>1, <1>4, <1>5, <1>6, Zenon

\* Paths are not empty.
LEMMA PathsType ==
  \A n \in Nat : \A f \in MapsTo[n] : \A p \in PathsTo[n][f] :
    p[1] \in Seq(Fields) \ {<<>>}
<1> DEFINE S == {n \in Nat : \A f \in MapsTo[n] : \A p \in PathsTo[n][f] :
                               p[1] \in Seq(Fields) \ {<<>>}}
<1>1. 0 \in S
  BY MapsRecursion
<1>2. ASSUME NEW n \in Nat, n \in S PROVE n + 1 \in S
  <2>1. ASSUME NEW f \in MapsTo[n + 1], NEW p \in PathsTo[n + 1][f]
        PROVE  p[1] \in Seq(Fields) \ {<<>>}
    <3>1. MapsTo[n + 1] = [Fields -> EntriesOver(MapsTo[n])]
      BY MapsRecursion
    <3>2. PathIn(f, PathsTo[n], p)
      BY <2>1, PathsRecursion, PathsMember
    <3>3. PICK k \in Fields :
            \/ p = <<Under(k, <<>>), f[k]>>
            \/ HasEntries(f[k]) /\ \E q \in PathsTo[n][f[k].at] : p = <<Under(k, q[1]), q[2]>>
      BY <3>2, Zenon DEF PathIn
    <3>4. CASE p = <<Under(k, <<>>), f[k]>>
      <4>1. p[1] = Under(k, <<>>) /\ <<>> \in Seq(Fields)
        BY <3>4
      <4> QED BY <4>1, UnderType
    <3>5. ASSUME HasEntries(f[k]), NEW q \in PathsTo[n][f[k].at], p = <<Under(k, q[1]), q[2]>>
          PROVE  p[1] \in Seq(Fields) \ {<<>>}
      <4>1. f[k].at \in MapsTo[n]
        BY <3>1, <3>5, EntryKinds
      <4>2. q[1] \in Seq(Fields) /\ p[1] = Under(k, q[1])
        BY <1>2, <4>1, <3>5
      <4> QED BY <4>2, UnderType
    <3> QED BY <3>3, <3>4, <3>5, Zenon
  <2> QED BY <2>1
<1> HIDE DEF S
<1>3. S \in SUBSET Nat
  BY DEF S
<1>4. S = Nat
  BY <1>1, <1>2, <1>3, ByMaps!SetInduction
<1> QED BY <1>4 DEF S

\* p is the leaf of f at the field k, or one below it.
LeafAt(n, f, k, p) ==
  \/ f[k] # None /\ ~HasEntries(f[k]) /\ p = <<Under(k, <<>>), f[k]>>
  \/ HasEntries(f[k]) /\ \E q \in LeavesAt(n, f[k].at) : p = <<Under(k, q[1]), q[2]>>

\* The leaves of a map are those of its fields.
LEMMA LeavesByField ==
  ASSUME NEW n \in Nat, NEW f \in MapsTo[n + 1], NEW p
  PROVE  p \in LeavesAt(n + 1, f) <=> \E k \in Fields : LeafAt(n, f, k, p)
<1>1. p \in PathsTo[n + 1][f] <=> PathIn(f, PathsTo[n], p)
  BY PathsRecursion, PathsMember, Zenon
<1>2. \A x, y : p = <<x, y>> => p[2] = y
  OBVIOUS
<1> QED BY <1>1, <1>2, Zenon DEF LeavesAt, LeafAt, PathIn

\* A layer decides about a field that it has, and about a path below the field if it has
\* a leaf there or a map that does.
LEMMA DecidesByField ==
  ASSUME NEW n \in Nat, NEW f \in MapsTo[n + 1], NEW k \in Fields
  PROVE  /\ DecidesAt(n + 1, f, Under(k, <<>>)) <=> f[k] # None
         /\ \A path \in Seq(Fields) \ {<<>>} :
              DecidesAt(n + 1, f, Under(k, path)) <=>
                \/ f[k] # None /\ ~HasEntries(f[k])
                \/ HasEntries(f[k]) /\ DecidesAt(n, f[k].at, path)
<1>1. \A p : p \in PathsTo[n + 1][f] <=> PathIn(f, PathsTo[n], p)
  BY PathsRecursion, PathsMember, Zenon
<1>2. ASSUME NEW j \in Fields, HasEntries(f[j]), NEW q \in PathsTo[n][f[j].at]
      PROVE  q[1] \in Seq(Fields) /\ q[1] # <<>>
  <2>1. f[j] \in EntriesOver(MapsTo[n])
    BY MapsRecursion
  <2>2. f[j].at \in MapsTo[n]
    BY <1>2, <2>1, EntryKinds
  <2> QED BY <2>2, PathsType
<1>3. ASSUME NEW path \in Seq(Fields)
      PROVE  DecidesAt(n + 1, f, Under(k, path)) <=>
               \/ f[k] # None /\ (<<>> = path \/ (~HasEntries(f[k]) /\ LeadsTo(<<>>, path)))
               \/ HasEntries(f[k]) /\ DecidesAt(n, f[k].at, path)
  <2> DEFINE Says(x, y, z) == x = z \/ (~HasEntries(y) /\ LeadsTo(x, z))
  <2>1. DecidesAt(n + 1, f, Under(k, path)) <=>
          \E p \in PathsTo[n + 1][f] : Says(p[1], p[2], Under(k, path))
    BY DEF DecidesAt
  <2>2. DecidesAt(n, f[k].at, path) <=>
          \E q \in PathsTo[n][f[k].at] : Says(q[1], q[2], path)
    BY DEF DecidesAt
  <2>3. \A j \in Fields : \A r \in Seq(Fields) : \A y :
          Says(Under(j, r), y, Under(k, path)) <=> j = k /\ Says(r, y, path)
    BY UnderField
  <2>4. \A x, y : <<x, y>>[1] = x /\ <<x, y>>[2] = y
    OBVIOUS
  <2>5. <<>> \in Seq(Fields)
    OBVIOUS
  <2>6. Says(<<>>, f[k], path) <=> <<>> = path \/ (~HasEntries(f[k]) /\ LeadsTo(<<>>, path))
    OBVIOUS
  <2> HIDE DEF Says
  <2>7. ASSUME DecidesAt(n + 1, f, Under(k, path))
        PROVE  \/ f[k] # None /\ Says(<<>>, f[k], path)
               \/ HasEntries(f[k]) /\ DecidesAt(n, f[k].at, path)
    <3>1. PICK p \in PathsTo[n + 1][f] : Says(p[1], p[2], Under(k, path))
      BY <2>1, <2>7
    <3>2. PICK j \in Fields :
            \/ f[j] # None /\ p = <<Under(j, <<>>), f[j]>>
            \/ HasEntries(f[j]) /\ \E q \in PathsTo[n][f[j].at] : p = <<Under(j, q[1]), q[2]>>
      BY <1>1, Zenon DEF PathIn
    <3>3. CASE f[j] # None /\ p = <<Under(j, <<>>), f[j]>>
      BY <3>1, <3>3, <2>3, <2>4, <2>5, Zenon
    <3>4. ASSUME HasEntries(f[j]), NEW q \in PathsTo[n][f[j].at], p = <<Under(j, q[1]), q[2]>>
          PROVE  HasEntries(f[k]) /\ DecidesAt(n, f[k].at, path)
      <4>1. Says(Under(j, q[1]), q[2], Under(k, path)) /\ q[1] \in Seq(Fields)
        BY <3>1, <3>4, <2>4, <1>2, Zenon
      <4>2. j = k /\ Says(q[1], q[2], path)
        BY <4>1, <2>3, Zenon
      <4> QED BY <4>2, <3>4, <2>2, Zenon
    <3> QED BY <3>2, <3>3, <3>4, Zenon
  <2>8. ASSUME f[k] # None, Says(<<>>, f[k], path)
        PROVE  DecidesAt(n + 1, f, Under(k, path))
    <3>1. <<Under(k, <<>>), f[k]>> \in PathsTo[n + 1][f]
      BY <1>1, <2>8, Zenon DEF PathIn
    <3>2. Says(Under(k, <<>>), f[k], Under(k, path))
      BY <2>3, <2>5, <2>8, Zenon
    <3> QED BY <3>1, <3>2, <2>1, <2>4, Zenon
  <2>9. ASSUME HasEntries(f[k]), DecidesAt(n, f[k].at, path)
        PROVE  DecidesAt(n + 1, f, Under(k, path))
    <3>1. PICK q \in PathsTo[n][f[k].at] : Says(q[1], q[2], path)
      BY <2>2, <2>9, Zenon
    <3>2. <<Under(k, q[1]), q[2]>> \in PathsTo[n + 1][f]
      BY <1>1, <2>9, Zenon DEF PathIn
    <3>3. Says(Under(k, q[1]), q[2], Under(k, path))
      BY <1>2, <2>3, <2>9, <3>1, Zenon
    <3> QED BY <3>2, <3>3, <2>1, <2>4, Zenon
  <2> QED BY <2>6, <2>7, <2>8, <2>9, Zenon
<1>4. <<>> \in Seq(Fields)
  OBVIOUS
<1>5. \A path \in Seq(Fields) : LeadsTo(<<>>, path)
  BY LeadsToEnds
<1>6. HasEntries(f[k]) => f[k] # None
  BY DEF HasEntries, None
<1> QED BY <1>3, <1>4, <1>5, <1>6, Zenon

-----------------------------------------------------------------------------
\* What is merged has the leaves of the overlay, and those of the base that the overlay
\* does not decide about.
LEMMA MergedLeaves ==
  \A n \in Nat : \A base, overlay \in MapsTo[n] :
    LeavesAt(n, MergeTo[n][base, overlay]) =
      {l \in LeavesAt(n, base) : ~DecidesAt(n, overlay, l[1])} \cup LeavesAt(n, overlay)
<1> DEFINE Fine(n, base, overlay) ==
             LeavesAt(n, MergeTo[n][base, overlay]) =
               {l \in LeavesAt(n, base) : ~DecidesAt(n, overlay, l[1])}
                 \cup LeavesAt(n, overlay)
           S == {n \in Nat : \A base, overlay \in MapsTo[n] : Fine(n, base, overlay)}
<1>1. 0 \in S
  BY MapsRecursion
<1>2. ASSUME NEW n \in Nat, n \in S,
             NEW base \in MapsTo[n + 1], NEW overlay \in MapsTo[n + 1]
      PROVE  Fine(n + 1, base, overlay)
  <2> DEFINE m == MergeTo[n + 1][base, overlay]
             Stays(k, p) == LeafAt(n, base, k, p) /\ ~DecidesAt(n + 1, overlay, p[1])
  <2>1. m \in MapsTo[n + 1]
    <3>1. n + 1 \in Nat
      OBVIOUS
    <3> QED BY <3>1, <1>2, MergedType
  <2>2. \A f \in MapsTo[n + 1] : \A k \in Fields : f[k] \in EntriesOver(MapsTo[n])
    BY MapsRecursion
  <2>3. ASSUME NEW k \in Fields
        PROVE  m[k] = IF IsMap(base[k]) /\ IsMap(overlay[k])
                      THEN Map(MergeTo[n][base[k].at, overlay[k].at])
                      ELSE IF overlay[k] = None THEN base[k] ELSE overlay[k]
    <3>1. m = Merged(base, overlay, MergeTo[n])
      BY <1>2, MergeRecursion
    <3> HIDE DEF m
    <3> QED BY <3>1 DEF Merged
  <2> HIDE DEF m
  <2>4. \A x, y : <<x, y>>[1] = x /\ <<x, y>>[2] = y
    OBVIOUS
  <2>5. ASSUME NEW k \in Fields, HasEntries(base[k]), NEW q \in LeavesAt(n, base[k].at)
        PROVE  q[1] \in Seq(Fields) \ {<<>>}
    <3>1. base[k].at \in MapsTo[n]
      BY <2>2, <2>5, EntryKinds
    <3> QED BY <3>1, PathsType DEF LeavesAt
  <2>6. ASSUME NEW k \in Fields, NEW p
        PROVE  LeafAt(n, m, k, p) <=> Stays(k, p) \/ LeafAt(n, overlay, k, p)
    <3>1. CASE IsMap(base[k]) /\ IsMap(overlay[k])
      <4> DEFINE b == base[k].at
                 o == overlay[k].at
                 mk == MergeTo[n][b, o]
      <4>1. b \in MapsTo[n] /\ o \in MapsTo[n] /\ HasEntries(base[k]) /\ HasEntries(overlay[k])
        BY <3>1, <2>2, EntryKinds
      <4>2. HasEntries(m[k]) /\ m[k].at = mk
        BY <3>1, <2>3, MapEntry
      <4>3. LeavesAt(n, mk) =
              {l \in LeavesAt(n, b) : ~DecidesAt(n, o, l[1])} \cup LeavesAt(n, o)
        BY <1>2, <4>1
      <4>4. ASSUME NEW q \in LeavesAt(n, b)
            PROVE  DecidesAt(n + 1, overlay, Under(k, q[1])) <=> DecidesAt(n, o, q[1])
        BY <4>1, <2>5, DecidesByField, Zenon
      <4> HIDE DEF b, o, mk
      <4>5. LeafAt(n, m, k, p) <=> \E q \in LeavesAt(n, mk) : p = <<Under(k, q[1]), q[2]>>
        BY <4>2, Zenon DEF LeafAt
      <4>6. LeafAt(n, overlay, k, p) <=> \E q \in LeavesAt(n, o) : p = <<Under(k, q[1]), q[2]>>
        BY <4>1, Zenon DEF LeafAt, o
      <4>7. LeafAt(n, base, k, p) <=> \E q \in LeavesAt(n, b) : p = <<Under(k, q[1]), q[2]>>
        BY <4>1, Zenon DEF LeafAt, b
      <4>8. Stays(k, p) <=>
              \E q \in LeavesAt(n, b) : p = <<Under(k, q[1]), q[2]>> /\ ~DecidesAt(n, o, q[1])
        <5>1. ASSUME NEW q \in LeavesAt(n, b), p = <<Under(k, q[1]), q[2]>>
              PROVE  DecidesAt(n + 1, overlay, p[1]) <=> DecidesAt(n, o, q[1])
          <6>1. p[1] = Under(k, q[1])
            BY <5>1, <2>4, Zenon
          <6> QED BY <4>4, <6>1
        <5> QED BY <4>7, <5>1, Zenon
      <4> HIDE DEF Stays
      <4>9. \A q : q \in LeavesAt(n, mk) <=>
                     \/ q \in LeavesAt(n, b) /\ ~DecidesAt(n, o, q[1])
                     \/ q \in LeavesAt(n, o)
        BY <4>3, Zenon
      <4> QED BY <4>5, <4>6, <4>8, <4>9, Zenon
    <3>2. CASE ~(IsMap(base[k]) /\ IsMap(overlay[k])) /\ overlay[k] = None
      <4>1. m[k] = base[k]
        BY <3>2, <2>3
      <4>2. ~HasEntries(overlay[k])
        BY <3>2 DEF HasEntries, None
      <4>3. ~LeafAt(n, overlay, k, p)
        BY <4>2, <3>2, Zenon DEF LeafAt
      <4>4. LeafAt(n, m, k, p) <=> LeafAt(n, base, k, p)
        BY <4>1, Zenon DEF LeafAt
      <4>5. ASSUME LeafAt(n, base, k, p) PROVE ~DecidesAt(n + 1, overlay, p[1])
        <5>1. \A path \in Seq(Fields) : ~DecidesAt(n + 1, overlay, Under(k, path))
          BY <3>2, <4>2, DecidesByField, Zenon
        <5>2. <<>> \in Seq(Fields)
          OBVIOUS
        <5>3. CASE p = <<Under(k, <<>>), base[k]>>
          BY <5>1, <5>2, <5>3, <2>4, Zenon
        <5>4. ASSUME HasEntries(base[k]), NEW q \in LeavesAt(n, base[k].at),
                     p = <<Under(k, q[1]), q[2]>>
              PROVE  ~DecidesAt(n + 1, overlay, p[1])
          <6>1. q[1] \in Seq(Fields)
            BY <2>5, <5>4
          <6> QED BY <5>1, <5>4, <6>1, <2>4, Zenon
        <5> QED BY <4>5, <5>3, <5>4, Zenon DEF LeafAt
      <4> QED BY <4>3, <4>4, <4>5, Zenon
    <3>3. CASE ~(IsMap(base[k]) /\ IsMap(overlay[k])) /\ overlay[k] # None
      <4>1. m[k] = overlay[k]
        BY <3>3, <2>3
      <4>2. LeafAt(n, m, k, p) <=> LeafAt(n, overlay, k, p)
        BY <4>1, Zenon DEF LeafAt
      <4>3. ASSUME LeafAt(n, base, k, p) PROVE DecidesAt(n + 1, overlay, p[1])
        <5>1. CASE p = <<Under(k, <<>>), base[k]>>
          BY <3>3, <5>1, <2>4, DecidesByField, Zenon
        <5>2. ASSUME HasEntries(base[k]), NEW q \in LeavesAt(n, base[k].at),
                     p = <<Under(k, q[1]), q[2]>>
              PROVE  DecidesAt(n + 1, overlay, p[1])
          <6>1. q[1] \in Seq(Fields) \ {<<>>}
            BY <2>5, <5>2
          <6>2. ~HasEntries(overlay[k])
            BY <3>3, <5>2, <2>2, EntryKinds
          <6>3. DecidesAt(n + 1, overlay, Under(k, q[1]))
            BY <3>3, <6>1, <6>2, DecidesByField, Zenon
          <6> QED BY <5>2, <6>3, <2>4, Zenon
        <5> QED BY <4>3, <5>1, <5>2, Zenon DEF LeafAt
      <4> QED BY <4>2, <4>3, Zenon
    <3> QED BY <3>1, <3>2, <3>3
  <2>7. ASSUME NEW f \in MapsTo[n + 1], NEW p
        PROVE  p \in LeavesAt(n + 1, f) <=> \E k \in Fields : LeafAt(n, f, k, p)
    BY <1>2, LeavesByField
  <2>8. \A p : p \in LeavesAt(n + 1, m) <=>
          \/ p \in LeavesAt(n + 1, base) /\ ~DecidesAt(n + 1, overlay, p[1])
          \/ p \in LeavesAt(n + 1, overlay)
    BY <2>1, <2>6, <2>7, Zenon
  <2> QED BY <2>8 DEF m
<1> HIDE DEF Fine
<1>3. \A n \in Nat : n \in S => n + 1 \in S
  BY <1>2
<1> HIDE DEF S
<1>4. S \in SUBSET Nat
  BY DEF S
<1>5. S = Nat
  BY <1>1, <1>3, <1>4, ByMaps!SetInduction
<1> QED BY <1>5 DEF S, Fine

-----------------------------------------------------------------------------
\* A map that is written down field by field.
LEMMA EntriesType ==
  ASSUME NEW n \in Nat, NEW f, DOMAIN f \subseteq Fields,
         \A k \in DOMAIN f : f[k] \in EntriesOver(MapsTo[n])
  PROVE  Entries(f) \in MapsTo[n + 1]
<1>1. None \in EntriesOver(MapsTo[n])
  BY DEF EntriesOver
<1>2. Entries(f) \in [Fields -> EntriesOver(MapsTo[n])]
  BY <1>1 DEF Entries
<1> QED BY <1>2, MapsRecursion

\* A leaf may be in any map.
LEMMA LeafType ==
  ASSUME NEW maps, NEW says \in SUBSET Texts PROVE Leaf(says) \in EntriesOver(maps)
BY DEF Leaf, EntriesOver, Opaque

\* A map may be in a map.
LEMMA MapType ==
  ASSUME NEW maps, NEW f \in maps PROVE Map(f) \in EntriesOver(maps)
BY DEF Map, EntriesOver

\* What is below global.cattle is three levels deeper.
LEMMA CattleType ==
  ASSUME NEW n \in Nat, NEW f, DOMAIN f \subseteq Fields,
         \A k \in DOMAIN f : f[k] \in EntriesOver(MapsTo[n])
  PROVE  Cattle(f) \in MapsTo[n + 3]
<1> DEFINE g == [cattle |-> Map(Entries(f))]
           h == [global |-> Map(Entries(g))]
<1>1. Map(Entries(f)) \in EntriesOver(MapsTo[n + 1])
  BY EntriesType, MapType
<1>2. DOMAIN g \subseteq Fields /\ \A k \in DOMAIN g : g[k] \in EntriesOver(MapsTo[n + 1])
  BY <1>1, ValuesAssumption DEF ValuesAssumption
<1> HIDE DEF g
<1>3. n + 1 \in Nat /\ (n + 1) + 1 = n + 2 /\ n + 2 \in Nat /\ (n + 2) + 1 = n + 3
  OBVIOUS
<1>4. Map(Entries(g)) \in EntriesOver(MapsTo[n + 2])
  <2>1. Entries(g) \in MapsTo[n + 2]
    BY <1>2, <1>3, EntriesType
  <2> QED BY <2>1, MapType
<1>5. DOMAIN h \subseteq Fields /\ \A k \in DOMAIN h : h[k] \in EntriesOver(MapsTo[n + 2])
  BY <1>4, ValuesAssumption DEF ValuesAssumption
<1> HIDE DEF h
<1>6. Entries(h) \in MapsTo[n + 3]
  BY <1>3, <1>5, EntriesType
<1> QED BY <1>6 DEF Cattle, g, h

\* The operator's own layers are maps.
LEMMA LayersType ==
  /\ DefaultValues \in MapsTo[Depth]
  /\ \A namespaces \in SUBSET Texts : RequiredValues(namespaces) \in MapsTo[Depth]
<1>1. Depth - 3 \in Nat /\ Depth - 4 \in Nat /\ (Depth - 3) + 3 = Depth /\ (Depth - 4) + 1 = Depth - 3
  BY ValuesAssumption DEF ValuesAssumption
<1>2. DefaultValues \in MapsTo[Depth]
  <2> DEFINE f == [url |-> Leaf({"default"})]
  <2>1. DOMAIN f \subseteq Fields /\ \A k \in DOMAIN f : f[k] \in EntriesOver(MapsTo[Depth - 3])
    BY LeafType, ValuesAssumption DEF ValuesAssumption
  <2> HIDE DEF f
  <2>2. Cattle(f) \in MapsTo[Depth]
    BY <1>1, <2>1, CattleType
  <2> QED BY <2>2 DEF DefaultValues, f
<1>3. ASSUME NEW namespaces \in SUBSET Texts PROVE RequiredValues(namespaces) \in MapsTo[Depth]
  <2> DEFINE g == [matchLabels |-> Leaf({"project"})]
             f == [projectNamespaces |-> Leaf(namespaces), projectID |-> Leaf({"project"}),
                   projectNamespaceSelector |-> Map(Entries(g))]
  <2>1. DOMAIN g \subseteq Fields /\ \A k \in DOMAIN g : g[k] \in EntriesOver(MapsTo[Depth - 4])
    BY LeafType, ValuesAssumption DEF ValuesAssumption
  <2> HIDE DEF g
  <2>2. Entries(g) \in MapsTo[Depth - 3]
    BY <1>1, <2>1, EntriesType
  <2>3. Map(Entries(g)) \in EntriesOver(MapsTo[Depth - 3])
    BY <2>2, MapType
  <2>4. /\ Leaf(namespaces) \in EntriesOver(MapsTo[Depth - 3])
        /\ Leaf({"project"}) \in EntriesOver(MapsTo[Depth - 3])
    BY LeafType, ValuesAssumption DEF ValuesAssumption
  <2>5. DOMAIN f \subseteq Fields /\ \A k \in DOMAIN f : f[k] \in EntriesOver(MapsTo[Depth - 3])
    BY <2>3, <2>4, ValuesAssumption DEF ValuesAssumption
  <2> HIDE DEF f
  <2>6. Cattle(f) \in MapsTo[Depth]
    BY <1>1, <2>5, CattleType
  <2> QED BY <2>6 DEF RequiredValues, ProjectNamespaceSelector, f, g
<1> QED BY <1>2, <1>3

-----------------------------------------------------------------------------
\* For all spec.values, overrides and namespaces, however deep they are nested, the
\* values that getValues returns are the four layers, overlaid.
THEOREM GetValuesOverlays ==
  ASSUME NEW values \in MapsTo[Depth], NEW override \in MapsTo[Depth],
         NEW namespaces \in SUBSET Texts
  PROVE  Leaves(GetValues(values, override, namespaces)) =
           Overlaid(<<DefaultValues, values, override, RequiredValues(namespaces)>>)
<1> DEFINE a == DefaultValues
           d == RequiredValues(namespaces)
           layers == <<a, values, override, d>>
<1>1. a \in MapsTo[Depth] /\ d \in MapsTo[Depth] /\ Depth \in Nat
  BY LayersType, ValuesAssumption DEF ValuesAssumption
<1>2. ASSUME NEW base \in MapsTo[Depth], NEW overlay \in MapsTo[Depth]
      PROVE  /\ MergeMaps(base, overlay) \in MapsTo[Depth]
             /\ \A l : l \in Leaves(MergeMaps(base, overlay)) <=>
                         \/ l \in Leaves(base) /\ ~Decides(overlay, l[1])
                         \/ l \in Leaves(overlay)
  <2>1. \A f : Leaves(f) = LeavesAt(Depth, f) /\ \A path : Decides(f, path) <=> DecidesAt(Depth, f, path)
    BY DEF Leaves, LeavesAt, Decides, DecidesAt, Paths
  <2>2. MergeMaps(base, overlay) = MergeTo[Depth][base, overlay]
    BY DEF MergeMaps
  <2>3. MergeMaps(base, overlay) \in MapsTo[Depth]
    BY <1>1, <2>2, MergedType
  <2>4. LeavesAt(Depth, MergeMaps(base, overlay)) =
          {l \in LeavesAt(Depth, base) : ~DecidesAt(Depth, overlay, l[1])}
            \cup LeavesAt(Depth, overlay)
    BY <1>1, <2>2, MergedLeaves
  <2> QED BY <2>1, <2>3, <2>4
<1> DEFINE v == MergeMaps(a, values)
           w == MergeMaps(v, override)
           x == MergeMaps(w, d)
<1> HIDE DEF a, d
<1>3. v \in MapsTo[Depth] /\ w \in MapsTo[Depth]
  BY <1>1, <1>2
<1>4. /\ \A l : l \in Leaves(v) <=> l \in Leaves(values) \/ (l \in Leaves(a) /\ ~Decides(values, l[1]))
      /\ \A l : l \in Leaves(w) <=> l \in Leaves(override) \/ (l \in Leaves(v) /\ ~Decides(override, l[1]))
      /\ \A l : l \in Leaves(x) <=> l \in Leaves(d) \/ (l \in Leaves(w) /\ ~Decides(d, l[1]))
  <2> HIDE DEF v, w
  <2> QED BY <1>1, <1>2, <1>3 DEF v, w
<1> HIDE DEF v, w, x
<1>5. \A l : l \in Overlaid(layers) <=>
        \/ l \in Leaves(a) /\ ~Decides(values, l[1]) /\ ~Decides(override, l[1]) /\ ~Decides(d, l[1])
        \/ l \in Leaves(values) /\ ~Decides(override, l[1]) /\ ~Decides(d, l[1])
        \/ l \in Leaves(override) /\ ~Decides(d, l[1])
        \/ l \in Leaves(d)
  <2> DEFINE Last(i) == {l \in Leaves(layers[i]) :
                           \A j \in i + 1 .. Len(layers) : ~Decides(layers[j], l[1])}
  <2>1. /\ Len(layers) = 4
        /\ layers[1] = a /\ layers[2] = values /\ layers[3] = override /\ layers[4] = d
    OBVIOUS
  <2>2. 1 .. 4 = {1, 2, 3, 4} /\ 1 + 1 .. 4 = {2, 3, 4} /\ 2 + 1 .. 4 = {3, 4} /\ 3 + 1 .. 4 = {4} /\ 4 + 1 .. 4 = {}
    OBVIOUS
  <2>3. Overlaid(layers) = UNION {Last(i) : i \in {1, 2, 3, 4}}
    BY <2>1, <2>2 DEF Overlaid
  <2> HIDE DEF layers
  <2>4. /\ \A l : l \in Last(1) <=> /\ l \in Leaves(a) /\ ~Decides(values, l[1])
                                    /\ ~Decides(override, l[1]) /\ ~Decides(d, l[1])
        /\ \A l : l \in Last(2) <=> l \in Leaves(values) /\ ~Decides(override, l[1]) /\ ~Decides(d, l[1])
        /\ \A l : l \in Last(3) <=> l \in Leaves(override) /\ ~Decides(d, l[1])
        /\ \A l : l \in Last(4) <=> l \in Leaves(d)
    BY <2>1, <2>2
  <2> HIDE DEF Last
  <2>5. \A l : l \in Overlaid(layers) <=> l \in Last(1) \/ l \in Last(2) \/ l \in Last(3) \/ l \in Last(4)
    BY <2>3
  <2> QED BY <2>4, <2>5
<1>6. Leaves(x) = Overlaid(layers)
  <2> HIDE DEF layers
  <2>1. \A l : l \in Leaves(x) <=> l \in Overlaid(layers)
    BY <1>4, <1>5
  <2> QED BY <2>1
<1> QED BY <1>6 DEF GetValues, a, d, v, w, x

\* When nothing is left to do, the values of the HelmChart are the four layers with the
\* current spec.values and the namespaces of the project (but for those that left
\* unannounced), overlaid; and without namespaces there is no HelmChart: for all values
\* that may be in them.
THEOREM ValuesAlwaysOverlaid == Spec => []ValuesAreOverlaid
<1>1. Types /\ ValuesFollowSpec => ValuesAreOverlaid
  <2> SUFFICES ASSUME Types, ValuesFollowSpec, Quiet, tracked
               PROVE  \E M \in SUBSET Namespaces :
                        /\ members \subseteq M
                        /\ IF M = {} THEN chart = NoValues
                           ELSE Leaves(chart) =
                                  Overlaid(<<DefaultValues, spec, ValuesOverride,
                                             RequiredValues(M \cup ReleaseNamespaces)>>)
    BY DEF ValuesAreOverlaid
  <2>1. PICK M \in SUBSET Namespaces : members \subseteq M /\ chart = WantedValues(spec, M)
    BY DEF ValuesFollowSpec
  <2>2. CASE M = {}
    BY <2>1, <2>2 DEF WantedValues
  <2>3. CASE M # {}
    <3> DEFINE targets == M \cup ReleaseNamespaces
    <3>1. spec \in SpecValues /\ targets \in SUBSET (Namespaces \cup ReleaseNamespaces)
      BY DEF Types, TypeOK
    <3>2. chart = ValuesFor(spec, targets)
      BY <2>1, <2>3 DEF WantedValues
    <3> HIDE DEF targets
    <3>3. chart = GetValues(spec, ValuesOverride, targets)
      BY <3>1, <3>2, RVAssumption DEF RVAssumption
    <3>4. /\ spec \in MapsTo[Depth] /\ ValuesOverride \in MapsTo[Depth]
          /\ targets \in SUBSET Texts
      BY <3>1, RVAssumption DEF RVAssumption
    <3>5. Leaves(chart) = Overlaid(<<DefaultValues, spec, ValuesOverride, RequiredValues(targets)>>)
      BY <3>3, <3>4, GetValuesOverlays, Zenon
    <3> QED BY <2>1, <2>3, <3>5 DEF targets
  <2> QED BY <2>2, <2>3
<1> QED BY <1>1, TypesAlways, ValuesSettle, PTL
=============================================================================
