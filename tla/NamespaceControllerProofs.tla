---------------------- MODULE NamespaceControllerProofs ----------------------
(* Proofs about the namespace controller, for all projects and namespaces. *)
EXTENDS NamespaceController, TLAPS

\* The objects that are stored, and what the steps of the handlers and of the
\* apply functions carry.
LEMMA Objects ==
  /\ Gone \in Object
  /\ \A l \in Labels : User(l) \in Object
  /\ \A p \in Projects, b \in BOOLEAN : Registration(p, b) \in Object
  /\ \A o \in Object, h \in Projects \cup {None} : [o EXCEPT !.helm = h] \in Object
  /\ \A o \in Object, l \in Labels : [o EXCEPT !.project = l] \in Object
  /\ \A o \in Object, f \in {"Absent", "Active", "Terminating"} : [o EXCEPT !.phase = f] \in Object
  /\ \A o \in Object : /\ o.phase \in {"Absent", "Active", "Terminating"}
                       /\ o.project \in Labels
                       /\ o.helm \in Projects \cup {None, Empty}
                       /\ o.orphaned \in BOOLEAN
BY DEF Object, Gone, User, Registration, Labels

\* What a patch stores.
LEMMA PatchedObject ==
  \A o, known, wanted \in Object :
    /\ Patched(o, known, wanted) \in Object
    /\ Patched(o, known, wanted).phase = o.phase
    /\ Patched(o, known, wanted).project \in {o.project, wanted.project}
<1> SUFFICES ASSUME NEW o \in Object, NEW known \in Object, NEW wanted \in Object
             PROVE  /\ Patched(o, known, wanted) \in Object
                    /\ Patched(o, known, wanted).phase = o.phase
                    /\ Patched(o, known, wanted).project \in {o.project, wanted.project}
  OBVIOUS
<1>1. \E l \in {o.project, wanted.project}, h \in {o.helm, wanted.helm},
         b \in {o.orphaned, wanted.orphaned} :
        Patched(o, known, wanted) = [o EXCEPT !.project = l, !.helm = h, !.orphaned = b]
  BY DEF Patched
<1> QED BY <1>1 DEF Object

\* The steps of a handler between its calls.
LEMMA Steps ==
  /\ Idle \in HandlerStep /\ [pc |-> "untrack"] \in HandlerStep
  /\ \A l \in Labels : [pc |-> "update", label |-> l] \in HandlerStep
  /\ \A s \in HandlerStep : s.pc \in {"update", "again"} =>
       s.label \in Labels /\ [s EXCEPT !.pc = "again"] \in HandlerStep
  /\ Idle \in ApplyStep
  /\ \A b \in BOOLEAN : [pc |-> "apply", orphaned |-> b] \in ApplyStep
  /\ [pc |-> "get"] \in ApplyStep /\ [pc |-> "config"] \in ApplyStep
  /\ [pc |-> "create"] \in ApplyStep
  /\ \A l \in Labels, b \in BOOLEAN :
       [pc |-> "track", label |-> l, terminating |-> b] \in ApplyStep
  /\ \A s \in ApplyStep : /\ s.pc = "apply" => s.orphaned \in BOOLEAN
                          /\ s.pc = "track" => s.label \in Labels /\ s.terminating \in BOOLEAN
BY DEF HandlerStep, ApplyStep, Idle

\* A fresh process has the right types, whatever it did before.
LEMMA ExitType ==
  ASSUME NCTypeOK, Exit, BudgetOK'
  PROVE  NCTypeOK'
BY NCAssumption, Objects, Steps
  DEF NCTypeOK, ObjectsOK, ConfigsOK, HandlersOK, TrackerOK, AppliesOK, BudgetOK, Exit, server,
      Labels

\* So does one whose handler returned an error.
LEMMA ErrsType ==
  ASSUME NCTypeOK, NEW n \in Names, NEW c, Errs(n, c), BudgetOK'
  PROVE  NCTypeOK'
<1>1. CASE Exit
  BY <1>1, ExitType
<1>2. CASE ~Exit
  BY <1>2, NCAssumption, Steps
     DEF NCTypeOK, ObjectsOK, ConfigsOK, HandlersOK, TrackerOK, AppliesOK, BudgetOK, Errs, server,
         applying, requests, caches
<1> QED BY <1>1, <1>2

\* A request keeps the types of the applyinator.
LEMMA RequestsType ==
  ASSUME AppliesOK, NEW l, Requests(l) PROVE AppliesOK'
<1>1. CASE l \in Projects
  <2>1. /\ run' = run /\ pending' = pending \cup {l}
        /\ retrying' = retrying /\ closed' = closed
    BY <1>1 DEF Requests, A!Request
  <2> QED BY <1>1, <2>1 DEF AppliesOK
<1>2. CASE l \notin Projects
  BY <1>2 DEF Requests, AppliesOK, applying, requests
<1> QED BY <1>1, <1>2

\* Every step keeps the types.
LEMMA NextType ==
  ASSUME NCTypeOK, [Next]_vars PROVE NCTypeOK'
<1>1. CASE Crash
  BY <1>1, NCAssumption, ExitType DEF NCTypeOK, ObjectsOK, ConfigsOK, HandlersOK, TrackerOK,
     AppliesOK, BudgetOK, Crash, Fault, budget
<1>2. CASE GivesUp
  BY <1>2, NCAssumption, ExitType DEF NCTypeOK, ObjectsOK, ConfigsOK, HandlersOK, TrackerOK,
     AppliesOK, BudgetOK, GivesUp, budget
<1>3. CASE GivesUpEarly
  BY <1>3, NCAssumption, ExitType DEF NCTypeOK, ObjectsOK, ConfigsOK, HandlersOK, TrackerOK,
     AppliesOK, BudgetOK, GivesUpEarly, Fault, budget
<1>4. CASE Starts
  BY <1>4, NCAssumption, Objects, Steps DEF NCTypeOK, ObjectsOK, ConfigsOK, HandlersOK,
     TrackerOK, AppliesOK, BudgetOK, Starts, Names, server, handling, applying, requests,
     caches, budget
<1>5. CASE Serves
  BY <1>5, NCAssumption, Objects, Steps DEF NCTypeOK, ObjectsOK, ConfigsOK, HandlersOK,
     TrackerOK, AppliesOK, BudgetOK, Serves, Names, server, handling, applying, requests,
     caches, budget
<1>6. ASSUME NEW n \in Names, HandlesNothing(n) PROVE NCTypeOK'
  <2>1. ObjectsOK'
    BY <1>6, NCAssumption, Objects DEF NCTypeOK, ObjectsOK, ConfigsOK, HandlersOK, TrackerOK,
       AppliesOK, BudgetOK, HandlesNothing, Ends, Names, Labels, server, handling, applying,
       requests, caches, budget
  <2>2. ConfigsOK'
    BY <1>6, NCAssumption DEF NCTypeOK, ObjectsOK, ConfigsOK, HandlersOK, TrackerOK, AppliesOK,
       BudgetOK, HandlesNothing, Ends, Names, Labels, server, handling, applying, requests,
       caches, budget
  <2>3. HandlersOK'
    BY <1>6, NCAssumption, Steps DEF NCTypeOK, ObjectsOK, ConfigsOK, HandlersOK, TrackerOK,
       AppliesOK, BudgetOK, HandlesNothing, Ends, Names, Labels, server, handling, applying,
       requests, caches, budget
  <2>4. TrackerOK'
    BY <1>6, NCAssumption, Steps DEF NCTypeOK, ObjectsOK, ConfigsOK, HandlersOK, TrackerOK,
       AppliesOK, BudgetOK, HandlesNothing, Ends, Names, Labels, server, handling, applying,
       requests, caches, budget
  <2>5. AppliesOK'
    BY <1>6, NCAssumption, Steps, Objects DEF NCTypeOK, ObjectsOK, ConfigsOK, HandlersOK,
       TrackerOK, AppliesOK, BudgetOK, HandlesNothing, Ends, Names, Labels, server, handling,
       applying, requests, caches, budget
  <2>6. BudgetOK'
    BY <1>6, NCAssumption DEF NCTypeOK, ObjectsOK, ConfigsOK, HandlersOK, TrackerOK, AppliesOK,
       BudgetOK, HandlesNothing, Ends, Names, Labels, server, handling, applying, requests,
       caches, budget
  <2> QED BY <2>1, <2>2, <2>3, <2>4, <2>5, <2>6 DEF NCTypeOK
<1>7. ASSUME NEW n \in Names, HandlesRegular(n) PROVE NCTypeOK'
  <2>1. ObjectsOK'
    BY <1>7, NCAssumption, Objects DEF NCTypeOK, ObjectsOK, ConfigsOK, HandlersOK, TrackerOK,
       AppliesOK, BudgetOK, HandlesRegular, IsRegular, MayHandle, Ends, Requests, A!Request,
       Names, Labels, server, handling, applying, requests, caches, budget
  <2>2. ConfigsOK'
    BY <1>7, NCAssumption DEF NCTypeOK, ObjectsOK, ConfigsOK, HandlersOK, TrackerOK, AppliesOK,
       BudgetOK, HandlesRegular, IsRegular, MayHandle, Ends, Requests, A!Request, Names, Labels,
       server, handling, applying, requests, caches, budget
  <2>3. HandlersOK'
    BY <1>7, NCAssumption, Steps DEF NCTypeOK, ObjectsOK, ConfigsOK, HandlersOK, TrackerOK,
       AppliesOK, BudgetOK, HandlesRegular, IsRegular, MayHandle, Ends, Requests, A!Request,
       Names, Labels, server, handling, applying, requests, caches, budget
  <2>4. TrackerOK'
    BY <1>7, NCAssumption, Steps DEF NCTypeOK, ObjectsOK, ConfigsOK, HandlersOK, TrackerOK,
       AppliesOK, BudgetOK, HandlesRegular, IsRegular, MayHandle, Ends, Requests, A!Request,
       Names, Labels, server, handling, applying, requests, caches, budget
  <2>5. AppliesOK'
    BY <1>7, RequestsType DEF NCTypeOK, HandlesRegular
  <2>6. BudgetOK'
    BY <1>7, NCAssumption DEF NCTypeOK, ObjectsOK, ConfigsOK, HandlersOK, TrackerOK, AppliesOK,
       BudgetOK, HandlesRegular, IsRegular, MayHandle, Ends, Requests, A!Request, Names, Labels,
       server, handling, applying, requests, caches, budget
  <2> QED BY <2>1, <2>2, <2>3, <2>4, <2>5, <2>6 DEF NCTypeOK
<1>8. ASSUME NEW n \in Names, StartsUpdate(n) PROVE NCTypeOK'
  BY <1>8, NCAssumption, Objects, Steps DEF NCTypeOK, ObjectsOK, ConfigsOK, HandlersOK,
     TrackerOK, AppliesOK, BudgetOK, StartsUpdate, IsRegular, MayHandle, Names, Labels, server,
     handling, applying, requests, caches, budget
<1>9. ASSUME NEW n \in Names, SetsLabel(n) PROVE NCTypeOK'
  <2>1. ObjectsOK'
    BY <1>9, NCAssumption, Objects DEF NCTypeOK, ObjectsOK, ConfigsOK, HandlersOK, TrackerOK,
       AppliesOK, BudgetOK, SetsLabel, Ends, Requests, A!Request, Names, Labels, server,
       handling, applying, requests, caches, budget
  <2>2. ConfigsOK'
    BY <1>9, NCAssumption DEF NCTypeOK, ObjectsOK, ConfigsOK, HandlersOK, TrackerOK, AppliesOK,
       BudgetOK, SetsLabel, Ends, Requests, A!Request, Names, Labels, server, handling,
       applying, requests, caches, budget
  <2>3. HandlersOK'
    BY <1>9, NCAssumption, Steps DEF NCTypeOK, ObjectsOK, ConfigsOK, HandlersOK, TrackerOK,
       AppliesOK, BudgetOK, SetsLabel, Ends, Requests, A!Request, Names, Labels, server,
       handling, applying, requests, caches, budget
  <2>4. TrackerOK'
    BY <1>9, NCAssumption, Steps DEF NCTypeOK, ObjectsOK, ConfigsOK, HandlersOK, TrackerOK,
       AppliesOK, BudgetOK, SetsLabel, Ends, Requests, A!Request, Names, Labels, server,
       handling, applying, requests, caches, budget
  <2>5. AppliesOK'
    BY <1>9, RequestsType DEF NCTypeOK, SetsLabel
  <2>6. BudgetOK'
    BY <1>9, NCAssumption DEF NCTypeOK, ObjectsOK, ConfigsOK, HandlersOK, TrackerOK, AppliesOK,
       BudgetOK, SetsLabel, Ends, Requests, A!Request, Names, Labels, server, handling,
       applying, requests, caches, budget
  <2> QED BY <2>1, <2>2, <2>3, <2>4, <2>5, <2>6 DEF NCTypeOK
<1>10. ASSUME NEW n \in Names, RemovesLabel(n) PROVE NCTypeOK'
  BY <1>10, NCAssumption, Objects, Steps DEF NCTypeOK, ObjectsOK, ConfigsOK, HandlersOK,
     TrackerOK, AppliesOK, BudgetOK, RemovesLabel, Store, Changed, Names, Labels, server,
     handling, applying, requests, caches, budget
<1>11. ASSUME NEW n \in Names, Conflicts(n) PROVE NCTypeOK'
  BY <1>11, NCAssumption, ErrsType DEF NCTypeOK, ObjectsOK, ConfigsOK, HandlersOK, TrackerOK,
     AppliesOK, BudgetOK, Conflicts, Names, budget
<1>12. ASSUME NEW n \in Names, UpdateFails(n) PROVE NCTypeOK'
  <2>1. Errs(n, FALSE)
    BY <1>12 DEF UpdateFails
  <2>2. BudgetOK'
    BY <1>12, NCAssumption DEF UpdateFails, Fault, NCTypeOK, BudgetOK
  <2> QED BY <2>1, <2>2, ErrsType DEF BudgetOK
<1>13. ASSUME NEW n \in Names, Delivers(n) PROVE NCTypeOK'
  BY <1>13, NCAssumption, Objects, Steps DEF NCTypeOK, ObjectsOK, ConfigsOK, HandlersOK,
     TrackerOK, AppliesOK, BudgetOK, Delivers, Names, Labels, server, handling, applying,
     requests, caches, budget
<1>14. ASSUME NEW n \in Names, Resyncs(n) PROVE NCTypeOK'
  BY <1>14, NCAssumption, Objects, Steps DEF NCTypeOK, ObjectsOK, ConfigsOK, HandlersOK,
     TrackerOK, AppliesOK, BudgetOK, Resyncs, Names, Labels, server, handling, applying,
     requests, caches, budget
<1>15. ASSUME NEW n \in Names, NamespaceIsGone(n) PROVE NCTypeOK'
  BY <1>15, NCAssumption, Objects, Steps DEF NCTypeOK, ObjectsOK, ConfigsOK, HandlersOK,
     TrackerOK, AppliesOK, BudgetOK, NamespaceIsGone, UserStores, Store, Changed, Names, Labels,
     server, handling, applying, requests, caches, budget
<1>16. ASSUME NEW p \in Projects, HandlesRegistration(p) PROVE NCTypeOK'
  <2>1. ObjectsOK'
    BY <1>16, NCAssumption, Objects DEF NCTypeOK, ObjectsOK, ConfigsOK, HandlersOK, TrackerOK,
       AppliesOK, BudgetOK, HandlesRegistration, MayHandle, Ends, Index, Names, Labels, server,
       handling, applying, requests, caches, budget
  <2>2. ConfigsOK'
    BY <1>16, NCAssumption DEF NCTypeOK, ObjectsOK, ConfigsOK, HandlersOK, TrackerOK, AppliesOK,
       BudgetOK, HandlesRegistration, MayHandle, Ends, Index, Names, Labels, server, handling,
       applying, requests, caches, budget
  <2>3. HandlersOK'
    BY <1>16, NCAssumption, Steps DEF NCTypeOK, ObjectsOK, ConfigsOK, HandlersOK, TrackerOK,
       AppliesOK, BudgetOK, HandlesRegistration, MayHandle, Ends, Index, Names, Labels, server,
       handling, applying, requests, caches, budget
  <2>4. TrackerOK'
    BY <1>16, NCAssumption, Steps DEF NCTypeOK, ObjectsOK, ConfigsOK, HandlersOK, TrackerOK,
       AppliesOK, BudgetOK, HandlesRegistration, MayHandle, Ends, Index, Names, Labels, server,
       handling, applying, requests, caches, budget
  <2>5. AppliesOK'
    BY <1>16, NCAssumption, Steps, Objects DEF NCTypeOK, ObjectsOK, ConfigsOK, HandlersOK,
       TrackerOK, AppliesOK, BudgetOK, HandlesRegistration, MayHandle, Ends, Index, Names,
       Labels, server, handling, applying, requests, caches, budget
  <2>6. BudgetOK'
    BY <1>16, NCAssumption DEF NCTypeOK, ObjectsOK, ConfigsOK, HandlersOK, TrackerOK, AppliesOK,
       BudgetOK, HandlesRegistration, MayHandle, Ends, Index, Names, Labels, server, handling,
       applying, requests, caches, budget
  <2> QED BY <2>1, <2>2, <2>3, <2>4, <2>5, <2>6 DEF NCTypeOK
<1>17. ASSUME NEW p \in Projects, FailsRegistration(p) PROVE NCTypeOK'
  BY <1>17, NCAssumption, ErrsType DEF NCTypeOK, ObjectsOK, ConfigsOK, HandlersOK, TrackerOK,
     AppliesOK, BudgetOK, FailsRegistration, Names, budget
<1>18. ASSUME NEW p \in Projects, Untracks(p) PROVE NCTypeOK'
  BY <1>18, NCAssumption, Objects, Steps DEF NCTypeOK, ObjectsOK, ConfigsOK, HandlersOK,
     TrackerOK, AppliesOK, BudgetOK, Untracks, Ends, Names, Labels, server, handling, applying,
     requests, caches, budget
<1>19. ASSUME NEW p \in Projects, ApplyBegins(p) PROVE NCTypeOK'
  BY <1>19, NCAssumption, Objects, Steps DEF NCTypeOK, ObjectsOK, ConfigsOK, HandlersOK,
     TrackerOK, AppliesOK, BudgetOK, ApplyBegins, Goes, A!Begin, Names, Labels, server,
     handling, applying, requests, caches, budget
<1>20. ASSUME NEW p \in Projects, ApplySkips(p) PROVE NCTypeOK'
  BY <1>20, NCAssumption, Objects, Steps DEF NCTypeOK, ObjectsOK, ConfigsOK, HandlersOK,
     TrackerOK, AppliesOK, BudgetOK, ApplySkips, Returns, Goes, A!Succeed, Names, Labels,
     server, handling, applying, requests, caches, budget
<1>21. ASSUME NEW p \in Projects, ApplyRegistration(p) PROVE NCTypeOK'
  <2>1. ObjectsOK'
    <3> DEFINE wanted == Registration(p, run[p].orphaned)
    <3>1. wanted \in Object /\ p \in Names
      BY <1>21, Objects, Steps DEF NCTypeOK, AppliesOK, ApplyRegistration, Names
    <3>2. Known(p) \in Object /\ Patched(obj[p], Known(p), wanted) \in Object
      BY <3>1, PatchedObject DEF Known, NCTypeOK, ObjectsOK
    <3>3. \/ UNCHANGED <<obj, fresh, held>>
          \/ Store(p, wanted)
          \/ Store(p, Patched(obj[p], Known(p), wanted))
      BY <1>21 DEF ApplyRegistration
    <3>4. view' = view
      BY <1>21 DEF ApplyRegistration
    <3> HIDE DEF wanted
    <3> QED BY <3>1, <3>2, <3>3, <3>4 DEF NCTypeOK, ObjectsOK, Store, Changed
  <2>2. ConfigsOK'
    BY <1>21, NCAssumption DEF NCTypeOK, ObjectsOK, ConfigsOK, HandlersOK, TrackerOK, AppliesOK,
       BudgetOK, ApplyRegistration, Goes, Store, Changed, Names, Labels, server, handling,
       applying, requests, caches, budget
  <2>3. HandlersOK'
    BY <1>21, NCAssumption, Steps DEF NCTypeOK, ObjectsOK, ConfigsOK, HandlersOK, TrackerOK,
       AppliesOK, BudgetOK, ApplyRegistration, Goes, Store, Changed, Names, Labels, server,
       handling, applying, requests, caches, budget
  <2>4. TrackerOK'
    BY <1>21, NCAssumption, Steps DEF NCTypeOK, ObjectsOK, ConfigsOK, HandlersOK, TrackerOK,
       AppliesOK, BudgetOK, ApplyRegistration, Goes, Store, Changed, Names, Labels, server,
       handling, applying, requests, caches, budget
  <2>5. AppliesOK'
    BY <1>21, NCAssumption, Steps, Objects DEF NCTypeOK, ObjectsOK, ConfigsOK, HandlersOK,
       TrackerOK, AppliesOK, BudgetOK, ApplyRegistration, Goes, Store, Changed, Names, Labels,
       server, handling, applying, requests, caches, budget
  <2>6. BudgetOK'
    BY <1>21, NCAssumption DEF NCTypeOK, ObjectsOK, ConfigsOK, HandlersOK, TrackerOK, AppliesOK,
       BudgetOK, ApplyRegistration, Goes, Store, Changed, Names, Labels, server, handling,
       applying, requests, caches, budget
  <2> QED BY <2>1, <2>2, <2>3, <2>4, <2>5, <2>6 DEF NCTypeOK
<1>22. ASSUME NEW p \in Projects, ApplyGets(p) PROVE NCTypeOK'
  BY <1>22, NCAssumption, Objects, Steps DEF NCTypeOK, ObjectsOK, ConfigsOK, HandlersOK,
     TrackerOK, AppliesOK, BudgetOK, ApplyGets, Goes, Names, Labels, server, handling, applying,
     requests, caches, budget
<1>23. ASSUME NEW p \in Projects, ApplyTracks(p) PROVE NCTypeOK'
  <2>1. ObjectsOK'
    BY <1>23, NCAssumption, Objects DEF NCTypeOK, ObjectsOK, ConfigsOK, HandlersOK, TrackerOK,
       AppliesOK, BudgetOK, ApplyTracks, Returns, Goes, A!Succeed, Names, Labels, server,
       handling, applying, requests, caches, budget
  <2>2. ConfigsOK'
    BY <1>23, NCAssumption DEF NCTypeOK, ObjectsOK, ConfigsOK, HandlersOK, TrackerOK, AppliesOK,
       BudgetOK, ApplyTracks, Returns, Goes, A!Succeed, Names, Labels, server, handling,
       applying, requests, caches, budget
  <2>3. HandlersOK'
    BY <1>23, NCAssumption, Steps DEF NCTypeOK, ObjectsOK, ConfigsOK, HandlersOK, TrackerOK,
       AppliesOK, BudgetOK, ApplyTracks, Returns, Goes, A!Succeed, Names, Labels, server,
       handling, applying, requests, caches, budget
  <2>4. TrackerOK'
    BY <1>23, NCAssumption, Steps DEF NCTypeOK, ObjectsOK, ConfigsOK, HandlersOK, TrackerOK,
       AppliesOK, BudgetOK, ApplyTracks, Returns, Goes, A!Succeed, Names, Labels, server,
       handling, applying, requests, caches, budget
  <2>5. AppliesOK'
    <3>1. CASE run[p].terminating
      BY <1>23, <3>1, Steps DEF NCTypeOK, AppliesOK, ApplyTracks, Returns, Goes, A!Succeed
    <3>2. CASE ~run[p].terminating
      BY <1>23, <3>2, Steps DEF NCTypeOK, AppliesOK, ApplyTracks, Goes, requests
    <3> QED BY <3>1, <3>2
  <2>6. BudgetOK'
    BY <1>23, NCAssumption DEF NCTypeOK, ObjectsOK, ConfigsOK, HandlersOK, TrackerOK, AppliesOK,
       BudgetOK, ApplyTracks, Returns, Goes, A!Succeed, Names, Labels, server, handling,
       applying, requests, caches, budget
  <2> QED BY <2>1, <2>2, <2>3, <2>4, <2>5, <2>6 DEF NCTypeOK
<1>24. ASSUME NEW p \in Projects, ApplyCreatesConfig(p) PROVE NCTypeOK'
  BY <1>24, NCAssumption, Objects, Steps DEF NCTypeOK, ObjectsOK, ConfigsOK, HandlersOK,
     TrackerOK, AppliesOK, BudgetOK, ApplyCreatesConfig, StoreConfig, Completes, Returns, Goes,
     A!Succeed, Names, Labels, server, handling, applying, requests, caches, budget
<1>25. ASSUME NEW p \in Projects, ApplyLeavesConfig(p) PROVE NCTypeOK'
  BY <1>25, NCAssumption, Objects, Steps DEF NCTypeOK, ObjectsOK, ConfigsOK, HandlersOK,
     TrackerOK, AppliesOK, BudgetOK, ApplyLeavesConfig, Completes, Returns, Goes, A!Succeed,
     Names, Labels, server, handling, applying, requests, caches, budget
<1>26. ASSUME NEW p \in Projects, ApplyDeletesConfig(p) PROVE NCTypeOK'
  BY <1>26, NCAssumption, Objects, Steps DEF NCTypeOK, ObjectsOK, ConfigsOK, HandlersOK,
     TrackerOK, AppliesOK, BudgetOK, ApplyDeletesConfig, StoreConfig, Goes, Names, Labels,
     server, handling, applying, requests, caches, budget
<1>27. ASSUME NEW p \in Projects, ApplyIsRefused(p) PROVE NCTypeOK'
  BY <1>27, NCAssumption, Objects, Steps DEF NCTypeOK, ObjectsOK, ConfigsOK, HandlersOK,
     TrackerOK, AppliesOK, BudgetOK, ApplyIsRefused, ApplyErrs, Returns, Goes, A!Fail, Names,
     Labels, server, handling, applying, requests, caches, budget
<1>28. ASSUME NEW p \in Projects, ApplyFails(p) PROVE NCTypeOK'
  BY <1>28, NCAssumption, Objects, Steps DEF NCTypeOK, ObjectsOK, ConfigsOK, HandlersOK,
     TrackerOK, AppliesOK, BudgetOK, ApplyFails, ApplyErrs, Returns, Goes, A!Fail, Fault, Names,
     Labels, server, handling, applying, requests, caches, budget
<1>29. ASSUME NEW p \in Projects, ApplyRetries(p) PROVE NCTypeOK'
  BY <1>29, NCAssumption, Objects, Steps DEF NCTypeOK, ObjectsOK, ConfigsOK, HandlersOK,
     TrackerOK, AppliesOK, BudgetOK, ApplyRetries, A!Retry, Names, Labels, server, handling,
     applying, requests, caches, budget
<1>30. ASSUME NEW p \in Projects, ResolvesConfig(p) PROVE NCTypeOK'
  BY <1>30, NCAssumption, Objects, Steps DEF NCTypeOK, ObjectsOK, ConfigsOK, HandlersOK,
     TrackerOK, AppliesOK, BudgetOK, ResolvesConfig, Names, Labels, server, handling, applying,
     requests, caches, budget
<1>31. ASSUME NEW p \in Projects, ContentIsRemoved(p) PROVE NCTypeOK'
  BY <1>31, NCAssumption, Objects, Steps DEF NCTypeOK, ObjectsOK, ConfigsOK, HandlersOK,
     TrackerOK, AppliesOK, BudgetOK, ContentIsRemoved, StoreConfig, Names, Labels, server,
     handling, applying, requests, caches, budget
<1>32. ASSUME NEW n \in Namespaces, NEW l \in Labels, CreateNamespace(n, l) PROVE NCTypeOK'
  <2>1. ObjectsOK'
    BY <1>32, NCAssumption, Objects DEF NCTypeOK, ObjectsOK, ConfigsOK, HandlersOK, TrackerOK,
       AppliesOK, BudgetOK, CreateNamespace, UserStores, Store, Changed, Change, User, Names,
       Labels, server, handling, applying, requests, caches, budget
  <2>2. ConfigsOK'
    BY <1>32, NCAssumption DEF NCTypeOK, ObjectsOK, ConfigsOK, HandlersOK, TrackerOK, AppliesOK,
       BudgetOK, CreateNamespace, UserStores, Store, Changed, Change, User, Names, Labels,
       server, handling, applying, requests, caches, budget
  <2>3. HandlersOK'
    BY <1>32, NCAssumption, Steps DEF NCTypeOK, ObjectsOK, ConfigsOK, HandlersOK, TrackerOK,
       AppliesOK, BudgetOK, CreateNamespace, UserStores, Store, Changed, Change, User, Names,
       Labels, server, handling, applying, requests, caches, budget
  <2>4. TrackerOK'
    BY <1>32, NCAssumption, Steps DEF NCTypeOK, ObjectsOK, ConfigsOK, HandlersOK, TrackerOK,
       AppliesOK, BudgetOK, CreateNamespace, UserStores, Store, Changed, Change, User, Names,
       Labels, server, handling, applying, requests, caches, budget
  <2>5. AppliesOK'
    BY <1>32, NCAssumption, Steps, Objects DEF NCTypeOK, ObjectsOK, ConfigsOK, HandlersOK,
       TrackerOK, AppliesOK, BudgetOK, CreateNamespace, UserStores, Store, Changed, Change,
       User, Names, Labels, server, handling, applying, requests, caches, budget
  <2>6. BudgetOK'
    BY <1>32, NCAssumption DEF NCTypeOK, BudgetOK, Names, CreateNamespace, Change, MayChange
  <2> QED BY <2>1, <2>2, <2>3, <2>4, <2>5, <2>6 DEF NCTypeOK
<1>33. ASSUME NEW n \in Namespaces, NEW l \in Labels, MoveNamespace(n, l) PROVE NCTypeOK'
  <2>1. ObjectsOK'
    BY <1>33, NCAssumption, Objects DEF NCTypeOK, ObjectsOK, ConfigsOK, HandlersOK, TrackerOK,
       AppliesOK, BudgetOK, MoveNamespace, UserStores, Store, Changed, Change, Names, Labels,
       server, handling, applying, requests, caches, budget
  <2>2. ConfigsOK'
    BY <1>33, NCAssumption DEF NCTypeOK, ObjectsOK, ConfigsOK, HandlersOK, TrackerOK, AppliesOK,
       BudgetOK, MoveNamespace, UserStores, Store, Changed, Change, Names, Labels, server,
       handling, applying, requests, caches, budget
  <2>3. HandlersOK'
    BY <1>33, NCAssumption, Steps DEF NCTypeOK, ObjectsOK, ConfigsOK, HandlersOK, TrackerOK,
       AppliesOK, BudgetOK, MoveNamespace, UserStores, Store, Changed, Change, Names, Labels,
       server, handling, applying, requests, caches, budget
  <2>4. TrackerOK'
    BY <1>33, NCAssumption, Steps DEF NCTypeOK, ObjectsOK, ConfigsOK, HandlersOK, TrackerOK,
       AppliesOK, BudgetOK, MoveNamespace, UserStores, Store, Changed, Change, Names, Labels,
       server, handling, applying, requests, caches, budget
  <2>5. AppliesOK'
    BY <1>33, NCAssumption, Steps, Objects DEF NCTypeOK, ObjectsOK, ConfigsOK, HandlersOK,
       TrackerOK, AppliesOK, BudgetOK, MoveNamespace, UserStores, Store, Changed, Change, Names,
       Labels, server, handling, applying, requests, caches, budget
  <2>6. BudgetOK'
    BY <1>33, NCAssumption DEF NCTypeOK, BudgetOK, Names, MoveNamespace, Change, MayChange
  <2> QED BY <2>1, <2>2, <2>3, <2>4, <2>5, <2>6 DEF NCTypeOK
<1>34. ASSUME NEW n \in Names, DeleteNamespace(n) PROVE NCTypeOK'
  <2>1. ObjectsOK'
    BY <1>34, NCAssumption, Objects DEF NCTypeOK, ObjectsOK, ConfigsOK, HandlersOK, TrackerOK,
       AppliesOK, BudgetOK, DeleteNamespace, UserStores, Store, Changed, Change, Names, Labels,
       server, handling, applying, requests, caches, budget
  <2>2. ConfigsOK'
    BY <1>34, NCAssumption DEF NCTypeOK, ObjectsOK, ConfigsOK, HandlersOK, TrackerOK, AppliesOK,
       BudgetOK, DeleteNamespace, UserStores, Store, Changed, Change, Names, Labels, server,
       handling, applying, requests, caches, budget
  <2>3. HandlersOK'
    BY <1>34, NCAssumption, Steps DEF NCTypeOK, ObjectsOK, ConfigsOK, HandlersOK, TrackerOK,
       AppliesOK, BudgetOK, DeleteNamespace, UserStores, Store, Changed, Change, Names, Labels,
       server, handling, applying, requests, caches, budget
  <2>4. TrackerOK'
    BY <1>34, NCAssumption, Steps DEF NCTypeOK, ObjectsOK, ConfigsOK, HandlersOK, TrackerOK,
       AppliesOK, BudgetOK, DeleteNamespace, UserStores, Store, Changed, Change, Names, Labels,
       server, handling, applying, requests, caches, budget
  <2>5. AppliesOK'
    BY <1>34, NCAssumption, Steps, Objects DEF NCTypeOK, ObjectsOK, ConfigsOK, HandlersOK,
       TrackerOK, AppliesOK, BudgetOK, DeleteNamespace, UserStores, Store, Changed, Change,
       Names, Labels, server, handling, applying, requests, caches, budget
  <2>6. BudgetOK'
    BY <1>34, NCAssumption DEF NCTypeOK, BudgetOK, Names, DeleteNamespace, Change, MayChange
  <2> QED BY <2>1, <2>2, <2>3, <2>4, <2>5, <2>6 DEF NCTypeOK
<1>35. ASSUME NEW p \in Projects, NEW l \in {None, System}, EditRegistration(p, l)
      PROVE NCTypeOK'
  <2>1. ObjectsOK'
    BY <1>35, NCAssumption, Objects DEF NCTypeOK, ObjectsOK, ConfigsOK, HandlersOK, TrackerOK,
       AppliesOK, BudgetOK, EditRegistration, UserStores, Store, Changed, Change, Names, Labels,
       server, handling, applying, requests, caches, budget
  <2>2. ConfigsOK'
    BY <1>35, NCAssumption DEF NCTypeOK, ObjectsOK, ConfigsOK, HandlersOK, TrackerOK, AppliesOK,
       BudgetOK, EditRegistration, UserStores, Store, Changed, Change, Names, Labels, server,
       handling, applying, requests, caches, budget
  <2>3. HandlersOK'
    BY <1>35, NCAssumption, Steps DEF NCTypeOK, ObjectsOK, ConfigsOK, HandlersOK, TrackerOK,
       AppliesOK, BudgetOK, EditRegistration, UserStores, Store, Changed, Change, Names, Labels,
       server, handling, applying, requests, caches, budget
  <2>4. TrackerOK'
    BY <1>35, NCAssumption, Steps DEF NCTypeOK, ObjectsOK, ConfigsOK, HandlersOK, TrackerOK,
       AppliesOK, BudgetOK, EditRegistration, UserStores, Store, Changed, Change, Names, Labels,
       server, handling, applying, requests, caches, budget
  <2>5. AppliesOK'
    BY <1>35, NCAssumption, Steps, Objects DEF NCTypeOK, ObjectsOK, ConfigsOK, HandlersOK,
       TrackerOK, AppliesOK, BudgetOK, EditRegistration, UserStores, Store, Changed, Change,
       Names, Labels, server, handling, applying, requests, caches, budget
  <2>6. BudgetOK'
    BY <1>35, NCAssumption DEF NCTypeOK, BudgetOK, Names, EditRegistration, Change, MayChange
  <2> QED BY <2>1, <2>2, <2>3, <2>4, <2>5, <2>6 DEF NCTypeOK
<1>36. ASSUME NEW p \in Projects, NEW c \in {"Absent", "Foreign"}, EditConfig(p, c)
      PROVE NCTypeOK'
  <2>1. ObjectsOK'
    BY <1>36, NCAssumption, Objects DEF NCTypeOK, ObjectsOK, ConfigsOK, HandlersOK, TrackerOK,
       AppliesOK, BudgetOK, EditConfig, StoreConfig, Change, Names, Labels, server, handling,
       applying, requests, caches, budget
  <2>2. ConfigsOK'
    BY <1>36, NCAssumption DEF NCTypeOK, ObjectsOK, ConfigsOK, HandlersOK, TrackerOK, AppliesOK,
       BudgetOK, EditConfig, StoreConfig, Change, Names, Labels, server, handling, applying,
       requests, caches, budget
  <2>3. HandlersOK'
    BY <1>36, NCAssumption, Steps DEF NCTypeOK, ObjectsOK, ConfigsOK, HandlersOK, TrackerOK,
       AppliesOK, BudgetOK, EditConfig, StoreConfig, Change, Names, Labels, server, handling,
       applying, requests, caches, budget
  <2>4. TrackerOK'
    BY <1>36, NCAssumption, Steps DEF NCTypeOK, ObjectsOK, ConfigsOK, HandlersOK, TrackerOK,
       AppliesOK, BudgetOK, EditConfig, StoreConfig, Change, Names, Labels, server, handling,
       applying, requests, caches, budget
  <2>5. AppliesOK'
    BY <1>36, NCAssumption, Steps, Objects DEF NCTypeOK, ObjectsOK, ConfigsOK, HandlersOK,
       TrackerOK, AppliesOK, BudgetOK, EditConfig, StoreConfig, Change, Names, Labels, server,
       handling, applying, requests, caches, budget
  <2>6. BudgetOK'
    BY <1>36, NCAssumption DEF NCTypeOK, BudgetOK, Names, EditConfig, Change, MayChange
  <2> QED BY <2>1, <2>2, <2>3, <2>4, <2>5, <2>6 DEF NCTypeOK
<1>37. CASE UNCHANGED vars
  BY <1>37 DEF NCTypeOK, ObjectsOK, ConfigsOK, HandlersOK, TrackerOK, AppliesOK, BudgetOK, vars,
     server, handling, applying, requests, caches, budget
<1> QED
  BY <1>1, <1>2, <1>3, <1>4, <1>5, <1>6, <1>7, <1>8, <1>9, <1>10, <1>11, <1>12, <1>13, <1>14,
     <1>15, <1>16, <1>17, <1>18, <1>19, <1>20, <1>21, <1>22, <1>23, <1>24, <1>25, <1>26, <1>27,
     <1>28, <1>29, <1>30, <1>31, <1>32, <1>33, <1>34, <1>35, <1>36, <1>37 DEF Next,
     Users, Handles, Applies, Names

\* Type correctness (NCTypeOK): the values every variable can take.
THEOREM NCTypeCorrect == Spec => []NCTypeOK
<1>1. Init => NCTypeOK
  <2> SUFFICES ASSUME Init PROVE NCTypeOK
    OBVIOUS
  <2>1. ObjectsOK
    <3>1. obj \in [Names -> {Gone} \cup {User(l) : l \in Labels}]
      BY DEF Init
    <3>2. {Gone} \cup {User(l) : l \in Labels} \subseteq Object
      BY Objects
    <3>3. obj \in [Names -> Object]
      BY <3>1, <3>2
    <3> QED BY <3>3, Objects DEF Init, ObjectsOK
  <2> QED BY <2>1, NCAssumption, Steps DEF Init, NCTypeOK, ConfigsOK, HandlersOK, TrackerOK,
                                           AppliesOK, BudgetOK
<1>2. NCTypeOK /\ [Next]_vars => NCTypeOK'
  BY NextType
<1> QED BY <1>1, <1>2, PTL DEF Spec

-----------------------------------------------------------------------------
(* The list the tracker is compared with *)

\* Every step keeps what is under way on the list.
LEMMA NextExpected ==
  ASSUME NCTypeOK, WorkIsExpected, [Next]_vars PROVE WorkIsExpected'
<1>1. CASE Crash
  BY <1>1, NCAssumption DEF WorkIsExpected, Running, Tracked, NCTypeOK, AppliesOK, TrackerOK,
     Crash, Fault, Exit, server, handling, applying, requests, caches, budget
<1>2. CASE GivesUp
  BY <1>2, NCAssumption DEF WorkIsExpected, Running, Tracked, NCTypeOK, AppliesOK, TrackerOK,
     GivesUp, Exit, server, handling, applying, requests, caches, budget
<1>3. CASE GivesUpEarly
  BY <1>3, NCAssumption DEF WorkIsExpected, Running, Tracked, NCTypeOK, AppliesOK, TrackerOK,
     GivesUpEarly, Fault, Exit, server, handling, applying, requests, caches, budget
<1>4. CASE Starts
  BY <1>4, NCAssumption DEF WorkIsExpected, Running, Tracked, NCTypeOK, AppliesOK, TrackerOK,
     Starts, server, handling, applying, requests, caches, budget
<1>5. CASE Serves
  BY <1>5, NCAssumption DEF WorkIsExpected, Running, Tracked, NCTypeOK, AppliesOK, TrackerOK,
     Serves, server, handling, applying, requests, caches, budget
<1>6. ASSUME NEW n \in Names, HandlesNothing(n) PROVE WorkIsExpected'
  BY <1>6, NCAssumption DEF WorkIsExpected, Running, Tracked, NCTypeOK, AppliesOK, TrackerOK,
     HandlesNothing, Ends, server, handling, applying, requests, caches, budget
<1>7. ASSUME NEW n \in Names, HandlesRegular(n) PROVE WorkIsExpected'
  BY <1>7, NCAssumption DEF WorkIsExpected, Running, Tracked, NCTypeOK, AppliesOK, TrackerOK,
     HandlesRegular, IsRegular, MayHandle, Ends, Requests, A!Request, server, handling,
     applying, requests, caches, budget
<1>8. ASSUME NEW n \in Names, StartsUpdate(n) PROVE WorkIsExpected'
  BY <1>8, NCAssumption DEF WorkIsExpected, Running, Tracked, NCTypeOK, AppliesOK, TrackerOK,
     StartsUpdate, IsRegular, MayHandle, server, handling, applying, requests, caches, budget
<1>9. ASSUME NEW n \in Names, SetsLabel(n) PROVE WorkIsExpected'
  BY <1>9, NCAssumption DEF WorkIsExpected, Running, Tracked, NCTypeOK, AppliesOK, TrackerOK,
     SetsLabel, Ends, Requests, A!Request, server, handling, applying, requests, caches, budget
<1>10. ASSUME NEW n \in Names, RemovesLabel(n) PROVE WorkIsExpected'
  BY <1>10, NCAssumption DEF WorkIsExpected, Running, Tracked, NCTypeOK, AppliesOK, TrackerOK,
     RemovesLabel, Store, Changed, server, handling, applying, requests, caches, budget
<1>11. ASSUME NEW n \in Names, Conflicts(n) PROVE WorkIsExpected'
  BY <1>11, NCAssumption DEF WorkIsExpected, Running, Tracked, NCTypeOK, AppliesOK, TrackerOK,
     Conflicts, Errs, Exit, server, handling, applying, requests, caches, budget
<1>12. ASSUME NEW n \in Names, UpdateFails(n) PROVE WorkIsExpected'
  BY <1>12, NCAssumption DEF WorkIsExpected, Running, Tracked, NCTypeOK, AppliesOK, TrackerOK,
     UpdateFails, Fault, Errs, Exit, server, handling, applying, requests, caches, budget
<1>13. ASSUME NEW n \in Names, Delivers(n) PROVE WorkIsExpected'
  BY <1>13, NCAssumption DEF WorkIsExpected, Running, Tracked, NCTypeOK, AppliesOK, TrackerOK,
     Delivers, server, handling, applying, requests, caches, budget
<1>14. ASSUME NEW n \in Names, Resyncs(n) PROVE WorkIsExpected'
  BY <1>14, NCAssumption DEF WorkIsExpected, Running, Tracked, NCTypeOK, AppliesOK, TrackerOK,
     Resyncs, server, handling, applying, requests, caches, budget
<1>15. ASSUME NEW n \in Names, NamespaceIsGone(n) PROVE WorkIsExpected'
  BY <1>15, NCAssumption DEF WorkIsExpected, Running, Tracked, NCTypeOK, AppliesOK, TrackerOK,
     NamespaceIsGone, UserStores, Store, Changed, server, handling, applying, requests, caches,
     budget
<1>16. ASSUME NEW p \in Projects, HandlesRegistration(p) PROVE WorkIsExpected'
  BY <1>16, NCAssumption DEF WorkIsExpected, Running, Tracked, NCTypeOK, AppliesOK, TrackerOK,
     HandlesRegistration, MayHandle, Ends, Index, server, handling, applying, requests, caches,
     budget
<1>17. ASSUME NEW p \in Projects, FailsRegistration(p) PROVE WorkIsExpected'
  BY <1>17, NCAssumption DEF WorkIsExpected, Running, Tracked, NCTypeOK, AppliesOK, TrackerOK,
     FailsRegistration, Errs, Exit, server, handling, applying, requests, caches, budget
<1>18. ASSUME NEW p \in Projects, Untracks(p) PROVE WorkIsExpected'
  BY <1>18, NCAssumption DEF WorkIsExpected, Running, Tracked, NCTypeOK, AppliesOK, TrackerOK,
     Untracks, Ends, server, handling, applying, requests, caches, budget
<1>19. ASSUME NEW p \in Projects, ApplyBegins(p) PROVE WorkIsExpected'
  BY <1>19, NCAssumption DEF WorkIsExpected, Running, Tracked, NCTypeOK, AppliesOK, TrackerOK,
     ApplyBegins, Goes, A!Begin, server, handling, applying, requests, caches, budget
<1>20. ASSUME NEW p \in Projects, ApplySkips(p) PROVE WorkIsExpected'
  BY <1>20, NCAssumption DEF WorkIsExpected, Running, Tracked, NCTypeOK, AppliesOK, TrackerOK,
     ApplySkips, Returns, Goes, A!Succeed, server, handling, applying, requests, caches, budget
<1>21. ASSUME NEW p \in Projects, ApplyRegistration(p) PROVE WorkIsExpected'
  <2>1. p \in Running
    BY <1>21 DEF ApplyRegistration, Running, Idle
  <2>2. Running' \subseteq Running
    BY <1>21, <2>1 DEF ApplyRegistration, Goes, Running, NCTypeOK, AppliesOK
  <2>3. UNCHANGED <<pending, retrying, initList, tracker>>
    BY <1>21 DEF ApplyRegistration, requests, handling
  <2> QED BY <2>2, <2>3 DEF WorkIsExpected, Tracked
<1>22. ASSUME NEW p \in Projects, ApplyGets(p) PROVE WorkIsExpected'
  <2>1. p \in Running
    BY <1>22 DEF ApplyGets, Running, Idle
  <2>2. Running' \subseteq Running
    BY <1>22, <2>1 DEF ApplyGets, Goes, Running, NCTypeOK, AppliesOK
  <2>3. UNCHANGED <<pending, retrying, initList, tracker>>
    BY <1>22 DEF ApplyGets, requests, handling
  <2> QED BY <2>2, <2>3 DEF WorkIsExpected, Tracked
<1>23. ASSUME NEW p \in Projects, ApplyTracks(p) PROVE WorkIsExpected'
  <2>1. p \in Running
    BY <1>23 DEF ApplyTracks, Running, Idle
  <2>2. Running' \subseteq Running
    BY <1>23, <2>1 DEF ApplyTracks, Goes, Returns, Running, NCTypeOK, AppliesOK
  <2>3. /\ pending' = pending /\ retrying' = retrying /\ initList' = initList
        /\ tracker' = [tracker EXCEPT ![p] = run[p].label]
    BY <1>23 DEF ApplyTracks, A!Succeed, requests, handling
  <2> QED BY <2>1, <2>2, <2>3 DEF WorkIsExpected, Tracked, NCTypeOK, TrackerOK
<1>24. ASSUME NEW p \in Projects, ApplyCreatesConfig(p) PROVE WorkIsExpected'
  BY <1>24, NCAssumption DEF WorkIsExpected, Running, Tracked, NCTypeOK, AppliesOK, TrackerOK,
     ApplyCreatesConfig, StoreConfig, Completes, Returns, Goes, A!Succeed, server, handling,
     applying, requests, caches, budget
<1>25. ASSUME NEW p \in Projects, ApplyLeavesConfig(p) PROVE WorkIsExpected'
  BY <1>25, NCAssumption DEF WorkIsExpected, Running, Tracked, NCTypeOK, AppliesOK, TrackerOK,
     ApplyLeavesConfig, Completes, Returns, Goes, A!Succeed, server, handling, applying,
     requests, caches, budget
<1>26. ASSUME NEW p \in Projects, ApplyDeletesConfig(p) PROVE WorkIsExpected'
  <2>1. p \in Running
    BY <1>26 DEF ApplyDeletesConfig, Running, Idle
  <2>2. Running' \subseteq Running
    BY <1>26, <2>1 DEF ApplyDeletesConfig, Goes, Running, NCTypeOK, AppliesOK
  <2>3. UNCHANGED <<pending, retrying, initList, tracker>>
    BY <1>26 DEF ApplyDeletesConfig, requests, handling
  <2> QED BY <2>2, <2>3 DEF WorkIsExpected, Tracked
<1>27. ASSUME NEW p \in Projects, ApplyIsRefused(p) PROVE WorkIsExpected'
  BY <1>27, NCAssumption DEF WorkIsExpected, Running, Tracked, NCTypeOK, AppliesOK, TrackerOK,
     ApplyIsRefused, ApplyErrs, Returns, Goes, A!Fail, server, handling, applying, requests,
     caches, budget
<1>28. ASSUME NEW p \in Projects, ApplyFails(p) PROVE WorkIsExpected'
  BY <1>28, NCAssumption DEF WorkIsExpected, Running, Tracked, NCTypeOK, AppliesOK, TrackerOK,
     ApplyFails, ApplyErrs, Returns, Goes, A!Fail, Fault, server, handling, applying, requests,
     caches, budget
<1>29. ASSUME NEW p \in Projects, ApplyRetries(p) PROVE WorkIsExpected'
  BY <1>29, NCAssumption DEF WorkIsExpected, Running, Tracked, NCTypeOK, AppliesOK, TrackerOK,
     ApplyRetries, A!Retry, server, handling, applying, requests, caches, budget
<1>30. ASSUME NEW p \in Projects, ResolvesConfig(p) PROVE WorkIsExpected'
  BY <1>30, NCAssumption DEF WorkIsExpected, Running, Tracked, NCTypeOK, AppliesOK, TrackerOK,
     ResolvesConfig, server, handling, applying, requests, caches, budget
<1>31. ASSUME NEW p \in Projects, ContentIsRemoved(p) PROVE WorkIsExpected'
  BY <1>31, NCAssumption DEF WorkIsExpected, Running, Tracked, NCTypeOK, AppliesOK, TrackerOK,
     ContentIsRemoved, StoreConfig, server, handling, applying, requests, caches, budget
<1>32. ASSUME NEW n \in Namespaces, NEW l \in Labels, CreateNamespace(n, l) PROVE WorkIsExpected'
  BY <1>32, NCAssumption DEF WorkIsExpected, Running, Tracked, NCTypeOK, AppliesOK, TrackerOK,
     CreateNamespace, UserStores, Store, Changed, Change, User, server, handling, applying,
     requests, caches, budget
<1>33. ASSUME NEW n \in Namespaces, NEW l \in Labels, MoveNamespace(n, l) PROVE WorkIsExpected'
  BY <1>33, NCAssumption DEF WorkIsExpected, Running, Tracked, NCTypeOK, AppliesOK, TrackerOK,
     MoveNamespace, UserStores, Store, Changed, Change, server, handling, applying, requests,
     caches, budget
<1>34. ASSUME NEW n \in Names, DeleteNamespace(n) PROVE WorkIsExpected'
  BY <1>34, NCAssumption DEF WorkIsExpected, Running, Tracked, NCTypeOK, AppliesOK, TrackerOK,
     DeleteNamespace, UserStores, Store, Changed, Change, server, handling, applying, requests,
     caches, budget
<1>35. ASSUME NEW p \in Projects, NEW l \in {None, System}, EditRegistration(p, l)
      PROVE WorkIsExpected'
  BY <1>35, NCAssumption DEF WorkIsExpected, Running, Tracked, NCTypeOK, AppliesOK, TrackerOK,
     EditRegistration, UserStores, Store, Changed, Change, server, handling, applying, requests,
     caches, budget
<1>36. ASSUME NEW p \in Projects, NEW c \in {"Absent", "Foreign"}, EditConfig(p, c)
      PROVE WorkIsExpected'
  BY <1>36, NCAssumption DEF WorkIsExpected, Running, Tracked, NCTypeOK, AppliesOK, TrackerOK,
     EditConfig, StoreConfig, Change, server, handling, applying, requests, caches, budget
<1>37. CASE UNCHANGED vars
  BY <1>37 DEF WorkIsExpected, Running, Tracked, NCTypeOK, AppliesOK, TrackerOK, vars, server,
     handling, applying, requests, caches, budget
<1> QED
  BY <1>1, <1>2, <1>3, <1>4, <1>5, <1>6, <1>7, <1>8, <1>9, <1>10, <1>11, <1>12, <1>13, <1>14,
     <1>15, <1>16, <1>17, <1>18, <1>19, <1>20, <1>21, <1>22, <1>23, <1>24, <1>25, <1>26, <1>27,
     <1>28, <1>29, <1>30, <1>31, <1>32, <1>33, <1>34, <1>35, <1>36, <1>37 DEF Next,
     Users, Handles, Applies, Names

\* What is tracked, applied or due to be applied is always on the list of the
\* projects that the tracker is compared with.
THEOREM TrackerWithinList == Spec => []WorkIsExpected
<1>1. Init => WorkIsExpected
  BY DEF Init, WorkIsExpected, Running, Tracked
<1>2. NCTypeOK /\ WorkIsExpected /\ [Next]_vars => WorkIsExpected'
  BY NextExpected
<1> QED BY <1>1, <1>2, NCTypeCorrect, PTL DEF Spec

-----------------------------------------------------------------------------
(* The project label of the operator *)

\* An up-to-date copy in view is the stored object; a handler that has an
\* up-to-date copy is about to write the label of the project the namespace is in;
\* what does not exist has no labels.
CopiesAreCurrent ==
  /\ \A n \in fresh : view[n] = obj[n]
  /\ \A n \in held : work[n].pc = "update" =>
       work[n].label = obj[n].project /\ obj[n].phase = "Active"
  /\ \A n \in Names : obj[n].phase = "Absent" => obj[n] = Gone

\* Nobody has a copy at first, and what is not there has no labels.
LEMMA InitCopies == Init => CopiesAreCurrent
<1> SUFFICES ASSUME Init PROVE CopiesAreCurrent
  OBVIOUS
<1>1. \A n \in Names : obj[n] = Gone \/ obj[n].phase = "Active"
  <2>1. obj \in [Names -> {Gone} \cup {User(l) : l \in Labels}]
    BY DEF Init
  <2>2. \A l \in Labels : User(l).phase = "Active"
    BY DEF User, Gone
  <2> QED BY <2>1, <2>2
<1> QED BY <1>1 DEF Init, CopiesAreCurrent

\* Storing an object takes it from those that have an up-to-date copy.
LEMMA StoreCopies ==
  ASSUME NCTypeOK, CopiesAreCurrent, NEW n \in Names, NEW o \in Object, Store(n, o),
         o.phase = "Absent" => o = Gone, view' = view, work' = work
  PROVE  CopiesAreCurrent'
BY DEF CopiesAreCurrent, Store, Changed, NCTypeOK, ObjectsOK

\* Every step keeps the copies current.
LEMMA NextCopies ==
  ASSUME NCTypeOK, CopiesAreCurrent, [Next]_vars PROVE CopiesAreCurrent'
<1>1. CASE Crash
  BY <1>1, NCAssumption, Steps DEF CopiesAreCurrent, NCTypeOK, ObjectsOK, HandlersOK, Crash,
     Fault, Exit, Idle, Names, server, handling, applying, requests, caches, budget
<1>2. CASE GivesUp
  BY <1>2, NCAssumption, Steps DEF CopiesAreCurrent, NCTypeOK, ObjectsOK, HandlersOK, GivesUp,
     Exit, Idle, Names, server, handling, applying, requests, caches, budget
<1>3. CASE GivesUpEarly
  BY <1>3, NCAssumption, Steps DEF CopiesAreCurrent, NCTypeOK, ObjectsOK, HandlersOK,
     GivesUpEarly, Fault, Exit, Idle, Names, server, handling, applying, requests, caches,
     budget
<1>4. CASE Starts
  BY <1>4, NCAssumption, Steps DEF CopiesAreCurrent, NCTypeOK, ObjectsOK, HandlersOK, Starts,
     Idle, Names, server, handling, applying, requests, caches, budget
<1>5. CASE Serves
  BY <1>5, NCAssumption, Steps DEF CopiesAreCurrent, NCTypeOK, ObjectsOK, HandlersOK, Serves,
     Idle, Names, server, handling, applying, requests, caches, budget
<1>6. ASSUME NEW n \in Names, HandlesNothing(n) PROVE CopiesAreCurrent'
  BY <1>6, NCAssumption, Steps DEF CopiesAreCurrent, NCTypeOK, ObjectsOK, HandlersOK,
     HandlesNothing, Ends, Idle, Names, server, handling, applying, requests, caches, budget
<1>7. ASSUME NEW n \in Names, HandlesRegular(n) PROVE CopiesAreCurrent'
  BY <1>7, NCAssumption, Steps DEF CopiesAreCurrent, NCTypeOK, ObjectsOK, HandlersOK,
     HandlesRegular, IsRegular, MayHandle, Ends, Requests, A!Request, Idle, Names, server,
     handling, applying, requests, caches, budget
<1>8. ASSUME NEW n \in Names, StartsUpdate(n) PROVE CopiesAreCurrent'
  <2>1. /\ work' = [work EXCEPT ![n] = [pc |-> "update", label |-> view[n].project]]
        /\ held' = IF n \in fresh THEN held \cup {n} ELSE held \ {n}
        /\ UNCHANGED <<obj, view, fresh>>
        /\ view[n].phase = "Active"
    BY <1>8 DEF StartsUpdate, NeedsUpdate, server
  <2>2. work'[n].label = view[n].project
    BY <2>1 DEF NCTypeOK, HandlersOK
  <2> QED BY <2>1, <2>2 DEF CopiesAreCurrent, NCTypeOK, HandlersOK
<1>9. ASSUME NEW n \in Names, SetsLabel(n) PROVE CopiesAreCurrent'
  <2> DEFINE o == [obj[n] EXCEPT !.helm = work[n].label]
  <2>1. n \in held /\ work[n].pc = "update" /\ work[n].label \in Projects
    BY <1>9 DEF SetsLabel
  <2>2. o \in Object /\ o.phase = "Active"
    BY <2>1, Objects DEF CopiesAreCurrent, NCTypeOK, ObjectsOK, Object
  <2>3. /\ obj' = [obj EXCEPT ![n] = o] /\ fresh' = fresh \ Changed(n, o)
        /\ held' = held \ {n} /\ work' = [work EXCEPT ![n] = Idle] /\ view' = view
    BY <1>9 DEF SetsLabel, Ends
  <2> HIDE DEF o
  <2> QED BY <2>1, <2>2, <2>3 DEF CopiesAreCurrent, Changed, NCTypeOK, ObjectsOK, HandlersOK
<1>10. ASSUME NEW n \in Names, RemovesLabel(n) PROVE CopiesAreCurrent'
  BY <1>10, NCAssumption, Steps DEF CopiesAreCurrent, NCTypeOK, ObjectsOK, HandlersOK,
     RemovesLabel, Store, Changed, Idle, Names, server, handling, applying, requests, caches,
     budget
<1>11. ASSUME NEW n \in Names, Conflicts(n) PROVE CopiesAreCurrent'
  BY <1>11, NCAssumption, Steps DEF CopiesAreCurrent, NCTypeOK, ObjectsOK, HandlersOK,
     Conflicts, Errs, Exit, Idle, Names, server, handling, applying, requests, caches, budget
<1>12. ASSUME NEW n \in Names, UpdateFails(n) PROVE CopiesAreCurrent'
  BY <1>12, NCAssumption, Steps DEF CopiesAreCurrent, NCTypeOK, ObjectsOK, HandlersOK,
     UpdateFails, Fault, Errs, Exit, Idle, Names, server, handling, applying, requests, caches,
     budget
<1>13. ASSUME NEW n \in Names, Delivers(n) PROVE CopiesAreCurrent'
  BY <1>13, NCAssumption, Steps DEF CopiesAreCurrent, NCTypeOK, ObjectsOK, HandlersOK, Delivers,
     Idle, Names, server, handling, applying, requests, caches, budget
<1>14. ASSUME NEW n \in Names, Resyncs(n) PROVE CopiesAreCurrent'
  BY <1>14, NCAssumption, Steps DEF CopiesAreCurrent, NCTypeOK, ObjectsOK, HandlersOK, Resyncs,
     Idle, Names, server, handling, applying, requests, caches, budget
<1>15. ASSUME NEW n \in Names, NamespaceIsGone(n) PROVE CopiesAreCurrent'
  BY <1>15, NCAssumption, Steps DEF CopiesAreCurrent, NCTypeOK, ObjectsOK, HandlersOK,
     NamespaceIsGone, UserStores, Store, Changed, Idle, Names, server, handling, applying,
     requests, caches, budget
<1>16. ASSUME NEW p \in Projects, HandlesRegistration(p) PROVE CopiesAreCurrent'
  BY <1>16, NCAssumption, Steps DEF CopiesAreCurrent, NCTypeOK, ObjectsOK, HandlersOK,
     HandlesRegistration, MayHandle, Ends, Index, Idle, Names, server, handling, applying,
     requests, caches, budget
<1>17. ASSUME NEW p \in Projects, FailsRegistration(p) PROVE CopiesAreCurrent'
  BY <1>17, NCAssumption, Steps DEF CopiesAreCurrent, NCTypeOK, ObjectsOK, HandlersOK,
     FailsRegistration, Errs, Exit, Idle, Names, server, handling, applying, requests, caches,
     budget
<1>18. ASSUME NEW p \in Projects, Untracks(p) PROVE CopiesAreCurrent'
  BY <1>18, NCAssumption, Steps DEF CopiesAreCurrent, NCTypeOK, ObjectsOK, HandlersOK, Untracks,
     Ends, Idle, Names, server, handling, applying, requests, caches, budget
<1>19. ASSUME NEW p \in Projects, ApplyBegins(p) PROVE CopiesAreCurrent'
  BY <1>19, NCAssumption, Steps DEF CopiesAreCurrent, NCTypeOK, ObjectsOK, HandlersOK,
     ApplyBegins, Goes, A!Begin, Idle, Names, server, handling, applying, requests, caches,
     budget
<1>20. ASSUME NEW p \in Projects, ApplySkips(p) PROVE CopiesAreCurrent'
  BY <1>20, NCAssumption, Steps DEF CopiesAreCurrent, NCTypeOK, ObjectsOK, HandlersOK,
     ApplySkips, Returns, Goes, A!Succeed, Idle, Names, server, handling, applying, requests,
     caches, budget
<1>21. ASSUME NEW p \in Projects, ApplyRegistration(p) PROVE CopiesAreCurrent'
  <2> DEFINE wanted == Registration(p, run[p].orphaned)
             o == Patched(obj[p], Known(p), wanted)
  <2>1. wanted \in Object /\ p \in Names /\ wanted.phase = "Active"
    BY <1>21, Objects, Steps DEF NCTypeOK, AppliesOK, ApplyRegistration, Names, Registration
  <2>2. o \in Object /\ o.phase = obj[p].phase
    BY <2>1, PatchedObject DEF Known, NCTypeOK, ObjectsOK
  <2>3. /\ view' = view /\ work' = work
        /\ \/ UNCHANGED <<obj, fresh, held>>
           \/ Store(p, wanted)
           \/ obj[p].phase # "Absent" /\ Store(p, o)
    BY <1>21 DEF ApplyRegistration
  <2> HIDE DEF wanted, o
  <2>4. CASE UNCHANGED <<obj, fresh, held>>
    BY <2>3, <2>4 DEF CopiesAreCurrent
  <2> QED BY <2>1, <2>2, <2>3, <2>4, StoreCopies
<1>22. ASSUME NEW p \in Projects, ApplyGets(p) PROVE CopiesAreCurrent'
  BY <1>22, NCAssumption, Steps DEF CopiesAreCurrent, NCTypeOK, ObjectsOK, HandlersOK,
     ApplyGets, Goes, Idle, Names, server, handling, applying, requests, caches, budget
<1>23. ASSUME NEW p \in Projects, ApplyTracks(p) PROVE CopiesAreCurrent'
  BY <1>23, NCAssumption, Steps DEF CopiesAreCurrent, NCTypeOK, ObjectsOK, HandlersOK,
     ApplyTracks, Returns, Goes, A!Succeed, Idle, Names, server, handling, applying, requests,
     caches, budget
<1>24. ASSUME NEW p \in Projects, ApplyCreatesConfig(p) PROVE CopiesAreCurrent'
  BY <1>24, NCAssumption, Steps DEF CopiesAreCurrent, NCTypeOK, ObjectsOK, HandlersOK,
     ApplyCreatesConfig, StoreConfig, Completes, Returns, Goes, A!Succeed, Idle, Names, server,
     handling, applying, requests, caches, budget
<1>25. ASSUME NEW p \in Projects, ApplyLeavesConfig(p) PROVE CopiesAreCurrent'
  BY <1>25, NCAssumption, Steps DEF CopiesAreCurrent, NCTypeOK, ObjectsOK, HandlersOK,
     ApplyLeavesConfig, Completes, Returns, Goes, A!Succeed, Idle, Names, server, handling,
     applying, requests, caches, budget
<1>26. ASSUME NEW p \in Projects, ApplyDeletesConfig(p) PROVE CopiesAreCurrent'
  BY <1>26, NCAssumption, Steps DEF CopiesAreCurrent, NCTypeOK, ObjectsOK, HandlersOK,
     ApplyDeletesConfig, StoreConfig, Goes, Idle, Names, server, handling, applying, requests,
     caches, budget
<1>27. ASSUME NEW p \in Projects, ApplyIsRefused(p) PROVE CopiesAreCurrent'
  BY <1>27, NCAssumption, Steps DEF CopiesAreCurrent, NCTypeOK, ObjectsOK, HandlersOK,
     ApplyIsRefused, ApplyErrs, Returns, Goes, A!Fail, Idle, Names, server, handling, applying,
     requests, caches, budget
<1>28. ASSUME NEW p \in Projects, ApplyFails(p) PROVE CopiesAreCurrent'
  BY <1>28, NCAssumption, Steps DEF CopiesAreCurrent, NCTypeOK, ObjectsOK, HandlersOK,
     ApplyFails, ApplyErrs, Returns, Goes, A!Fail, Fault, Idle, Names, server, handling,
     applying, requests, caches, budget
<1>29. ASSUME NEW p \in Projects, ApplyRetries(p) PROVE CopiesAreCurrent'
  BY <1>29, NCAssumption, Steps DEF CopiesAreCurrent, NCTypeOK, ObjectsOK, HandlersOK,
     ApplyRetries, A!Retry, Idle, Names, server, handling, applying, requests, caches, budget
<1>30. ASSUME NEW p \in Projects, ResolvesConfig(p) PROVE CopiesAreCurrent'
  BY <1>30, NCAssumption, Steps DEF CopiesAreCurrent, NCTypeOK, ObjectsOK, HandlersOK,
     ResolvesConfig, Idle, Names, server, handling, applying, requests, caches, budget
<1>31. ASSUME NEW p \in Projects, ContentIsRemoved(p) PROVE CopiesAreCurrent'
  BY <1>31, NCAssumption, Steps DEF CopiesAreCurrent, NCTypeOK, ObjectsOK, HandlersOK,
     ContentIsRemoved, StoreConfig, Idle, Names, server, handling, applying, requests, caches,
     budget
<1>32. ASSUME NEW n \in Namespaces, NEW l \in Labels, CreateNamespace(n, l) PROVE CopiesAreCurrent'
  BY <1>32, NCAssumption, Steps DEF CopiesAreCurrent, NCTypeOK, ObjectsOK, HandlersOK,
     CreateNamespace, UserStores, Store, Changed, Change, User, Idle, Names, server, handling,
     applying, requests, caches, budget
<1>33. ASSUME NEW n \in Namespaces, NEW l \in Labels, MoveNamespace(n, l) PROVE CopiesAreCurrent'
  <2> DEFINE o == [obj[n] EXCEPT !.project = l]
  <2>1. o \in Object /\ n \in Names /\ (o.phase = "Absent" => o = Gone)
    BY <1>33, Objects DEF MoveNamespace, NCTypeOK, ObjectsOK, Object, Names, Labels
  <2>2. Store(n, o) /\ view' = view /\ work' = work
    BY <1>33 DEF MoveNamespace, UserStores
  <2> HIDE DEF o
  <2> QED BY <2>1, <2>2, StoreCopies
<1>34. ASSUME NEW n \in Names, DeleteNamespace(n) PROVE CopiesAreCurrent'
  <2> DEFINE o == [obj[n] EXCEPT !.phase = "Terminating"]
  <2>1. o \in Object /\ n \in Names /\ (o.phase = "Absent" => o = Gone)
    BY <1>34, Objects DEF DeleteNamespace, NCTypeOK, ObjectsOK, Object, Names, Labels
  <2>2. Store(n, o) /\ view' = view /\ work' = work
    BY <1>34 DEF DeleteNamespace, UserStores
  <2> HIDE DEF o
  <2> QED BY <2>1, <2>2, StoreCopies
<1>35. ASSUME NEW p \in Projects, NEW l \in {None, System}, EditRegistration(p, l)
      PROVE CopiesAreCurrent'
  <2> DEFINE o == [obj[p] EXCEPT !.project = l]
  <2>1. o \in Object /\ p \in Names /\ (o.phase = "Absent" => o = Gone)
    BY <1>35, Objects DEF EditRegistration, NCTypeOK, ObjectsOK, Object, Names, Labels
  <2>2. Store(p, o) /\ view' = view /\ work' = work
    BY <1>35 DEF EditRegistration, UserStores
  <2> HIDE DEF o
  <2> QED BY <2>1, <2>2, StoreCopies
<1>36. ASSUME NEW p \in Projects, NEW c \in {"Absent", "Foreign"}, EditConfig(p, c)
      PROVE CopiesAreCurrent'
  BY <1>36, NCAssumption, Steps DEF CopiesAreCurrent, NCTypeOK, ObjectsOK, HandlersOK,
     EditConfig, StoreConfig, Change, Idle, Names, server, handling, applying, requests, caches,
     budget
<1>37. CASE UNCHANGED vars
  BY <1>37 DEF CopiesAreCurrent, NCTypeOK, ObjectsOK, HandlersOK, vars, server, handling,
     applying, requests, caches, budget
<1> QED
  BY <1>1, <1>2, <1>3, <1>4, <1>5, <1>6, <1>7, <1>8, <1>9, <1>10, <1>11, <1>12, <1>13, <1>14,
     <1>15, <1>16, <1>17, <1>18, <1>19, <1>20, <1>21, <1>22, <1>23, <1>24, <1>25, <1>26, <1>27,
     <1>28, <1>29, <1>30, <1>31, <1>32, <1>33, <1>34, <1>35, <1>36, <1>37 DEF Next,
     Users, Handles, Applies, Names

\* The label is only written for the project the namespace is in.
LEMMA NextLabels ==
  ASSUME NCTypeOK, CopiesAreCurrent, [Next]_vars, NEW n \in Namespaces,
         obj'[n].phase = "Active", obj'[n].helm # obj[n].helm
  PROVE  obj'[n].project = (IF obj'[n].helm = None THEN None ELSE obj'[n].helm)
<1>1. CASE Crash
  BY <1>1, NCAssumption, Objects DEF CopiesAreCurrent, NCTypeOK, ObjectsOK, Object, Crash,
     Fault, Exit, Names, server, handling, applying, requests, caches, budget
<1>2. CASE GivesUp
  BY <1>2, NCAssumption, Objects DEF CopiesAreCurrent, NCTypeOK, ObjectsOK, Object, GivesUp,
     Exit, Names, server, handling, applying, requests, caches, budget
<1>3. CASE GivesUpEarly
  BY <1>3, NCAssumption, Objects DEF CopiesAreCurrent, NCTypeOK, ObjectsOK, Object,
     GivesUpEarly, Fault, Exit, Names, server, handling, applying, requests, caches, budget
<1>4. CASE Starts
  BY <1>4, NCAssumption, Objects DEF CopiesAreCurrent, NCTypeOK, ObjectsOK, Object, Starts,
     Names, server, handling, applying, requests, caches, budget
<1>5. CASE Serves
  BY <1>5, NCAssumption, Objects DEF CopiesAreCurrent, NCTypeOK, ObjectsOK, Object, Serves,
     Names, server, handling, applying, requests, caches, budget
<1>6. CASE \E m \in Names : HandlesNothing(m)
  BY <1>6, NCAssumption, Objects DEF CopiesAreCurrent, NCTypeOK, ObjectsOK, Object,
     HandlesNothing, Ends, Names, server, handling, applying, requests, caches, budget
<1>7. CASE \E m \in Names : HandlesRegular(m)
  BY <1>7, NCAssumption, Objects DEF CopiesAreCurrent, NCTypeOK, ObjectsOK, Object,
     HandlesRegular, IsRegular, MayHandle, Ends, Requests, A!Request, Names, server, handling,
     applying, requests, caches, budget
<1>8. CASE \E m \in Names : StartsUpdate(m)
  BY <1>8, NCAssumption, Objects DEF CopiesAreCurrent, NCTypeOK, ObjectsOK, Object,
     StartsUpdate, IsRegular, MayHandle, Names, server, handling, applying, requests, caches,
     budget
<1>9. CASE \E m \in Names : SetsLabel(m)
  <2>1. PICK m \in Names : SetsLabel(m)
    BY <1>9
  <2>2. m \in held /\ work[m].pc = "update" /\ work[m].label \in Projects
    BY <2>1 DEF SetsLabel
  <2>3. obj' = [obj EXCEPT ![m] = [obj[m] EXCEPT !.helm = work[m].label]]
    BY <2>1 DEF SetsLabel
  <2>4. m = n
    BY <2>3 DEF NCTypeOK, ObjectsOK, Names
  <2>5. obj'[n].helm = work[n].label /\ obj'[n].project = obj[n].project
    BY <2>3, <2>4 DEF NCTypeOK, ObjectsOK, Object, Names
  <2> QED BY <2>2, <2>4, <2>5, NCAssumption DEF CopiesAreCurrent
<1>10. CASE \E m \in Names : RemovesLabel(m)
  <2>1. PICK m \in Names : RemovesLabel(m)
    BY <1>10
  <2>2. m \in held /\ work[m].pc = "update" /\ work[m].label = None
    BY <2>1 DEF RemovesLabel
  <2>3. obj' = [obj EXCEPT ![m] = [obj[m] EXCEPT !.helm = None]]
    BY <2>1 DEF RemovesLabel, Store
  <2>4. m = n
    BY <2>3 DEF NCTypeOK, ObjectsOK, Names
  <2>5. obj'[n].helm = None /\ obj'[n].project = obj[n].project
    BY <2>3, <2>4 DEF NCTypeOK, ObjectsOK, Object, Names
  <2> QED BY <2>2, <2>4, <2>5 DEF CopiesAreCurrent
<1>11. CASE \E m \in Names : Conflicts(m)
  BY <1>11, NCAssumption, Objects DEF CopiesAreCurrent, NCTypeOK, ObjectsOK, Object, Conflicts,
     Errs, Exit, Names, server, handling, applying, requests, caches, budget
<1>12. CASE \E m \in Names : UpdateFails(m)
  BY <1>12, NCAssumption, Objects DEF CopiesAreCurrent, NCTypeOK, ObjectsOK, Object,
     UpdateFails, Fault, Errs, Exit, Names, server, handling, applying, requests, caches, budget
<1>13. CASE \E m \in Names : Delivers(m)
  BY <1>13, NCAssumption, Objects DEF CopiesAreCurrent, NCTypeOK, ObjectsOK, Object, Delivers,
     Names, server, handling, applying, requests, caches, budget
<1>14. CASE \E m \in Names : Resyncs(m)
  BY <1>14, NCAssumption, Objects DEF CopiesAreCurrent, NCTypeOK, ObjectsOK, Object, Resyncs,
     Names, server, handling, applying, requests, caches, budget
<1>15. CASE \E m \in Names : NamespaceIsGone(m)
  <2>1. PICK m \in Names : NamespaceIsGone(m)
    BY <1>15
  <2>2. obj' = [obj EXCEPT ![m] = Gone]
    BY <2>1 DEF NamespaceIsGone, UserStores, Store
  <2>3. Gone.phase = "Absent"
    BY DEF Gone
  <2> QED BY <2>2, <2>3 DEF NCTypeOK, ObjectsOK, Names
<1>16. CASE \E p \in Projects : HandlesRegistration(p)
  BY <1>16, NCAssumption, Objects DEF CopiesAreCurrent, NCTypeOK, ObjectsOK, Object,
     HandlesRegistration, MayHandle, Ends, Index, Names, server, handling, applying, requests,
     caches, budget
<1>17. CASE \E p \in Projects : FailsRegistration(p)
  BY <1>17, NCAssumption, Objects DEF CopiesAreCurrent, NCTypeOK, ObjectsOK, Object,
     FailsRegistration, Errs, Exit, Names, server, handling, applying, requests, caches, budget
<1>18. CASE \E p \in Projects : Untracks(p)
  BY <1>18, NCAssumption, Objects DEF CopiesAreCurrent, NCTypeOK, ObjectsOK, Object, Untracks,
     Ends, Names, server, handling, applying, requests, caches, budget
<1>19. CASE \E p \in Projects : ApplyBegins(p)
  BY <1>19, NCAssumption, Objects DEF CopiesAreCurrent, NCTypeOK, ObjectsOK, Object,
     ApplyBegins, Goes, A!Begin, Names, server, handling, applying, requests, caches, budget
<1>20. CASE \E p \in Projects : ApplySkips(p)
  BY <1>20, NCAssumption, Objects DEF CopiesAreCurrent, NCTypeOK, ObjectsOK, Object, ApplySkips,
     Returns, Goes, A!Succeed, Names, server, handling, applying, requests, caches, budget
<1>21. CASE \E p \in Projects : ApplyRegistration(p)
  <2>1. PICK p \in Projects : ApplyRegistration(p)
    BY <1>21
  <2>2. \E o : obj' = [obj EXCEPT ![p] = o] \/ obj' = obj
    BY <2>1 DEF ApplyRegistration, Store
  <2> QED BY <2>2, NCAssumption DEF NCTypeOK, ObjectsOK, Names
<1>22. CASE \E p \in Projects : ApplyGets(p)
  BY <1>22, NCAssumption, Objects DEF CopiesAreCurrent, NCTypeOK, ObjectsOK, Object, ApplyGets,
     Goes, Names, server, handling, applying, requests, caches, budget
<1>23. CASE \E p \in Projects : ApplyTracks(p)
  BY <1>23, NCAssumption, Objects DEF CopiesAreCurrent, NCTypeOK, ObjectsOK, Object,
     ApplyTracks, Returns, Goes, A!Succeed, Names, server, handling, applying, requests, caches,
     budget
<1>24. CASE \E p \in Projects : ApplyCreatesConfig(p)
  BY <1>24, NCAssumption, Objects DEF CopiesAreCurrent, NCTypeOK, ObjectsOK, Object,
     ApplyCreatesConfig, StoreConfig, Completes, Returns, Goes, A!Succeed, Names, server,
     handling, applying, requests, caches, budget
<1>25. CASE \E p \in Projects : ApplyLeavesConfig(p)
  BY <1>25, NCAssumption, Objects DEF CopiesAreCurrent, NCTypeOK, ObjectsOK, Object,
     ApplyLeavesConfig, Completes, Returns, Goes, A!Succeed, Names, server, handling, applying,
     requests, caches, budget
<1>26. CASE \E p \in Projects : ApplyDeletesConfig(p)
  BY <1>26, NCAssumption, Objects DEF CopiesAreCurrent, NCTypeOK, ObjectsOK, Object,
     ApplyDeletesConfig, StoreConfig, Goes, Names, server, handling, applying, requests, caches,
     budget
<1>27. CASE \E p \in Projects : ApplyIsRefused(p)
  BY <1>27, NCAssumption, Objects DEF CopiesAreCurrent, NCTypeOK, ObjectsOK, Object,
     ApplyIsRefused, ApplyErrs, Returns, Goes, A!Fail, Names, server, handling, applying,
     requests, caches, budget
<1>28. CASE \E p \in Projects : ApplyFails(p)
  BY <1>28, NCAssumption, Objects DEF CopiesAreCurrent, NCTypeOK, ObjectsOK, Object, ApplyFails,
     ApplyErrs, Returns, Goes, A!Fail, Fault, Names, server, handling, applying, requests,
     caches, budget
<1>29. CASE \E p \in Projects : ApplyRetries(p)
  BY <1>29, NCAssumption, Objects DEF CopiesAreCurrent, NCTypeOK, ObjectsOK, Object,
     ApplyRetries, A!Retry, Names, server, handling, applying, requests, caches, budget
<1>30. CASE \E p \in Projects : ResolvesConfig(p)
  BY <1>30, NCAssumption, Objects DEF CopiesAreCurrent, NCTypeOK, ObjectsOK, Object,
     ResolvesConfig, Names, server, handling, applying, requests, caches, budget
<1>31. CASE \E p \in Projects : ContentIsRemoved(p)
  BY <1>31, NCAssumption, Objects DEF CopiesAreCurrent, NCTypeOK, ObjectsOK, Object,
     ContentIsRemoved, StoreConfig, Names, server, handling, applying, requests, caches, budget
<1>32. CASE \E m \in Namespaces, l \in Labels : CreateNamespace(m, l)
  <2>1. PICK m \in Namespaces, l \in Labels : CreateNamespace(m, l)
    BY <1>32
  <2>2. obj' = [obj EXCEPT ![m] = User(l)] /\ obj[m] = Gone
    BY <2>1 DEF CreateNamespace, UserStores, Store, CopiesAreCurrent, Names
  <2>3. User(l).helm = Gone.helm
    BY DEF User, Gone
  <2> QED BY <2>2, <2>3 DEF NCTypeOK, ObjectsOK, Names
<1>33. CASE \E m \in Namespaces, l \in Labels : MoveNamespace(m, l)
  BY <1>33, NCAssumption, Objects DEF CopiesAreCurrent, NCTypeOK, ObjectsOK, Object,
     MoveNamespace, UserStores, Store, Changed, Change, Names, server, handling, applying,
     requests, caches, budget
<1>34. CASE \E m \in Names : DeleteNamespace(m)
  BY <1>34, NCAssumption, Objects DEF CopiesAreCurrent, NCTypeOK, ObjectsOK, Object,
     DeleteNamespace, UserStores, Store, Changed, Change, Names, server, handling, applying,
     requests, caches, budget
<1>35. CASE \E p \in Projects, l \in {None, System} : EditRegistration(p, l)
  BY <1>35, NCAssumption, Objects DEF CopiesAreCurrent, NCTypeOK, ObjectsOK, Object,
     EditRegistration, UserStores, Store, Changed, Change, Names, server, handling, applying,
     requests, caches, budget
<1>36. CASE \E p \in Projects, c \in {"Absent", "Foreign"} : EditConfig(p, c)
  BY <1>36, NCAssumption, Objects DEF CopiesAreCurrent, NCTypeOK, ObjectsOK, Object, EditConfig,
     StoreConfig, Change, Names, server, handling, applying, requests, caches, budget
<1>37. CASE UNCHANGED vars
  BY <1>37 DEF vars, server
<1> QED
  BY <1>1, <1>2, <1>3, <1>4, <1>5, <1>6, <1>7, <1>8, <1>9, <1>10, <1>11, <1>12, <1>13, <1>14,
     <1>15, <1>16, <1>17, <1>18, <1>19, <1>20, <1>21, <1>22, <1>23, <1>24, <1>25, <1>26, <1>27,
     <1>28, <1>29, <1>30, <1>31, <1>32, <1>33, <1>34, <1>35, <1>36, <1>37 DEF Next,
     Users, Handles, Applies, Names

\* The operator labels a namespace with a project only while the namespace is in
\* it, whatever copy the handler started from (LabelsAreCurrent).
THEOREM LabelsFollowProjects == Spec => LabelsAreCurrent
<1>1. Init => CopiesAreCurrent
  BY InitCopies
<1>2. NCTypeOK /\ CopiesAreCurrent /\ [Next]_vars => CopiesAreCurrent'
  BY NextCopies
<1>3. NCTypeOK /\ CopiesAreCurrent /\ [Next]_vars =>
        [\A n \in Namespaces :
           obj'[n].phase = "Active" /\ obj'[n].helm # obj[n].helm =>
             obj'[n].project = (IF obj'[n].helm = None THEN None ELSE obj'[n].helm)]_vars
  BY NextLabels
<1> QED BY <1>1, <1>2, <1>3, NCTypeCorrect, PTL DEF Spec, LabelsAreCurrent
-----------------------------------------------------------------------------
(* Start-up *)

\* A registration namespace is labelled with its own project, or users changed that.
OwnLabels == \A p \in Projects : {obj[p].project, view[p].project} \subseteq {p, None, System}

\* No step labels it with another project.
LEMMA NextOwn ==
  ASSUME NCTypeOK, OwnLabels, [Next]_vars PROVE OwnLabels'
<1>1. CASE UNCHANGED <<obj, view>>
  BY <1>1 DEF OwnLabels
<1>2. CASE Exit
  BY <1>2 DEF OwnLabels, Exit, server, Gone, Names
<1>3. CASE obj' = obj /\ \A n \in Names : view'[n] \in {view[n], obj[n]}
  BY <1>3 DEF OwnLabels, Names
<1>4. ASSUME NEW n \in Names, NEW o, obj' = [obj EXCEPT ![n] = o], view' = view,
             n \in Projects => o.project \in {n, None, System}
      PROVE  OwnLabels'
  BY <1>4 DEF OwnLabels, NCTypeOK, ObjectsOK, Names
<1>5. CASE Crash \/ GivesUp \/ GivesUpEarly
  BY <1>5, <1>2 DEF Crash, GivesUp, GivesUpEarly
<1>6. CASE Starts \/ Serves
  BY <1>6, <1>3 DEF Starts, Serves, server
<1>7. ASSUME NEW n \in Names, Handles(n) \/ UpdateFails(n)
      PROVE  OwnLabels'
  <2>1. CASE HandlesNothing(n) \/ HandlesRegular(n) \/ StartsUpdate(n)
    BY <2>1, <1>1 DEF HandlesNothing, HandlesRegular, StartsUpdate, server
  <2>2. CASE SetsLabel(n) \/ RemovesLabel(n)
    <3>1. PICK h : obj' = [obj EXCEPT ![n] = [obj[n] EXCEPT !.helm = h]]
      BY <2>2 DEF SetsLabel, RemovesLabel, Store
    <3>2. view' = view
      BY <2>2 DEF SetsLabel, RemovesLabel
    <3>3. [obj[n] EXCEPT !.helm = h].project = obj[n].project
      BY DEF NCTypeOK, ObjectsOK, Object
    <3> QED BY <3>1, <3>2, <3>3, <1>4 DEF OwnLabels
  <2>3. CASE Conflicts(n) \/ UpdateFails(n) \/ FailsRegistration(n)
    BY <2>3, <1>1, <1>2 DEF Conflicts, UpdateFails, FailsRegistration, Errs, server
  <2>4. CASE HandlesRegistration(n) \/ Untracks(n)
    BY <2>4, <1>1 DEF HandlesRegistration, Untracks, server
  <2> QED BY <1>7, <2>1, <2>2, <2>3, <2>4 DEF Handles
<1>8. ASSUME NEW n \in Names, Delivers(n) \/ Resyncs(n) \/ NamespaceIsGone(n)
      PROVE  OwnLabels'
  <2>1. CASE Delivers(n)
    BY <2>1, <1>3 DEF Delivers, server, NCTypeOK, ObjectsOK
  <2>2. CASE Resyncs(n)
    BY <2>2, <1>1 DEF Resyncs, server
  <2>3. CASE NamespaceIsGone(n)
    BY <2>3, <1>4 DEF NamespaceIsGone, UserStores, Store, Gone
  <2> QED BY <1>8, <2>1, <2>2, <2>3
<1>9. ASSUME NEW p \in Projects, Applies(p) \/ ApplyFails(p) \/ ApplyRetries(p)
      PROVE  OwnLabels'
  <2>1. CASE ApplyRegistration(p)
    <3> DEFINE wanted == Registration(p, run[p].orphaned)
               patched == Patched(obj[p], Known(p), wanted)
    <3>1. wanted.project = p
      BY DEF Registration
    <3>2. patched.project \in {obj[p].project, p}
      BY <3>1 DEF Patched, NCTypeOK, ObjectsOK, Object
    <3>3. view' = view /\ (obj' = obj \/ Store(p, wanted) \/ Store(p, patched))
      BY <2>1 DEF ApplyRegistration
    <3> HIDE DEF wanted, patched
    <3>4. \/ UNCHANGED <<obj, view>>
          \/ \E o : obj' = [obj EXCEPT ![p] = o] /\ o.project \in {p, None, System}
      BY <3>1, <3>2, <3>3 DEF Store, OwnLabels
    <3> QED BY <3>3, <3>4, <1>1, <1>4 DEF Names
  <2>2. CASE ApplyBegins(p) \/ ApplySkips(p) \/ ApplyGets(p) \/ ApplyTracks(p)
    BY <2>2, <1>1 DEF ApplyBegins, ApplySkips, ApplyGets, ApplyTracks, server
  <2>3. CASE ApplyCreatesConfig(p) \/ ApplyLeavesConfig(p) \/ ApplyDeletesConfig(p)
    BY <2>3, <1>1 DEF ApplyCreatesConfig, ApplyLeavesConfig, ApplyDeletesConfig, server
  <2>4. CASE ApplyIsRefused(p) \/ ApplyFails(p) \/ ApplyRetries(p)
    BY <2>4, <1>1 DEF ApplyIsRefused, ApplyFails, ApplyRetries, ApplyErrs, server
  <2> QED BY <1>9, <2>1, <2>2, <2>3, <2>4 DEF Applies
<1>10. ASSUME NEW p \in Projects, ResolvesConfig(p) \/ ContentIsRemoved(p)
       PROVE  OwnLabels'
  BY <1>10, <1>1 DEF ResolvesConfig, ContentIsRemoved, server
<1>11. CASE Users
  <2>1. ASSUME NEW n \in Namespaces, NEW l \in Labels,
               CreateNamespace(n, l) \/ MoveNamespace(n, l)
        PROVE  OwnLabels'
    <3>1. PICK o : obj' = [obj EXCEPT ![n] = o]
      BY <2>1 DEF CreateNamespace, MoveNamespace, UserStores, Store
    <3>2. view' = view /\ n \in Names /\ n \notin Projects
      BY <2>1, NCAssumption DEF CreateNamespace, MoveNamespace, UserStores, Names
    <3> QED BY <3>1, <3>2, <1>4
  <2>2. ASSUME NEW n \in Names, DeleteNamespace(n)
        PROVE  OwnLabels'
    <3>1. [obj[n] EXCEPT !.phase = "Terminating"].project = obj[n].project
      BY DEF NCTypeOK, ObjectsOK, Object
    <3> QED BY <2>2, <3>1, <1>4 DEF DeleteNamespace, UserStores, Store, OwnLabels
  <2>3. ASSUME NEW p \in Projects, NEW l \in {None, System}, EditRegistration(p, l)
        PROVE  OwnLabels'
    <3>1. p \in Names /\ [obj[p] EXCEPT !.project = l].project = l
      BY DEF NCTypeOK, ObjectsOK, Object, Names
    <3> QED BY <2>3, <3>1, <1>4 DEF EditRegistration, UserStores, Store
  <2>4. ASSUME NEW p \in Projects, NEW c, EditConfig(p, c)
        PROVE  OwnLabels'
    BY <2>4, <1>1 DEF EditConfig
  <2> QED BY <1>11, <2>1, <2>2, <2>3, <2>4 DEF Users
<1>12. CASE UNCHANGED vars
  BY <1>12, <1>1 DEF vars, server
<1> QED BY <1>5, <1>6, <1>7, <1>8, <1>9, <1>10, <1>11, <1>12 DEF Next

\* A namespace for whose project a registration namespace is needed.
Needed(n) ==
  view[n].phase # "Absent" /\ ~IsSystem(n, view[n]) /\ view[n].project \in Projects

\* While the process starts, each of these is yet to be handled or its project is on the
\* list; a handler that writes a label works for the project of the copy that is handled.
Found ==
  /\ phase = "down" => \A n \in Names : work[n] = Idle
  /\ phase = "init" =>
       /\ \A n \in Names : Needed(n) => n \in todo \/ view[n].project \in initList
       /\ \A n \in Names : work[n].pc = "update" => work[n].label = view[n].project
       /\ \A p \in Projects : work[p].pc = "untrack" => p \in initList

\* Then a step that leaves the start-up finds them all tracked.
Ready ==
  phase = "init" /\ phase' = "up" =>
    \A n \in Names : Needed(n) => Tracked(view[n].project)

\* The end of handling n, with the project of its copy on the list.
LEMMA EndsFound ==
  ASSUME NCTypeOK, Found, phase # "down", NEW n \in Names, Ends(n),
         UNCHANGED <<phase, view>>, initList \subseteq initList',
         phase = "init" /\ Needed(n) => view[n].project \in initList'
  PROVE  Found'
<1>1. /\ \A m \in Names : m # n => work'[m] = work[m] /\ (m \in todo => m \in todo')
      /\ work'[n].pc = "idle"
  BY DEF Ends, NCTypeOK, HandlersOK, Idle
<1>2. \A m \in Names : Needed(m)' = Needed(m)
  BY DEF Needed, IsSystem
<1> QED BY <1>1, <1>2 DEF Found, Names

LEMMA NextFound ==
  ASSUME NCTypeOK, WorkIsExpected, OwnLabels, Found, [Next]_vars
  PROVE  Found' /\ Ready
<1>1. CASE UNCHANGED <<phase, view, todo, initList, work>>
  BY <1>1 DEF Found, Ready, Needed, IsSystem
<1>2. CASE Exit
  BY <1>2 DEF Exit, Found, Ready
<1>3. CASE phase = "up" /\ phase' = "up"
  BY <1>3 DEF Found, Ready
<1>4. CASE Crash \/ GivesUp \/ GivesUpEarly
  BY <1>4, <1>2 DEF Crash, GivesUp, GivesUpEarly
<1>5. CASE Starts
  <2>1. /\ phase = "down" /\ phase' = "init" /\ view' = obj /\ work' = work
        /\ todo' = {n \in Names : obj[n].phase # "Absent"}
    BY <1>5 DEF Starts
  <2>2. \A n \in Names : work'[n].pc = "idle"
    BY <2>1 DEF Found, Idle
  <2> QED BY <2>1, <2>2 DEF Found, Ready, Needed, Names
<1>6. CASE Serves
  <2>1. phase = "init" /\ phase' = "up" /\ todo = {} /\ Matches
    BY <1>6 DEF Serves, Initialised
  <2> QED BY <2>1 DEF Found, Ready, Matches
<1>7. ASSUME NEW n \in Names, Handles(n) \/ UpdateFails(n)
      PROVE  Found' /\ Ready
  <2>0. CASE phase' = phase /\ phase = "up"
    BY <2>0, <1>3
  <2>1. CASE Conflicts(n) \/ UpdateFails(n) \/ FailsRegistration(n)
    <3>1. PICK c : Errs(n, c)
      BY <2>1 DEF Conflicts, UpdateFails, FailsRegistration
    <3>2. CASE phase = "init" /\ ~Exit
      <4>1. UNCHANGED <<phase, view, todo, initList>> /\ work' = [work EXCEPT ![n] = Idle]
        BY <3>1, <3>2 DEF Errs
      <4>2. /\ \A m \in Names : m # n => work'[m] = work[m]
            /\ work'[n].pc = "idle"
        BY <4>1 DEF NCTypeOK, HandlersOK, Idle
      <4> QED BY <3>2, <4>1, <4>2 DEF Found, Ready, Needed, IsSystem, Names
    <3> QED BY <3>1, <3>2, <2>0, <1>2 DEF Errs
  <2>2. CASE HandlesNothing(n)
    <3>1. UNCHANGED <<phase, view, initList>> /\ Ends(n) /\ phase # "down"
      BY <2>2 DEF HandlesNothing, MayHandle
    <3>2. ~Needed(n)
      BY <2>2 DEF HandlesNothing, Needed
    <3> QED BY <3>1, <3>2, EndsFound DEF Ready
  <2>3. CASE HandlesRegular(n)
    <3>1. UNCHANGED <<phase, view>> /\ Ends(n) /\ phase # "down"
      BY <2>3 DEF HandlesRegular, IsRegular, MayHandle
    <3>2. /\ initList \subseteq initList'
          /\ view[n].project \in Projects => view[n].project \in initList'
      BY <2>3 DEF HandlesRegular, Requests
    <3> QED BY <3>1, <3>2, EndsFound DEF Ready, Needed
  <2>4. CASE StartsUpdate(n)
    <3>1. /\ UNCHANGED <<phase, view, todo, initList>> /\ phase # "down"
          /\ work' = [work EXCEPT ![n] = [pc |-> "update", label |-> view[n].project]]
      BY <2>4 DEF StartsUpdate, IsRegular, MayHandle
    <3>2. /\ \A m \in Names : m # n => work'[m] = work[m]
          /\ work'[n].pc = "update" /\ work'[n].label = view[n].project
      BY <3>1 DEF NCTypeOK, HandlersOK
    <3> QED BY <3>1, <3>2 DEF Found, Ready, Needed, IsSystem, Names
  <2>5. CASE SetsLabel(n)
    <3>1. /\ UNCHANGED <<phase, view>> /\ Ends(n)
          /\ work[n].pc = "update" /\ work[n].label \in Projects
          /\ Requests(work[n].label)
      BY <2>5 DEF SetsLabel
    <3>2. phase # "down"
      BY <3>1 DEF Found, Idle
    <3>3. initList' = initList \cup {work[n].label}
      BY <3>1 DEF Requests
    <3>4. phase = "init" => view[n].project \in initList'
      BY <3>1, <3>3 DEF Found
    <3> QED BY <3>1, <3>2, <3>3, <3>4, EndsFound DEF Ready
  <2>6. CASE RemovesLabel(n)
    <3>1. /\ UNCHANGED <<phase, view, todo, initList>> /\ work[n].pc = "update"
          /\ work' = [work EXCEPT ![n].pc = "again"]
      BY <2>6 DEF RemovesLabel
    <3>2. /\ \A m \in Names : m # n => work'[m] = work[m]
          /\ work'[n].pc = "again"
      BY <3>1, Steps DEF NCTypeOK, HandlersOK, HandlerStep, Idle
    <3>3. phase # "down"
      BY <3>1 DEF Found, Idle
    <3> QED BY <3>1, <3>2, <3>3 DEF Found, Ready, Needed, IsSystem, Names
  \* What is tracked is on the list, and can only be listed for its own project.
  <2>7. CASE n \in Projects /\ HandlesRegistration(n)
    <3>1. n \in initList
      BY <2>7 DEF HandlesRegistration, WorkIsExpected
    <3>2. view[n].project \in Projects => view[n].project = n
      BY <2>7, NCAssumption DEF OwnLabels
    <3>3. UNCHANGED <<phase, view, initList>> /\ phase # "down"
      BY <2>7 DEF HandlesRegistration, MayHandle
    <3>4. CASE Ends(n)
      BY <3>1, <3>2, <3>3, <3>4, EndsFound DEF Ready, Needed
    <3>5. CASE work' = [work EXCEPT ![n] = [pc |-> "untrack"]] /\ UNCHANGED todo
      <4>1. /\ \A m \in Names : m # n => work'[m] = work[m]
            /\ work'[n].pc = "untrack"
        BY <3>5 DEF NCTypeOK, HandlersOK
      <4> QED BY <3>1, <3>3, <3>5, <4>1 DEF Found, Ready, Needed, IsSystem, Names
    <3> QED BY <2>7, <3>4, <3>5 DEF HandlesRegistration
  <2>8. CASE n \in Projects /\ Untracks(n)
    <3>1. /\ UNCHANGED <<phase, view, initList>> /\ Ends(n) /\ work[n].pc = "untrack"
      BY <2>8 DEF Untracks
    <3>2. phase # "down"
      BY <3>1 DEF Found, Idle
    <3>3. phase = "init" => n \in initList
      BY <2>8, <3>1 DEF Found
    <3>4. view[n].project \in Projects => view[n].project = n
      BY <2>8, NCAssumption DEF OwnLabels
    <3> QED BY <3>1, <3>2, <3>3, <3>4, EndsFound DEF Ready, Needed
  <2> QED BY <1>7, <2>1, <2>2, <2>3, <2>4, <2>5, <2>6, <2>7, <2>8 DEF Handles
<1>8. ASSUME NEW n \in Names, Delivers(n) \/ Resyncs(n)
      PROVE  Found' /\ Ready
  BY <1>8, <1>3 DEF Delivers, Resyncs
<1>9. CASE (\E n \in Names : NamespaceIsGone(n)) \/ Users
  BY <1>9, <1>1 DEF NamespaceIsGone, Users, UserStores, CreateNamespace, MoveNamespace,
     DeleteNamespace, EditRegistration, EditConfig, handling
<1>10. ASSUME NEW p \in Projects, Applies(p)
       PROVE  Found' /\ Ready
  BY <1>10, <1>1 DEF Applies, ApplyBegins, ApplySkips, ApplyRegistration, ApplyGets, ApplyTracks,
     ApplyCreatesConfig, ApplyLeavesConfig, ApplyDeletesConfig, ApplyIsRefused, ApplyErrs, handling
<1>11. ASSUME NEW p \in Projects, ApplyFails(p) \/ ApplyRetries(p) \/ ResolvesConfig(p)
                                    \/ ContentIsRemoved(p)
       PROVE  Found' /\ Ready
  BY <1>11, <1>1 DEF ApplyFails, ApplyErrs, ApplyRetries, ResolvesConfig, ContentIsRemoved, handling
<1>12. CASE UNCHANGED vars
  BY <1>12, <1>1 DEF vars, handling
<1> QED BY <1>4, <1>5, <1>6, <1>7, <1>8, <1>9, <1>10, <1>11, <1>12 DEF Next

\* When Register returns, every project of a namespace it found is tracked
\* (ReadyKnowsProjects): no namespace is dropped on the way, and the tracker holds all of
\* the list.
THEOREM ReadyIsComplete == Spec => ReadyKnowsProjects
<1>1. Init => OwnLabels /\ Found
  BY DEF Init, OwnLabels, Found, Gone, Names
<1>2. NCTypeOK /\ OwnLabels /\ [Next]_vars => OwnLabels'
  BY NextOwn
<1>3. NCTypeOK /\ WorkIsExpected /\ OwnLabels /\ Found /\ [Next]_vars => Found' /\ Ready
  BY NextFound
<1>4. Ready =>
        [phase = "init" /\ phase' = "up" =>
           \A n \in Names : /\ view[n].phase # "Absent" /\ ~IsSystem(n, view[n])
                            /\ view[n].project \in Projects
                            => Tracked(view[n].project)]_vars
  BY DEF Ready, Needed
<1> QED BY <1>1, <1>2, <1>3, <1>4, NCTypeCorrect, TrackerWithinList, PTL
        DEF Spec, ReadyKnowsProjects
=============================================================================
