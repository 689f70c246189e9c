----------------------- MODULE NamespaceSettledProofs -----------------------
(***************************************************************************)
(* For all projects, namespaces, changes and faults: when the namespace    *)
(* controller has nothing left to do, the registration namespaces of the   *)
(* projects that have namespaces are as they should be.                    *)
(***************************************************************************)
EXTENDS NamespaceControllerProofs

\* A namespace of p in the cache, which is not being deleted.
Live(n, p) == n \in Index(p) /\ view[n].phase = "Active"

\* n is about to be handled, or to be handled again.
Turn(n) == n \in queue \/ work[n].pc = "update"

\* There is news of the registration namespace, and it leads to a request.
Look(p) == p \notin fresh \/ Turn(p)

Due(p) == p \in pending \cup retrying

\* The registration namespace of p is there, and belongs to p.
Here(p) == obj[p].phase = "Active" /\ obj[p].project = p

Applying(p) == run[p].pc \in {"get", "track", "config", "create"}

\* What is left for the apply function, or done by it, is enough for p.
Enough(p) ==
  /\ run[p].pc = "apply" => ~run[p].orphaned
  /\ Here(p) /\ Applying(p) => Look(p) \/ ~obj[p].orphaned
  /\ Here(p) /\ run[p].pc \in {"config", "create", "idle"} =>
       Look(p) \/ (~obj[p].orphaned /\ tracker[p] = p)
  /\ Here(p) /\ run[p].pc = "idle" => Look(p) \/ p \in charts

Served(n, p) == Live(n, p) => Turn(n) \/ Due(p) \/ Enough(p)

\* The invariant.
AllServed ==
  \A p \in Projects \ (LongProjects \cup relabelled), n \in Namespaces : Served(n, p)

-----------------------------------------------------------------------------
(* What it rests on *)

\* The applyinator runs while the process does; nothing is under way when it serves.
Opened ==
  /\ phase # "down" => ~closed
  /\ phase = "down" => \A n \in Names : work[n] = Idle
  /\ phase = "init" => \A n \in Names : work[n] # Idle => n \in todo

\* A handler works for the project of the copy, or has to look at it again.  One that is about
\* to untrack a namespace that exists will be told of it.
Carried ==
  phase = "up" =>
    /\ \A n \in Names : work[n].pc = "update" => n \in queue \/ work[n].label = view[n].project
    /\ \A p \in Projects : work[p].pc = "untrack" =>
         p \in queue \/ p \notin fresh \/ obj[p].phase # "Active"

\* What is read back of a registration namespace is what it is.
ReadBack ==
  \A p \in Projects :
    /\ run[p].pc = "track" /\ Here(p) => run[p].label = p /\ ~run[p].terminating
    /\ p \notin relabelled =>
         /\ obj[p].project \in {p, None}
         /\ tracker[p] \in {p, None, Untracked}
         /\ run[p].pc = "track" => run[p].label \in {p, None}

\* What a handler of m does, whatever step it takes.
LEMMA HandlerFrame ==
  ASSUME NCTypeOK, NEW m \in Names, Handles(m) \/ UpdateFails(m), ~Exit
  PROVE  /\ UNCHANGED <<run, view, phase, retrying, charts, closed, relabelled>>
         /\ \A k \in Names : k # m => work'[k] = work[k] /\ (k \in queue => k \in queue')
         /\ pending \subseteq pending' /\ fresh' \subseteq fresh /\ queue' \subseteq Names
         /\ todo \ {m} \subseteq todo'
         /\ \A k \in Names : /\ obj'[k].phase = obj[k].phase /\ obj'[k].project = obj[k].project
                             /\ obj'[k].orphaned = obj[k].orphaned
         /\ Untracks(m) \/ tracker' = tracker
         /\ work'[m] = Idle \/ (todo' = todo /\ (work[m] # Idle \/ MayHandle(m)))
         /\ \/ work'[m].pc \in {"idle", "again"} \/ StartsUpdate(m)
            \/ m \in Projects /\ HandlesRegistration(m)
<1> DEFINE Frame == /\ UNCHANGED <<run, view, phase, retrying, charts, closed, relabelled>>
                    /\ \A k \in Names : k # m => work'[k] = work[k] /\ (k \in queue => k \in queue')
                    /\ pending \subseteq pending' /\ fresh' \subseteq fresh
                    /\ queue' \subseteq Names
                    /\ todo \ {m} \subseteq todo'
           Same == \A k \in Names : /\ obj'[k].phase = obj[k].phase
                                    /\ obj'[k].project = obj[k].project
                                    /\ obj'[k].orphaned = obj[k].orphaned
<1>0. Idle.pc = "idle" /\ work[m] \in HandlerStep
  BY DEF Idle, NCTypeOK, HandlersOK
<1>1. CASE HandlesNothing(m)
  BY <1>0, <1>1 DEF HandlesNothing, Ends, NCTypeOK, HandlersOK, server, applying, requests, budget
<1>2. CASE HandlesRegular(m)
  BY <1>0, <1>2 DEF HandlesRegular, Ends, Requests, A!Request, NCTypeOK, HandlersOK, server,
     applying, requests, budget
<1>3. CASE StartsUpdate(m)
  BY <1>3 DEF StartsUpdate, IsRegular, NCTypeOK, HandlersOK, server, applying, requests, budget
<1>4. CASE SetsLabel(m)
  <2>1. Frame
    BY <1>4 DEF SetsLabel, Ends, Requests, A!Request, NCTypeOK, HandlersOK, applying, requests,
       budget
  <2>2. Same
    BY <1>4 DEF SetsLabel, NCTypeOK, ObjectsOK, Object
  <2>3. tracker' = tracker /\ work'[m] = Idle
    BY <1>4 DEF SetsLabel, Ends, NCTypeOK, HandlersOK
  <2> QED BY <1>0, <2>1, <2>2, <2>3
<1>5. CASE RemovesLabel(m)
  <2>1. Frame
    BY <1>5 DEF RemovesLabel, Store, NCTypeOK, HandlersOK, applying, requests, budget
  <2>2. Same
    BY <1>5 DEF RemovesLabel, Store, NCTypeOK, ObjectsOK, Object
  <2>3. /\ tracker' = tracker /\ todo' = todo /\ work[m] # Idle
        /\ work' = [work EXCEPT ![m] = [work[m] EXCEPT !.pc = "again"]]
    BY <1>0, <1>5 DEF RemovesLabel
  <2>4. work'[m].pc = "again"
    BY <1>0, <1>5, <2>3 DEF RemovesLabel, NCTypeOK, HandlersOK, HandlerStep
  <2> QED BY <2>1, <2>2, <2>3, <2>4
<1>6. CASE Conflicts(m) \/ UpdateFails(m) \/ FailsRegistration(m)
  <2>1. PICK c : Errs(m, c)
    BY <1>6 DEF Conflicts, UpdateFails, FailsRegistration
  <2>2. relabelled' = relabelled
    BY <1>6 DEF Conflicts, UpdateFails, FailsRegistration, Fault, budget
  <2> QED BY <1>0, <2>1, <2>2 DEF Errs, NCTypeOK, HandlersOK, server, applying, requests
<1>7. CASE m \in Projects /\ HandlesRegistration(m)
  <2>1. Index(tracker[m]) \subseteq Names
    BY DEF Index, Names
  <2> QED BY <1>7, <2>1 DEF HandlesRegistration, Ends, NCTypeOK, HandlersOK, server, applying,
          requests, budget
<1>8. CASE Untracks(m)
  BY <1>0, <1>8 DEF Untracks, Ends, NCTypeOK, HandlersOK, server, applying, requests, budget
<1> QED BY <1>1, <1>2, <1>3, <1>4, <1>5, <1>6, <1>7, <1>8 DEF Handles

\* What the users and Kubernetes do: a registration namespace only ever comes from an apply.
LEMMA UserFrame ==
  ASSUME NCTypeOK, Users \/ \E n \in Names : NamespaceIsGone(n)
  PROVE  /\ UNCHANGED <<run, view, phase, requests, charts, tracker, queue, work, todo>>
         /\ fresh' \subseteq fresh /\ relabelled \subseteq relabelled'
         /\ \A p \in Projects :
              /\ obj'[p].phase = "Active" =>
                   obj[p].phase = "Active" /\ obj'[p].orphaned = obj[p].orphaned
              /\ obj'[p].project \in {obj[p].project, None, System}
              /\ p \notin relabelled' => obj'[p].project \in {obj[p].project, None}
<1>1. ASSUME NEW n \in Names, NamespaceIsGone(n)
      PROVE  /\ UNCHANGED <<run, view, phase, requests, charts, tracker, queue, work, todo,
                            relabelled>>
             /\ fresh' \subseteq fresh /\ obj' = [obj EXCEPT ![n] = Gone]
  BY <1>1 DEF NamespaceIsGone, UserStores, Store, applying, requests, caches, budget
<1>2. ASSUME NEW n \in Namespaces, NEW l \in Labels, CreateNamespace(n, l) \/ MoveNamespace(n, l)
      PROVE  /\ UNCHANGED <<run, view, phase, requests, charts, tracker, queue, work, todo,
                            relabelled>>
             /\ fresh' \subseteq fresh /\ \E o : obj' = [obj EXCEPT ![n] = o]
  BY <1>2 DEF CreateNamespace, MoveNamespace, Change, UserStores, Store, applying, requests, caches
<1>3. ASSUME NEW n \in Names, DeleteNamespace(n)
      PROVE  /\ UNCHANGED <<run, view, phase, requests, charts, tracker, queue, work, todo,
                            relabelled>>
             /\ fresh' \subseteq fresh
             /\ obj' = [obj EXCEPT ![n] = [obj[n] EXCEPT !.phase = "Terminating"]]
  BY <1>3 DEF DeleteNamespace, Change, UserStores, Store, applying, requests, caches
<1>4. ASSUME NEW p \in Projects, NEW l \in {None, System}, EditRegistration(p, l)
      PROVE  /\ UNCHANGED <<run, view, phase, requests, charts, tracker, queue, work, todo>>
             /\ fresh' \subseteq fresh
             /\ relabelled' = IF l = System THEN relabelled \cup {p} ELSE relabelled
             /\ obj' = [obj EXCEPT ![p] = [obj[p] EXCEPT !.project = l]]
  BY <1>4 DEF EditRegistration, UserStores, Store, applying, requests, caches
<1>5. ASSUME NEW p \in Projects, NEW c, EditConfig(p, c)
      PROVE  /\ UNCHANGED <<run, view, phase, requests, charts, tracker, queue, work, todo,
                            relabelled>>
             /\ fresh' = fresh /\ obj' = obj
  BY <1>5 DEF EditConfig, Change, StoreConfig, handling, applying, requests, caches
<1>6. \A n \in Names : obj[n] \in Object /\ Gone.phase = "Absent" /\ Gone.project = None
  BY DEF NCTypeOK, ObjectsOK, Gone
<1> QED
  <2>1. CASE \E n \in Names : NamespaceIsGone(n)
    BY <2>1, <1>1, <1>6 DEF NCTypeOK, ObjectsOK, Names
  <2>2. CASE \E n \in Namespaces, l \in Labels : CreateNamespace(n, l) \/ MoveNamespace(n, l)
    BY <2>2, <1>2, NCAssumption DEF NCTypeOK, ObjectsOK, Names
  <2>3. CASE \E n \in Names : DeleteNamespace(n)
    BY <2>3, <1>3, <1>6 DEF NCTypeOK, ObjectsOK, Names, Object
  <2>4. CASE \E p \in Projects, l \in {None, System} : EditRegistration(p, l)
    BY <2>4, <1>4, <1>6 DEF NCTypeOK, ObjectsOK, Names, Object
  <2>5. CASE \E p \in Projects, c \in {"Absent", "Foreign"} : EditConfig(p, c)
    BY <2>5, <1>5
  <2> QED BY <2>1, <2>2, <2>3, <2>4, <2>5 DEF Users

\* What the apply function does besides.
LEMMA ApplyFrame ==
  ASSUME NCTypeOK, NEW p \in Projects, Applies(p) \/ ApplyFails(p) \/ ApplyRetries(p)
  PROVE  /\ UNCHANGED <<view, phase, queue, work, todo, closed, relabelled>>
         /\ fresh' \subseteq fresh /\ charts \subseteq charts'
         /\ \A q \in Projects : q # p =>
              /\ run'[q] = run[q] /\ tracker'[q] = tracker[q] /\ obj'[q] = obj[q]
              /\ q \in pending \cup retrying => q \in pending' \cup retrying'
         /\ ApplyRegistration(p) \/ obj' = obj
         /\ ApplyTracks(p) \/ tracker' = tracker
<1>1. CASE ApplyBegins(p)
  BY <1>1 DEF ApplyBegins, Goes, A!Begin, NCTypeOK, AppliesOK, server, handling, requests, budget
<1>2. CASE ApplySkips(p)
  BY <1>2 DEF ApplySkips, Returns, Goes, A!Succeed, NCTypeOK, AppliesOK, server, handling,
     budget
<1>3. CASE ApplyRegistration(p)
  <2>1. /\ \E o : obj' = obj \/ obj' = [obj EXCEPT ![p] = o]
        /\ fresh' \subseteq fresh
    BY <1>3 DEF ApplyRegistration, Store
  <2>2. \A q \in Projects : q # p => obj'[q] = obj[q]
    BY <2>1 DEF NCTypeOK, ObjectsOK, Names
  <2> QED BY <1>3, <2>1, <2>2 DEF ApplyRegistration, Goes, NCTypeOK, AppliesOK, requests, budget
<1>4. CASE ApplyGets(p)
  BY <1>4 DEF ApplyGets, Goes, NCTypeOK, AppliesOK, server, handling, requests, budget
<1>5. CASE ApplyTracks(p)
  BY <1>5 DEF ApplyTracks, Goes, Returns, A!Succeed, NCTypeOK, AppliesOK, TrackerOK, server,
     handling, requests, budget
<1>6. CASE ApplyCreatesConfig(p)
  BY <1>6 DEF ApplyCreatesConfig, Completes, Goes, Returns, A!Succeed, NCTypeOK, AppliesOK,
     handling, budget
<1>7. CASE ApplyLeavesConfig(p)
  BY <1>7 DEF ApplyLeavesConfig, Completes, Goes, Returns, A!Succeed, NCTypeOK, AppliesOK, server,
     handling, budget
<1>8. CASE ApplyDeletesConfig(p)
  BY <1>8 DEF ApplyDeletesConfig, Goes, NCTypeOK, AppliesOK, handling, requests, budget
<1>9. CASE ApplyIsRefused(p) \/ ApplyFails(p)
  BY <1>9 DEF ApplyIsRefused, ApplyFails, ApplyErrs, Goes, Returns, Fault, A!Fail, NCTypeOK,
     AppliesOK, server, handling, budget
<1>10. CASE ApplyRetries(p)
  BY <1>10 DEF ApplyRetries, A!Retry, NCTypeOK, AppliesOK, server, handling, budget
<1> QED BY <1>1, <1>2, <1>3, <1>4, <1>5, <1>6, <1>7, <1>8, <1>9, <1>10 DEF Applies

LEMMA NextOpened ==
  ASSUME NCTypeOK, Opened, [Next]_vars
  PROVE  Opened'
<1>1. CASE Exit
  BY <1>1 DEF Exit, Opened
<1>2. CASE Starts
  BY <1>2 DEF Starts, Opened
<1>3. CASE Serves
  BY <1>3 DEF Serves, Opened, Initialised, applying, requests
<1>4. ASSUME NEW m \in Names, Handles(m) \/ UpdateFails(m), ~Exit
      PROVE  Opened'
  <2>1. /\ phase' = phase /\ closed' = closed
        /\ \A k \in Names : k # m => work'[k] = work[k]
        /\ todo \ {m} \subseteq todo'
        /\ work'[m] = Idle \/ (todo' = todo /\ (work[m] # Idle \/ MayHandle(m)))
    BY <1>4, HandlerFrame
  <2>2. phase = "down" => ~MayHandle(m)
    BY DEF MayHandle
  <2>3. phase = "init" /\ MayHandle(m) => m \in todo
    BY DEF MayHandle
  <2> QED BY <2>1, <2>2, <2>3 DEF Opened
<1>5. CASE UNCHANGED <<phase, work, todo, closed>>
  BY <1>5 DEF Opened
<1>6. CASE Crash \/ GivesUp \/ GivesUpEarly
  BY <1>6, <1>1 DEF Crash, GivesUp, GivesUpEarly
<1>7. ASSUME NEW n \in Names, Delivers(n) \/ Resyncs(n)
      PROVE  Opened'
  BY <1>7, <1>5 DEF Delivers, Resyncs, applying, requests
<1>8. CASE Users \/ \E n \in Names : NamespaceIsGone(n)
  BY <1>8, <1>5, UserFrame DEF requests
<1>9. ASSUME NEW p \in Projects, Applies(p) \/ ApplyFails(p) \/ ApplyRetries(p)
      PROVE  Opened'
  BY <1>9, <1>5, ApplyFrame
<1>10. ASSUME NEW p \in Projects, ResolvesConfig(p) \/ ContentIsRemoved(p)
       PROVE  Opened'
  BY <1>10, <1>5 DEF ResolvesConfig, ContentIsRemoved, handling, applying, requests
<1>11. CASE UNCHANGED vars
  BY <1>11, <1>5 DEF vars, handling, applying, requests
<1> QED
  BY <1>1, <1>2, <1>3, <1>4, <1>6, <1>7, <1>8, <1>9, <1>10, <1>11 DEF Next

LEMMA NextCarried ==
  ASSUME NCTypeOK, CopiesAreCurrent, Opened, Carried, [Next]_vars
  PROVE  Carried'
<1>1. CASE Exit \/ Starts
  BY <1>1 DEF Exit, Starts, Carried
<1>2. CASE Serves
  <2>1. \A n \in Names : work'[n].pc = "idle"
    BY <1>2 DEF Serves, Initialised, Opened, Idle
  <2> QED BY <2>1 DEF Carried, Names
<1>3. ASSUME NEW m \in Names, Handles(m) \/ UpdateFails(m), ~Exit, phase = "up"
      PROVE  Carried'
  <2>1. /\ UNCHANGED <<view, phase>>
        /\ \A k \in Names : k # m => work'[k] = work[k] /\ (k \in queue => k \in queue')
        /\ fresh' \subseteq fresh
        /\ \A k \in Names : obj'[k].phase = obj[k].phase
    BY <1>3, HandlerFrame
  <2>2. ASSUME work'[m].pc = "update"
        PROVE  work'[m].label = view[m].project
    <3>1. CASE StartsUpdate(m)
      BY <3>1 DEF StartsUpdate, NCTypeOK, HandlersOK
    <3>2. CASE m \in Projects /\ HandlesRegistration(m)
      <4>1. work'[m] = Idle \/ work'[m].pc = "untrack"
        BY <3>2 DEF HandlesRegistration, Ends, NCTypeOK, HandlersOK
      <4> QED BY <4>1, <2>2 DEF Idle
    <3> QED BY <1>3, <2>2, <3>1, <3>2, HandlerFrame
  <2>3. ASSUME m \in Projects, work'[m].pc = "untrack"
        PROVE  m \notin fresh' \/ obj'[m].phase # "Active"
    <3>1. ~StartsUpdate(m)
      BY <2>3 DEF StartsUpdate, NCTypeOK, HandlersOK
    <3>2. HandlesRegistration(m)
      BY <1>3, <2>3, <3>1, HandlerFrame
    <3>3. view[m].phase = "Terminating" \/ Ends(m)
      BY <3>2 DEF HandlesRegistration
    <3>4. ~Ends(m)
      BY <2>3 DEF Ends, Idle, NCTypeOK, HandlersOK
    <3> QED BY <2>1, <3>3, <3>4 DEF CopiesAreCurrent
  <2> QED BY <1>3, <2>1, <2>2, <2>3 DEF Carried, Names
<1>4. CASE phase' = "down"
  BY <1>4 DEF Carried
\* Nothing but the queue changes, and what may be outdated.
<1>5. ASSUME UNCHANGED <<phase, work>>, queue \subseteq queue',
             \A n \in Names : n \notin queue' => view'[n] = view[n],
             \A p \in Projects : p \notin queue' /\ p \in fresh' /\ obj'[p].phase = "Active"
                                   => p \in fresh /\ obj[p].phase = "Active"
      PROVE  Carried'
  BY <1>5 DEF Carried, Names
<1>6. CASE Crash \/ GivesUp \/ GivesUpEarly
  BY <1>6, <1>1 DEF Crash, GivesUp, GivesUpEarly
<1>7. ASSUME NEW n \in Names, Delivers(n) \/ Resyncs(n)
      PROVE  Carried'
  <2>1. CASE Delivers(n)
    BY <2>1, <1>5 DEF Delivers, server, NCTypeOK, ObjectsOK, Names
  <2>2. CASE Resyncs(n)
    BY <2>2, <1>5 DEF Resyncs, server
  <2> QED BY <1>7, <2>1, <2>2
<1>8. CASE Users \/ \E n \in Names : NamespaceIsGone(n)
  <2>1. /\ UNCHANGED <<phase, work, view, queue>> /\ fresh' \subseteq fresh
        /\ \A p \in Projects : obj'[p].phase = "Active" => obj[p].phase = "Active"
    BY <1>8, UserFrame
  <2> QED BY <2>1, <1>5
<1>9. ASSUME NEW p \in Projects, Applies(p) \/ ApplyFails(p) \/ ApplyRetries(p), phase = "up"
      PROVE  Carried'
  <2>1. /\ UNCHANGED <<view, phase, queue, work>> /\ fresh' \subseteq fresh
        /\ \A q \in Projects : q # p => obj'[q] = obj[q]
        /\ ApplyRegistration(p) \/ obj' = obj
    BY <1>9, ApplyFrame
  <2>2. CASE obj' = obj
    BY <2>1, <2>2, <1>5
  <2>3. CASE ApplyRegistration(p)
    <3>1. obj'[p].phase = "Active" => p \notin fresh' \/ obj[p].phase = "Active"
      <4> DEFINE wanted == Registration(p, run[p].orphaned)
      <4>0. p \in Names /\ obj[p] \in Object /\ view[p] \in Object
        BY DEF NCTypeOK, ObjectsOK, Names
      <4>1. CASE UNCHANGED <<obj, fresh>>
        BY <4>1
      <4>2. CASE Known(p).phase = "Absent" /\ Store(p, wanted)
        <5>1. obj[p].phase = "Absent" /\ wanted.phase = "Active"
          BY <4>2 DEF Known, Registration
        <5> QED BY <4>2, <5>1 DEF Store, Changed
      <4>3. CASE Store(p, Patched(obj[p], Known(p), wanted))
        <5>1. Patched(obj[p], Known(p), wanted).phase = obj[p].phase
          BY <4>0 DEF Patched, Object
        <5> QED BY <4>0, <4>3, <5>1 DEF Store, NCTypeOK, ObjectsOK
      <4> QED BY <2>3, <4>1, <4>2, <4>3 DEF ApplyRegistration
    <3> QED BY <2>1, <3>1, <1>5
  <2> QED BY <2>1, <2>2, <2>3
<1>10. ASSUME NEW p \in Projects, ResolvesConfig(p) \/ ContentIsRemoved(p)
       PROVE  Carried'
  BY <1>10, <1>5 DEF ResolvesConfig, ContentIsRemoved, handling, server
<1>11. CASE UNCHANGED vars
  BY <1>11, <1>5 DEF vars, handling, server
<1>12. CASE phase # "up" /\ phase' = phase
  BY <1>12 DEF Carried
<1>13. ASSUME NEW m \in Names, Handles(m) \/ UpdateFails(m)
       PROVE  Carried'
  BY <1>13, <1>1, <1>3, <1>12, HandlerFrame
<1>14. ASSUME NEW p \in Projects, Applies(p) \/ ApplyFails(p) \/ ApplyRetries(p)
       PROVE  Carried'
  BY <1>14, <1>9, <1>12, ApplyFrame
<1> QED
  BY <1>1, <1>2, <1>6, <1>7, <1>8, <1>10, <1>11, <1>13, <1>14 DEF Next

LEMMA NextReadBack ==
  ASSUME NCTypeOK, ReadBack, [Next]_vars
  PROVE  ReadBack'
<1>1. CASE Exit /\ UNCHANGED relabelled
  BY <1>1 DEF Exit, ReadBack, Idle, server
<1>2. ASSUME UNCHANGED <<run, tracker, obj, relabelled>>
      PROVE  ReadBack'
  BY <1>2 DEF ReadBack, Here
<1>3. CASE Starts \/ Serves
  BY <1>3, <1>2 DEF Starts, Serves, server, applying, budget
<1>4. CASE Crash \/ GivesUp \/ GivesUpEarly
  BY <1>4, <1>1 DEF Crash, GivesUp, GivesUpEarly, Fault, budget
<1>5. ASSUME NEW m \in Names, Handles(m) \/ UpdateFails(m)
      PROVE  ReadBack'
  <2>1. CASE Exit
    <3>1. relabelled' = relabelled
      BY <1>5, <2>1 DEF Handles, HandlesNothing, HandlesRegular, StartsUpdate, SetsLabel,
         RemovesLabel, Conflicts, UpdateFails, Fault, HandlesRegistration, FailsRegistration,
         Untracks, budget
    <3> QED BY <2>1, <3>1, <1>1
  <2>2. CASE ~Exit
    <3>1. /\ UNCHANGED <<run, relabelled>>
          /\ \A k \in Names : obj'[k].phase = obj[k].phase /\ obj'[k].project = obj[k].project
          /\ Untracks(m) \/ tracker' = tracker
      BY <1>5, <2>2, HandlerFrame
    <3>2. \A p \in Projects : tracker'[p] \in {tracker[p], Untracked}
      BY <3>1 DEF Untracks, NCTypeOK, TrackerOK
    <3> QED BY <3>1, <3>2 DEF ReadBack, Here, Names
  <2> QED BY <2>1, <2>2
<1>6. ASSUME NEW n \in Names, Delivers(n) \/ Resyncs(n)
      PROVE  ReadBack'
  BY <1>6, <1>2 DEF Delivers, Resyncs, server, applying, budget
<1>7. CASE Users \/ \E n \in Names : NamespaceIsGone(n)
  <2>1. /\ UNCHANGED <<run, tracker>> /\ relabelled \subseteq relabelled'
        /\ \A p \in Projects :
             /\ obj'[p].phase = "Active" => obj[p].phase = "Active"
             /\ obj'[p].project \in {obj[p].project, None, System}
             /\ p \notin relabelled' => obj'[p].project \in {obj[p].project, None}
    BY <1>7, UserFrame
  <2>2. \A p \in Projects : Here(p)' => Here(p)
    BY <2>1, NCAssumption DEF Here
  <2> QED BY <2>1, <2>2 DEF ReadBack
<1>8. ASSUME NEW p \in Projects, Applies(p) \/ ApplyFails(p) \/ ApplyRetries(p)
      PROVE  ReadBack'
  <2>0. run[p] \in ApplyStep
    BY DEF NCTypeOK, AppliesOK
  <2>1. /\ relabelled' = relabelled
        /\ \A q \in Projects : q # p =>
             run'[q] = run[q] /\ tracker'[q] = tracker[q] /\ obj'[q] = obj[q]
        /\ ApplyRegistration(p) \/ obj' = obj
        /\ ApplyTracks(p) \/ tracker' = tracker
    BY <1>8, ApplyFrame
  <2>2. CASE ApplyRegistration(p)
    <3>1. run'[p].pc = "get" /\ tracker' = tracker
      BY <2>2 DEF ApplyRegistration, Goes, NCTypeOK, AppliesOK
    <3>2. obj'[p].project \in {obj[p].project, p}
      <4> DEFINE wanted == Registration(p, run[p].orphaned)
      <4>1. wanted.project = p
        BY DEF Registration
      <4>2. Patched(obj[p], Known(p), wanted).project \in {obj[p].project, p}
        BY <4>1 DEF Patched, NCTypeOK, ObjectsOK, Object, Names
      <4> QED BY <2>2, <4>1, <4>2 DEF ApplyRegistration, Store, NCTypeOK, ObjectsOK, Names
    <3> QED BY <2>1, <3>1, <3>2 DEF ReadBack, Here
  <2>3. CASE ApplyGets(p)
    <3>1. /\ run'[p].pc = "track" /\ run'[p].label = obj[p].project
          /\ run'[p].terminating = (obj[p].phase = "Terminating")
          /\ UNCHANGED <<obj, tracker>>
      BY <2>3 DEF ApplyGets, Goes, server, NCTypeOK, AppliesOK
    <3> QED BY <2>1, <3>1 DEF ReadBack, Here
  <2>4. CASE ApplyTracks(p)
    <3>1. /\ run[p].pc = "track" /\ tracker'[p] = run[p].label /\ obj' = obj
          /\ run'[p].pc \in {"idle", "config"}
      BY <2>4 DEF ApplyTracks, Goes, Returns, Idle, server, NCTypeOK, AppliesOK, TrackerOK
    <3> QED BY <2>1, <3>1 DEF ReadBack, Here
  <2>5. CASE ~ApplyRegistration(p) /\ ~ApplyGets(p) /\ ~ApplyTracks(p)
    <3>1. run'[p] = run[p] \/ run'[p].pc # "track"
      BY <1>8, <2>5 DEF Applies, ApplyBegins, ApplySkips, ApplyCreatesConfig, ApplyLeavesConfig,
         ApplyDeletesConfig, ApplyIsRefused, ApplyFails, ApplyErrs, ApplyRetries, Completes,
         Returns, Goes, Idle, NCTypeOK, AppliesOK
    <3> QED BY <2>1, <2>5, <3>1 DEF ReadBack, Here
  <2> QED BY <2>2, <2>3, <2>4, <2>5
<1>9. ASSUME NEW p \in Projects, ResolvesConfig(p) \/ ContentIsRemoved(p)
      PROVE  ReadBack'
  BY <1>9, <1>2 DEF ResolvesConfig, ContentIsRemoved, server, applying, budget
<1>10. CASE UNCHANGED vars
  BY <1>10, <1>2 DEF vars, server, applying, budget
<1> QED BY <1>3, <1>4, <1>5, <1>6, <1>7, <1>8, <1>9, <1>10 DEF Next
-----------------------------------------------------------------------------
(* Every live namespace is served *)

\* A step that leaves the apply function of p alone only has to keep what there is to do.
LEMMA ServedFrame ==
  ASSUME NEW p \in Projects, NEW n \in Namespaces, Served(n, p),
         run'[p] = run[p], tracker'[p] = tracker[p], p \in charts => p \in charts',
         Due(p) => Due(p)',
         Here(p)' => Here(p) /\ obj'[p].orphaned = obj[p].orphaned,
         Live(n, p)' => Live(n, p) \/ Turn(n)',
         Live(n, p) /\ Turn(n) => Turn(n)' \/ Due(p)',
         Live(n, p) /\ Here(p)' /\ Look(p) => Look(p)' \/ Turn(n)' \/ Due(p)'
  PROVE  Served(n, p)'
<1> SUFFICES ASSUME Live(n, p)', ~Turn(n)', ~Due(p)'
             PROVE  Enough(p)'
  BY DEF Served
<1>1. Enough(p)
  BY DEF Served
<1>2. Here(p)' => Here(p) /\ (Look(p) => Look(p)')
  OBVIOUS
<1> QED BY <1>1, <1>2 DEF Enough, Applying

\* A namespace of p that is to be handled stays so, or p is requested.
LEMMA HandledFor ==
  ASSUME NCTypeOK, Carried, phase = "up", NEW p \in Projects, NEW k \in Names,
         view[k].phase = "Active", view[k].project = p, ~IsSystem(k, view[k]), Turn(k),
         \/ HandlesNothing(k) \/ HandlesRegular(k) \/ StartsUpdate(k)
         \/ SetsLabel(k) \/ RemovesLabel(k) \/ Conflicts(k) \/ UpdateFails(k)
         \/ FailsRegistration(k)
  PROVE  Turn(k)' \/ Due(p)'
<1>1. ~HandlesNothing(k)
  BY DEF HandlesNothing
<1>2. ASSUME Requests(p)
      PROVE  Due(p)'
  BY <1>2 DEF Requests, A!Request, Due
<1>3. CASE HandlesRegular(k)
  BY <1>2, <1>3 DEF HandlesRegular
<1>4. CASE StartsUpdate(k)
  BY <1>4 DEF StartsUpdate, Turn, NCTypeOK, HandlersOK
<1>5. CASE SetsLabel(k)
  <2>1. k \in queue \/ work[k].label = p
    BY <1>5 DEF SetsLabel, Carried
  <2> QED BY <1>2, <1>5, <2>1 DEF SetsLabel, Turn
<1>6. CASE RemovesLabel(k)
  <2>1. k \in queue
    BY <1>6, NCAssumption DEF RemovesLabel, Carried
  <2> QED BY <1>6, <2>1 DEF RemovesLabel, Turn
<1>7. CASE Conflicts(k) \/ UpdateFails(k) \/ FailsRegistration(k)
  <2>1. PICK c : Errs(k, c)
    BY <1>7 DEF Conflicts, UpdateFails, FailsRegistration
  <2> QED BY <2>1 DEF Errs, Turn
<1> QED BY <1>1, <1>3, <1>4, <1>5, <1>6, <1>7

\* So every handler keeps the namespaces of p served.
LEMMA HandlerServes ==
  ASSUME NCTypeOK, CopiesAreCurrent, Carried, ReadBack, phase = "up",
         NEW m \in Names, Handles(m) \/ UpdateFails(m), ~Exit,
         NEW p \in Projects \ (LongProjects \cup relabelled), NEW n \in Namespaces, Served(n, p)
  PROVE  Served(n, p)'
<1>1. /\ UNCHANGED <<run, view, phase, retrying, charts>>
      /\ \A k \in Names : k # m => work'[k] = work[k] /\ (k \in queue => k \in queue')
      /\ pending \subseteq pending' /\ fresh' \subseteq fresh
      /\ \A k \in Names : /\ obj'[k].phase = obj[k].phase /\ obj'[k].project = obj[k].project
                          /\ obj'[k].orphaned = obj[k].orphaned
      /\ Untracks(m) \/ tracker' = tracker
  BY HandlerFrame
<1>2. n \in Names /\ p \in Names /\ n # p
  BY NCAssumption DEF Names
<1>3. /\ Live(n, p)' = Live(n, p) /\ Here(p)' = Here(p) /\ (Due(p) => Due(p)')
      /\ \A k \in Names : k # m /\ Turn(k) => Turn(k)'
      /\ \A k \in Names : k # m /\ Look(k) => Look(k)'
  BY <1>1, <1>2 DEF Live, Index, IsSystem, Here, Due, Turn, Look
<1>4. CASE m = p /\ Untracks(p)
  <2>1. Here(p)' => Look(p)'
    <3>1. UNCHANGED <<queue, fresh>> /\ work[p].pc = "untrack"
      BY <1>4 DEF Untracks
    <3> QED BY <1>3, <3>1 DEF Carried, Look, Turn, Here
  <2>2. Turn(n) => Turn(n)'
    BY <1>2, <1>3, <1>4
  <2> QED BY <1>1, <1>3, <2>1, <2>2 DEF Served, Enough, Applying
<1>5. CASE ~(m = p /\ Untracks(p))
  <2>1. tracker'[p] = tracker[p]
    <3>1. CASE Untracks(m)
      BY <1>5, <3>1 DEF Untracks, NCTypeOK, TrackerOK
    <3> QED BY <1>1, <3>1
  <2>2. Live(n, p) /\ Turn(n) => Turn(n)' \/ Due(p)'
    <3>1. CASE m = n
      <4>1. ~Tracked(n) /\ n \notin Projects
        BY NCAssumption DEF Tracked
      <4>2. Live(n, p) => view[n].phase = "Active" /\ view[n].project = p /\ ~IsSystem(n, view[n])
        BY DEF Live, Index
      <4> QED BY <1>2, <3>1, <4>1, <4>2, HandledFor DEF Handles
    <3> QED BY <1>2, <1>3, <3>1
  <2>3. Live(n, p) /\ Here(p) /\ Look(p) => Look(p)' \/ Turn(n)' \/ Due(p)'
    <3> SUFFICES ASSUME m = p, Live(n, p), Here(p), Look(p), p \in fresh'
                 PROVE  Turn(p)' \/ Turn(n)' \/ Due(p)'
      BY <1>2, <1>3 DEF Look
    <3>1. p \in fresh /\ Turn(p)
      BY <1>1 DEF Look
    <3>2. view[p].phase = "Active" /\ view[p].project = p
      BY <3>1 DEF CopiesAreCurrent, Here
    <3>3. ~IsSystem(p, view[p])
      BY <3>2, NCAssumption DEF IsSystem
    <3>4. CASE HandlesRegistration(p)
      <4>1. tracker[p] = p
        BY <3>4 DEF HandlesRegistration, Tracked, ReadBack
      <4> QED BY <3>4, <4>1 DEF HandlesRegistration, Live, Turn
    <3> QED BY <1>2, <1>5, <3>1, <3>2, <3>3, <3>4, HandledFor DEF Handles
  <2> QED BY <1>1, <1>2, <1>3, <2>1, <2>2, <2>3, ServedFrame
<1> QED BY <1>4, <1>5

\* So does the apply function of p.
LEMMA ApplyServes ==
  ASSUME NCTypeOK, CopiesAreCurrent, ReadBack, phase = "up", ~closed,
         NEW p \in Projects \ (LongProjects \cup relabelled), NEW n \in Namespaces, Served(n, p),
         Applies(p) \/ ApplyFails(p) \/ ApplyRetries(p)
  PROVE  Served(n, p)'
<1>0. /\ run[p] \in ApplyStep /\ p \in Names /\ obj[p] \in Object /\ view[p] \in Object
      /\ Idle.pc = "idle"
  BY DEF NCTypeOK, AppliesOK, ObjectsOK, Names, Idle
<1>1. /\ UNCHANGED <<view, phase, queue, work>> /\ fresh' \subseteq fresh
      /\ ApplyRegistration(p) \/ obj' = obj
      /\ ApplyTracks(p) \/ tracker' = tracker
  BY ApplyFrame
<1>2. Live(n, p)' = Live(n, p) /\ Turn(n)' = Turn(n) /\ (Look(p) => Look(p)')
  BY <1>1 DEF Live, Index, IsSystem, Turn, Look
<1>3. CASE ApplyBegins(p)
  <2> DEFINE live == {k \in Index(p) : view[k].phase = "Active"}
  <2>1. run'[p] = [pc |-> "apply", orphaned |-> live = {}]
    BY <1>3 DEF ApplyBegins, Goes, NCTypeOK, AppliesOK
  <2>2. Live(n, p) => live # {}
    BY DEF Live
  <2> HIDE DEF live
  <2>3. run'[p].pc = "apply" /\ run'[p].orphaned = (live = {})
    BY <2>1
  <2> QED BY <1>2, <2>2, <2>3 DEF Served, Enough, Applying
<1>4. CASE ApplyRegistration(p)
  <2> DEFINE wanted == Registration(p, run[p].orphaned)
  <2>1. /\ run[p].pc = "apply" /\ run'[p].pc = "get" /\ Due(p)' = Due(p)
        /\ UNCHANGED <<queue, work>>
    BY <1>4 DEF ApplyRegistration, Goes, NCTypeOK, AppliesOK, requests, Due
  <2>2. wanted.orphaned = run[p].orphaned /\ wanted.phase = "Active" /\ wanted \in Object
    BY <1>0, <2>1, Objects, Steps DEF Registration
  <2>3. ASSUME ~run[p].orphaned
        PROVE  p \notin fresh' \/ ~obj'[p].orphaned
    <3>1. CASE Known(p).phase = "Absent" /\ Store(p, wanted)
      BY <1>0, <2>2, <2>3, <3>1 DEF Store, NCTypeOK, ObjectsOK
    <3>2. CASE [Known(p) EXCEPT !.phase = "Active"] = wanted /\ UNCHANGED <<obj, fresh, held>>
      <4>1. Known(p).orphaned = wanted.orphaned
        BY <1>0, <3>2 DEF Known, Object
      <4> QED BY <2>2, <2>3, <3>2, <4>1 DEF Known, CopiesAreCurrent
    <3>3. CASE Store(p, Patched(obj[p], Known(p), wanted))
      <4>1. Patched(obj[p], Known(p), wanted).orphaned =
              IF Known(p).orphaned = wanted.orphaned THEN obj[p].orphaned ELSE wanted.orphaned
        BY <1>0 DEF Patched, Object
      <4>2. p \in fresh => Known(p) = obj[p]
        BY DEF Known, CopiesAreCurrent
      <4> QED BY <1>0, <1>1, <2>2, <2>3, <3>3, <4>1, <4>2 DEF Store, NCTypeOK, ObjectsOK
    <3> QED BY <1>4, <3>1, <3>2, <3>3 DEF ApplyRegistration
  <2> HIDE DEF wanted
  <2> QED BY <1>2, <2>1, <2>3 DEF Served, Enough, Applying, Look
<1>5. CASE ApplyGets(p)
  <2>1. /\ run[p].pc = "get" /\ run'[p].pc = "track" /\ UNCHANGED <<obj, tracker>>
        /\ Due(p)' = Due(p)
    BY <1>5 DEF ApplyGets, Goes, NCTypeOK, AppliesOK, requests, server, Due
  <2> QED BY <1>2, <2>1 DEF Served, Enough, Applying, Here
<1>6. CASE ApplyTracks(p)
  <2>1. /\ run[p].pc = "track" /\ tracker'[p] = run[p].label /\ obj' = obj
        /\ Due(p)' = Due(p)
        /\ run'[p].pc = IF run[p].terminating THEN "idle" ELSE "config"
    BY <1>0, <1>6 DEF ApplyTracks, Goes, Returns, A!Succeed, NCTypeOK, AppliesOK, TrackerOK,
       requests, server, Due
  <2>2. Here(p) => tracker'[p] = p /\ run'[p].pc = "config"
    BY <2>1 DEF ReadBack
  <2>3. Here(p)' = Here(p)
    BY <2>1 DEF Here
  <2>4. run'[p].pc # "apply"
    BY <2>1
  <2> QED BY <1>2, <2>1, <2>2, <2>3, <2>4 DEF Served, Enough, Applying
<1>7. CASE ApplyCreatesConfig(p) \/ ApplyLeavesConfig(p)
  <2>1. /\ run[p].pc \in {"config", "create"} /\ run'[p].pc = "idle" /\ p \in charts'
        /\ UNCHANGED <<obj, tracker>> /\ Due(p)' = Due(p)
    BY <1>0, <1>7 DEF ApplyCreatesConfig, ApplyLeavesConfig, Completes, Goes, Returns, A!Succeed,
       NCTypeOK, AppliesOK, server, Due
  <2> QED BY <1>2, <2>1 DEF Served, Enough, Applying, Here
<1>8. CASE ApplyDeletesConfig(p)
  <2>1. /\ run[p].pc = "config" /\ run'[p].pc = "create"
        /\ UNCHANGED <<obj, tracker>> /\ Due(p)' = Due(p)
    BY <1>8 DEF ApplyDeletesConfig, Goes, NCTypeOK, AppliesOK, requests, Due
  <2> QED BY <1>2, <2>1 DEF Served, Enough, Applying, Here
<1>9. CASE ApplyIsRefused(p) \/ ApplyFails(p) \/ ApplyRetries(p)
  <2>1. Due(p)'
    BY <1>9 DEF ApplyIsRefused, ApplyFails, ApplyErrs, A!Fail, ApplyRetries, A!Retry, Due
  <2> QED BY <2>1 DEF Served
<1>10. ~ApplySkips(p)
  BY DEF ApplySkips
<1> QED BY <1>3, <1>4, <1>5, <1>6, <1>7, <1>8, <1>9, <1>10 DEF Applies

LEMMA NextServed ==
  ASSUME NCTypeOK, CopiesAreCurrent, Opened, Carried, ReadBack, AllServed, [Next]_vars
  PROVE  AllServed'
<1> SUFFICES ASSUME NEW p \in Projects \ (LongProjects \cup relabelled'), NEW n \in Namespaces
             PROVE  Served(n, p)'
  BY DEF AllServed
<1>0. p \notin relabelled => Served(n, p)
  BY DEF AllServed
<1>a. n \in Names /\ p \in Names
  BY DEF Names
<1>1. CASE phase' # "up"
  BY <1>1 DEF Served, Live, Index
<1>2. CASE Crash \/ GivesUp \/ GivesUpEarly \/ Exit \/ Starts
  BY <1>1, <1>2 DEF Crash, GivesUp, GivesUpEarly, Exit, Starts
\* Every namespace that is there is queued.
<1>3. CASE Serves
  <2>1. Live(n, p)' => Turn(n)'
    BY <1>a, <1>3 DEF Serves, Live, Index, Turn
  <2> QED BY <2>1 DEF Served
<1>4. ASSUME NEW m \in Names, Handles(m) \/ UpdateFails(m), ~Exit
      PROVE  Served(n, p)'
  <2>1. phase' = phase /\ relabelled' = relabelled
    BY <1>4, HandlerFrame
  <2> QED BY <1>0, <1>1, <1>4, <2>1, HandlerServes
<1>5. ASSUME NEW m \in Names, Delivers(m)
      PROVE  Served(n, p)'
  <2>1. /\ UNCHANGED <<obj, run, tracker, charts, pending, retrying, relabelled, work, phase>>
        /\ phase = "up" /\ view' = [view EXCEPT ![m] = obj[m]]
        /\ fresh' = fresh \cup {m} /\ queue' = queue \cup {m}
    BY <1>5 DEF Delivers, server, applying, requests, budget
  <2>2. Live(n, p)' => Live(n, p) \/ Turn(n)'
    <3>1. CASE m = n
      BY <2>1, <3>1 DEF Turn
    <3>2. CASE m # n
      <4>1. view'[n] = view[n]
        BY <1>a, <2>1, <3>2 DEF NCTypeOK, ObjectsOK
      <4> QED BY <2>1, <4>1 DEF Live, Index, IsSystem
    <3> QED BY <3>1, <3>2
  <2>3. /\ (Turn(n) => Turn(n)') /\ (Look(p) => Look(p)')
        /\ (Due(p) => Due(p)') /\ (Here(p)' => Here(p)) /\ obj'[p].orphaned = obj[p].orphaned
    BY <2>1 DEF Turn, Look, Due, Here
  <2>4. Served(n, p) /\ run'[p] = run[p] /\ tracker'[p] = tracker[p] /\ charts' = charts
    BY <1>0, <2>1
  <2> QED BY <2>2, <2>3, <2>4, ServedFrame
<1>6. ASSUME UNCHANGED <<view, phase, work, run, tracker, pending, retrying>>,
             queue \subseteq queue', fresh' \subseteq fresh, p \in charts => p \in charts',
             p \notin relabelled, Here(p)' => Here(p) /\ obj'[p].orphaned = obj[p].orphaned
      PROVE  Served(n, p)'
  <2>1. /\ Live(n, p)' = Live(n, p) /\ (Turn(n) => Turn(n)') /\ (Look(p) => Look(p)')
        /\ Due(p)' = Due(p)
    BY <1>6 DEF Live, Index, IsSystem, Turn, Look, Due
  <2> QED BY <1>0, <1>6, <2>1, ServedFrame
<1>7. ASSUME NEW m \in Names, Resyncs(m)
      PROVE  Served(n, p)'
  BY <1>7, <1>6 DEF Resyncs, Here, server, applying, requests, budget
<1>8. CASE Users \/ \E m \in Names : NamespaceIsGone(m)
  <2>1. /\ UNCHANGED <<run, view, phase, requests, charts, tracker, queue, work, todo>>
        /\ fresh' \subseteq fresh /\ relabelled \subseteq relabelled'
        /\ obj'[p].phase = "Active" =>
             obj[p].phase = "Active" /\ obj'[p].orphaned = obj[p].orphaned
        /\ obj'[p].project \in {obj[p].project, None, System}
    BY <1>8, UserFrame
  <2>2. Here(p)' => Here(p) /\ obj'[p].orphaned = obj[p].orphaned
    BY <2>1, NCAssumption DEF Here
  <2> QED BY <1>6, <2>1, <2>2 DEF requests
<1>9. ASSUME NEW q \in Projects, Applies(q) \/ ApplyFails(q) \/ ApplyRetries(q)
      PROVE  Served(n, p)'
  <2>1. /\ UNCHANGED <<view, phase, queue, work, relabelled>>
        /\ fresh' \subseteq fresh /\ charts \subseteq charts'
        /\ p # q => /\ run'[p] = run[p] /\ tracker'[p] = tracker[p] /\ obj'[p] = obj[p]
                    /\ Due(p) => Due(p)'
    BY <1>9, ApplyFrame DEF Due
  <2>2. CASE q = p /\ phase = "up"
    BY <1>0, <1>9, <2>1, <2>2, ApplyServes DEF Opened
  <2>3. CASE q # p
    <3>1. /\ Live(n, p)' = Live(n, p) /\ Turn(n)' = Turn(n) /\ (Look(p) => Look(p)')
          /\ Here(p)' = Here(p)
      BY <2>1, <2>3 DEF Live, Index, IsSystem, Turn, Look, Here
    <3> QED BY <1>0, <2>1, <2>3, <3>1, ServedFrame
  <2> QED BY <1>1, <2>1, <2>2, <2>3
<1>10. ASSUME NEW q \in Projects, ResolvesConfig(q) \/ ContentIsRemoved(q)
       PROVE  Served(n, p)'
  BY <1>10, <1>6 DEF ResolvesConfig, ContentIsRemoved, Here, server, handling, applying, requests,
     budget
<1>11. CASE UNCHANGED vars
  BY <1>11, <1>6 DEF vars, Here, server, handling, applying, requests, budget
<1> QED
  BY <1>2, <1>3, <1>4, <1>5, <1>7, <1>8, <1>9, <1>10, <1>11 DEF Next

\* When nothing is left to do, nobody waits for a turn, and what was enough is done.
LEMMA ServedIsRegistered ==
  ASSUME NCTypeOK, CopiesAreCurrent, ReadBack, AllServed
  PROVE  SettledIsRegistered
<1> SUFFICES ASSUME Settled, NEW p \in Projects \ (LongProjects \cup relabelled), Populated(p),
                    obj[p].phase = "Active", obj[p].project = p
             PROVE  Tracked(p) /\ ~obj[p].orphaned /\ p \in charts
  BY DEF SettledIsRegistered
<1>1. PICK n \in Namespaces \ SystemNamespaces : obj[n].phase = "Active" /\ obj[n].project = p
  BY DEF Populated
<1>2. view[n] = obj[n] /\ phase = "up"
  BY DEF Settled, CopiesAreCurrent, Names
<1>3. Live(n, p)
  BY <1>1, <1>2, NCAssumption DEF Live, Index, IsSystem
<1>4. \A k \in Names : ~Turn(k)
  BY DEF Settled, Turn, Idle
<1>5. ~Look(p) /\ ~Due(p)
  BY <1>4 DEF Settled, Look, Due, Names
<1>6. Enough(p)
  BY <1>3, <1>4, <1>5 DEF AllServed, Served, Names
<1>7. run[p].pc = "idle"
  BY DEF Settled, Running, Idle
<1>8. tracker[p] = p /\ ~obj[p].orphaned /\ p \in charts
  BY <1>5, <1>6, <1>7 DEF Enough, Here
<1>9. p # Untracked
  BY NCAssumption DEF Untracked
<1> QED BY <1>8, <1>9 DEF Tracked

\* When nothing is left to do, the registration namespaces of the projects that have
\* namespaces are tracked, not orphaned, and their ProjectHelmCharts were enqueued
\* (SettledIsRegistered), but for those that users gave to the project of the system.
THEOREM SettledIsComplete == Spec => []SettledIsRegistered
<1>1. Init => CopiesAreCurrent /\ Opened /\ Carried /\ ReadBack /\ AllServed
  <2> SUFFICES ASSUME Init
               PROVE  CopiesAreCurrent /\ Opened /\ Carried /\ ReadBack /\ AllServed
    OBVIOUS
  <2>1. CopiesAreCurrent
    BY InitCopies
  <2>2. Opened /\ Carried /\ AllServed
    BY DEF Init, Opened, Carried, AllServed, Served, Live, Index
  <2>3. \A p \in Projects : obj[p].project = None /\ run[p].pc = "idle" /\ tracker[p] = Untracked
    BY DEF Init, Gone, Idle
  <2> QED BY <2>1, <2>2, <2>3 DEF ReadBack
<1>2. NCTypeOK /\ CopiesAreCurrent /\ Opened /\ Carried /\ ReadBack /\ AllServed /\ [Next]_vars
        => CopiesAreCurrent' /\ Opened' /\ Carried' /\ ReadBack' /\ AllServed'
  BY NextCopies, NextOpened, NextCarried, NextReadBack, NextServed
<1>3. NCTypeOK /\ CopiesAreCurrent /\ ReadBack /\ AllServed => SettledIsRegistered
  BY ServedIsRegistered
<1> QED BY <1>1, <1>2, <1>3, NCTypeCorrect, PTL DEF Spec
=============================================================================
