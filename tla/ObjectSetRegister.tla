-------------------------- MODULE ObjectSetRegister --------------------------
(***************************************************************************)
(* Helm Locker's in-memory register of object sets                         *)
(* (internal/helm-locker/objectset): lockableObjectSetRegisterAndCache     *)
(* (cache.go), the handler that applies and locks an object set            *)
(* (handler.go) and the watcher that turns a change of a tracked resource  *)
(* into an Enqueue (gvk/gvk.go).  Steps end where a goroutine releases a   *)
(* lock, sends on the channel, or calls the API server.                    *)
(*                                                                         *)
(* Goroutines:                                                             *)
(*  - client[k]  : the caller of Set, Unlock and Delete for key k (the     *)
(*                 release controller, one worker per key at a time);      *)
(*  - handler[k] : the object set controller working on key k (a work      *)
(*                 queue hands a key to one worker at a time);             *)
(*  - watcher[r] : the controller of r's GVK working on resource r;        *)
(*  - the informer that empties the stateChanges channel into its store.   *)
(*                                                                         *)
(* objectSetState values are shared by pointer between stateByKey, the     *)
(* channel, the informer's store and the handler, and deleteState writes   *)
(* through such a pointer, so they live in a heap.  The content of a       *)
(* resource is the object set that wrote it last, Drifted when somebody    *)
(* else did, Nil when it does not exist.                                   *)
(***************************************************************************)
EXTENDS Naturals, Sequences

CONSTANTS
  Keys,         \* release keys
  Resources,    \* namespaced names of the resources in the cluster
  GVKs,         \* their kinds
  GVKOf,        \* [Resources -> GVKs]
  ObjectSets,   \* parsed manifests
  ResourcesOf,  \* [ObjectSets -> SUBSET Resources]
  Ptrs,         \* addresses of objectSetStates
  Nil,          \* no pointer, no object set, no key, no resource
  Drifted,      \* what somebody other than Helm or Helm Locker wrote
  ChanCap,      \* capacity of stateChanges (50 in the code)
  MaxOps,       \* bound: calls of Set, Unlock and Delete
  MaxDrift,     \* bound: changes made by others
  MaxFail       \* bound: failed calls of the API server

ASSUME ConstantsAssumption ==
  /\ GVKOf \in [Resources -> GVKs]
  /\ ResourcesOf \in [ObjectSets -> SUBSET Resources]
  /\ Nil \notin Keys \cup ObjectSets \cup Ptrs \cup GVKs
  /\ Drifted \notin ObjectSets \cup {Nil}
  /\ ChanCap \in Nat \ {0}
  /\ MaxOps \in Nat /\ MaxDrift \in Nat /\ MaxFail \in Nat

VARIABLES
  heap,          \* heap[p]: the objectSetState at address p
  stateByKey,    \* the register: the pointer registered for a key
  keyByResource, \* keyByResourceKeyByGVK: which key a resource is resolved to
  stateChanges,  \* the channel of events
  store,         \* the informer's store: the pointer the handler is given
  dirtyKeys,     \* work queue of the object set controller
  client, handler, watcher,
  watched,       \* gvkStarted: the GVKs a controller runs for
  dirtyResources,\* work queues of the GVK controllers
  cluster,       \* cluster[r]: the content of resource r
  owner,         \* owner[r]: the set ID the apply library labelled r with
  ops, drifts, fails  \* how much of each bound is used

registerVars == <<heap, stateByKey, stateChanges>>
clusterVars  == <<cluster, owner, dirtyResources>>
bounds       == <<ops, drifts, fails>>
vars == <<registerVars, keyByResource, store, dirtyKeys, client, handler, watcher,
          watched, clusterVars, bounds>>

State == [os : ObjectSets \cup {Nil}, locked : BOOLEAN]
Event == [key : Keys, ptr : Ptrs, deleted : BOOLEAN]

ClientPCs  == {"idle", "delete.get", "delete.map", "delete.os", "delete.locked",
               "delete.send", "remove.unlock", "remove.purge"}
HandlerPCs == {"idle", "apply.read", "apply.run", "lock.get", "lock.add"}
WatcherPCs == {"idle", "enqueue.get", "enqueue.copy", "enqueue.set"}

TypeOK ==
  /\ heap \in [Ptrs -> State]
  /\ stateByKey \in [Keys -> Ptrs \cup {Nil}]
  /\ keyByResource \in [Resources -> Keys \cup {Nil}]
  /\ stateChanges \in Seq(Event) /\ Len(stateChanges) <= ChanCap
  /\ store \in [Keys -> Ptrs \cup {Nil}]
  /\ dirtyKeys \subseteq Keys
  /\ client \in [Keys -> [pc : ClientPCs, ptr : Ptrs \cup {Nil}, purge : BOOLEAN]]
  /\ handler \in [Keys -> [pc : HandlerPCs, ptr : Ptrs \cup {Nil},
                           os : ObjectSets \cup {Nil}, err : BOOLEAN]]
  /\ watcher \in [Resources -> [pc : WatcherPCs, key : Keys \cup {Nil},
                                ptr : Ptrs \cup {Nil}, state : State]]
  /\ watched \subseteq GVKs
  /\ dirtyResources \subseteq Resources
  /\ cluster \in [Resources -> ObjectSets \cup {Drifted, Nil}]
  /\ owner \in [Resources -> Keys \cup {Nil}]
  /\ ops \in 0..MaxOps /\ drifts \in 0..MaxDrift /\ fails \in 0..MaxFail

EmptyState  == [os |-> Nil, locked |-> FALSE]
IdleClient  == [pc |-> "idle", ptr |-> Nil, purge |-> FALSE]
IdleHandler == [pc |-> "idle", ptr |-> Nil, os |-> Nil, err |-> FALSE]
IdleWatcher == [pc |-> "idle", key |-> Nil, ptr |-> Nil, state |-> EmptyState]

\* A register that was just made: nothing is registered, tracked or watched.
RegisterInit ==
  /\ heap = [p \in Ptrs |-> EmptyState]
  /\ stateByKey = [k \in Keys |-> Nil]
  /\ keyByResource = [r \in Resources |-> Nil]
  /\ stateChanges = <<>>
  /\ store = [k \in Keys |-> Nil]
  /\ dirtyKeys = {}
  /\ client = [k \in Keys |-> IdleClient]
  /\ handler = [k \in Keys |-> IdleHandler]
  /\ watcher = [r \in Resources |-> IdleWatcher]
  /\ watched = {}
  /\ dirtyResources = {}
  /\ owner = [r \in Resources |-> Nil]
  /\ ops = 0 /\ drifts = 0 /\ fails = 0

Init == RegisterInit /\ cluster = [r \in Resources |-> Nil]

-----------------------------------------------------------------------------
(* The heap and the channel.                                               *)

\* Addresses some goroutine or map can still reach.
Reachable ==
  {stateByKey[k] : k \in Keys} \cup {store[k] : k \in Keys}
  \cup {stateChanges[i].ptr : i \in 1..Len(stateChanges)}
  \cup {client[k].ptr : k \in Keys} \cup {handler[k].ptr : k \in Keys}
  \cup {watcher[r].ptr : r \in Resources}

FreshPtr == CHOOSE p \in Ptrs : p \notin Reachable

CanAllocate == \E p \in Ptrs : p \notin Reachable

\* A mutant of the channel: a send never blocks.
CanAlwaysSend == TRUE

\* A send blocks while the channel is full.
CanSend == Len(stateChanges) < ChanCap

-----------------------------------------------------------------------------
(* cache.go: the register.                                                 *)

\* A mutant of setState that drops the event when nothing but the pointer changed.
StoreStateQuietly(k, s) ==
  /\ CanSend
  /\ CanAllocate
  /\ heap' = [heap EXCEPT ![FreshPtr] = s]
  /\ IF stateByKey[k] # Nil /\ heap[stateByKey[k]] = s
     THEN UNCHANGED stateChanges
     ELSE stateChanges' = Append(stateChanges,
                                 [key |-> k, ptr |-> FreshPtr, deleted |-> FALSE])
  /\ stateByKey' = [stateByKey EXCEPT ![k] = FreshPtr]

\* setState, its critical section under stateMapLock: send the event, store the
\* new state.  The comparison with the original never suppresses it: Enqueue
\* forces it and Set is given a newly parsed ObjectSet, hence another pointer.
StoreState(k, s) ==
  /\ CanSend
  /\ CanAllocate
  /\ heap' = [p \in Ptrs |-> IF p = FreshPtr THEN s
                             ELSE IF p \in Reachable THEN heap[p] ELSE EmptyState]
  /\ stateChanges' = Append(stateChanges, [key |-> k, ptr |-> FreshPtr, deleted |-> FALSE])
  /\ stateByKey' = [stateByKey EXCEPT ![k] = FreshPtr]

\* removeAllEntries
WithoutEntries(k) ==
  [r \in Resources |-> IF keyByResource[r] = k THEN Nil ELSE keyByResource[r]]

\* unlock
RemoveAllEntries(k) == keyByResource' = WithoutEntries(k)

\* A mutant of canLock that never refuses.
CanAlwaysLock(k, os) == TRUE

\* canLock: no resource of the set is tracked for another key.
CanLock(k, os) == \A r \in ResourcesOf[os] : keyByResource[r] \in {k, Nil}

GVKsOf(os) == {GVKOf[r] : r \in ResourcesOf[os]}

\* The entries lock has added once it went through some of the GVKs.
WithEntries(k, os, gvks) ==
  [r \in Resources |-> IF r \in ResourcesOf[os] /\ GVKOf[r] \in gvks
                       THEN k ELSE WithoutEntries(k)[r]]

\* gvkWatcher.Watch: the informer of a GVK that was not watched yet reports every
\* existing resource of the GVK once.
StartWatching(gvks) ==
  /\ watched' = watched \cup gvks
  /\ dirtyResources' = dirtyResources \cup
       {r \in Resources : GVKOf[r] \in gvks \ watched /\ cluster[r] # Nil}

\* lock, which walks the GVKs in the order of a Go map: it is refused by canLock,
\* it goes through, or Watch fails for a GVK whose entries are added already and
\* the remaining GVKs are left out.  Lock drops the error.
LockEntries(k, os) ==
  \/ /\ ~CanLock(k, os)
     /\ UNCHANGED <<keyByResource, watched, dirtyResources, fails>>
  \/ /\ CanLock(k, os)
     /\ keyByResource' = WithEntries(k, os, GVKsOf(os))
     /\ StartWatching(GVKsOf(os))
     /\ UNCHANGED fails
  \/ /\ CanLock(k, os)
     /\ fails < MaxFail
     /\ \E failing \in GVKsOf(os) \ watched :
          \E before \in SUBSET (GVKsOf(os) \ {failing}) :
            /\ keyByResource' = WithEntries(k, os, before \cup {failing})
            /\ StartWatching(before)
     /\ fails' = fails + 1

-----------------------------------------------------------------------------
(* The calls of the client.                                                *)

\* A mutant of Set that keeps the object set of a state there is.
SetFirstOnly(k, os) ==
  /\ client[k].pc = "idle"
  /\ StoreState(k, [os |-> IF stateByKey[k] = Nil THEN os ELSE heap[stateByKey[k]].os,
                    locked |-> TRUE])
  /\ UNCHANGED <<keyByResource, store, dirtyKeys, client, handler, watcher, watched,
                 clusterVars, drifts, fails>>

\* Set(key, os, &true), all of setState: both values are provided, so nothing of
\* the state read first survives in the one that is stored.
Set(k, os) ==
  /\ client[k].pc = "idle"
  /\ StoreState(k, [os |-> os, locked |-> TRUE])
  /\ UNCHANGED <<keyByResource, store, dirtyKeys, client, handler, watcher, watched,
                 clusterVars, drifts, fails>>

\* Unlock(key): the state stays Locked.
Unlock(k) ==
  /\ client[k].pc = "idle"
  /\ RemoveAllEntries(k)
  /\ UNCHANGED <<registerVars, store, dirtyKeys, client, handler, watcher, watched,
                 clusterVars, drifts, fails>>

\* A mutant of Delete that forgets the purge.
DeleteForgetsPurge(k, purge) ==
  /\ client[k].pc = "idle"
  /\ client' = [client EXCEPT ![k] = [pc |-> "delete.get", ptr |-> Nil, purge |-> FALSE]]
  /\ UNCHANGED <<registerVars, keyByResource, store, dirtyKeys, handler, watcher, watched,
                 clusterVars, drifts, fails>>

\* Delete(key, purge) is called.
Delete(k, purge) ==
  /\ client[k].pc = "idle"
  /\ client' = [client EXCEPT ![k] = [pc |-> "delete.get", ptr |-> Nil, purge |-> purge]]
  /\ UNCHANGED <<registerVars, keyByResource, store, dirtyKeys, handler, watcher, watched,
                 clusterVars, drifts, fails>>

\* A mutant of deleteState that does not ask whether there is a state.
DeleteGetUnchecked(k) ==
  /\ client[k].pc = "delete.get"
  /\ client' = [client EXCEPT ![k].ptr = stateByKey[k], ![k].pc = "delete.map"]
  /\ UNCHANGED <<registerVars, keyByResource, store, dirtyKeys, handler, watcher, watched,
                 clusterVars, bounds>>

\* deleteState, getState: nothing to delete sends no event.
DeleteGet(k) ==
  /\ client[k].pc = "delete.get"
  /\ client' = [client EXCEPT ![k].ptr = stateByKey[k],
                              ![k].pc = IF stateByKey[k] = Nil THEN "remove.unlock"
                                                               ELSE "delete.map"]
  /\ UNCHANGED <<registerVars, keyByResource, store, dirtyKeys, handler, watcher, watched,
                 clusterVars, bounds>>

\* deleteState: delete(c.stateByKey, key) under stateMapLock.
DeleteFromMap(k) ==
  /\ client[k].pc = "delete.map"
  /\ stateByKey' = [stateByKey EXCEPT ![k] = Nil]
  /\ client' = [client EXCEPT ![k].pc = "delete.os"]
  /\ UNCHANGED <<heap, stateChanges, keyByResource, store, dirtyKeys, handler, watcher,
                 watched, clusterVars, bounds>>

\* deleteState: s.ObjectSet = nil under mutateMu.
DeleteObjectSet(k) ==
  /\ client[k].pc = "delete.os"
  /\ heap' = [heap EXCEPT ![client[k].ptr].os = Nil]
  /\ client' = [client EXCEPT ![k].pc = "delete.locked"]
  /\ UNCHANGED <<stateByKey, stateChanges, keyByResource, store, dirtyKeys, handler,
                 watcher, watched, clusterVars, bounds>>

\* deleteState: s.Locked = false, under no lock.
DeleteLocked(k) ==
  /\ client[k].pc = "delete.locked"
  /\ heap' = [heap EXCEPT ![client[k].ptr].locked = FALSE]
  /\ client' = [client EXCEPT ![k].pc = "delete.send"]
  /\ UNCHANGED <<stateByKey, stateChanges, keyByResource, store, dirtyKeys, handler,
                 watcher, watched, clusterVars, bounds>>

\* deleteState: the Deleted event is sent under no lock.
DeleteSend(k) ==
  /\ client[k].pc = "delete.send"
  /\ CanSend
  /\ stateChanges' = Append(stateChanges, [key |-> k, ptr |-> client[k].ptr, deleted |-> TRUE])
  /\ client' = [client EXCEPT ![k].pc = "remove.unlock", ![k].ptr = Nil]
  /\ UNCHANGED <<heap, stateByKey, keyByResource, store, dirtyKeys, handler, watcher,
                 watched, clusterVars, bounds>>

-----------------------------------------------------------------------------
(* The cluster.  The apply library (external) labels what it writes with   *)
(* the set ID, and deletes the resources labelled with it that are not in  *)
(* the set, looking only at the GVKs it was configured with.               *)

\* Write new contents and owners; the controllers of watched GVKs are told.
WriteCluster(contents, owners) ==
  /\ cluster' = contents
  /\ owner' = owners
  /\ dirtyResources' = dirtyResources \cup
       {r \in Resources : /\ GVKOf[r] \in watched
                          /\ contents[r] # cluster[r] \/ owners[r] # owner[r]}

Desired(os) == IF os = Nil THEN {} ELSE ResourcesOf[os]

\* configureApply: the GVKs of the set, every listed GVK without a set.
PruneGVKs(os) == IF os = Nil THEN GVKs ELSE GVKsOf(os)

\* What Apply(os) for set ID k deletes.
Pruned(k, os) ==
  {r \in Resources \ Desired(os) : owner[r] = k /\ GVKOf[r] \in PruneGVKs(os)}

\* Apply(os) for set ID k, as far as it came.
ApplySome(k, os, reached) ==
  WriteCluster(
    [r \in Resources |-> IF r \in reached \cap Desired(os) THEN os
                         ELSE IF r \in reached \cap Pruned(k, os) THEN Nil ELSE cluster[r]],
    [r \in Resources |-> IF r \in reached \cap Desired(os) THEN k
                         ELSE IF r \in reached \cap Pruned(k, os) THEN Nil ELSE owner[r]])

\* It goes through, or it fails after some of the resources.
ApplyAll(k, os) == ApplySome(k, os, Resources) /\ UNCHANGED fails
ApplyPart(k, os) ==
  /\ fails < MaxFail
  /\ fails' = fails + 1
  /\ \E reached \in SUBSET (Desired(os) \cup Pruned(k, os)) : ApplySome(k, os, reached)

\* Somebody else changes or deletes a resource.
Drift(r) ==
  /\ drifts < MaxDrift
  /\ drifts' = drifts + 1
  /\ \E content \in {Drifted, Nil} :
       /\ cluster[r] \notin {content, Nil}
       /\ WriteCluster([cluster EXCEPT ![r] = content],
                       IF content = Nil THEN [owner EXCEPT ![r] = Nil] ELSE owner)
  /\ UNCHANGED <<registerVars, keyByResource, store, dirtyKeys, client, handler, watcher,
                 watched, ops, fails>>

-----------------------------------------------------------------------------
(* handler.go: OnRemove, run by the client inside Delete.                  *)

RemoveUnlock(k) ==
  /\ client[k].pc = "remove.unlock"
  /\ RemoveAllEntries(k)
  /\ client' = [client EXCEPT ![k] = IF @.purge THEN [@ EXCEPT !.pc = "remove.purge"]
                                                ELSE IdleClient]
  /\ UNCHANGED <<registerVars, store, dirtyKeys, handler, watcher, watched, clusterVars,
                 bounds>>

\* ApplyObjects() with nothing; an error is only logged.
RemovePurge(k) ==
  /\ client[k].pc = "remove.purge"
  /\ ApplyAll(k, Nil) \/ ApplyPart(k, Nil)
  /\ client' = [client EXCEPT ![k] = IdleClient]
  /\ UNCHANGED <<registerVars, keyByResource, store, dirtyKeys, handler, watcher, watched,
                 ops, drifts>>

-----------------------------------------------------------------------------
(* The informer (external) and its resync period of ten hours.             *)

\* An event leaves the channel, the store follows it, the controller is told.
Deliver ==
  /\ stateChanges # <<>>
  /\ LET e == Head(stateChanges)
     IN  /\ store' = [store EXCEPT ![e.key] = IF e.deleted THEN Nil ELSE e.ptr]
         /\ dirtyKeys' = dirtyKeys \cup {e.key}
  /\ stateChanges' = Tail(stateChanges)
  /\ UNCHANGED <<heap, stateByKey, keyByResource, client, handler, watcher, watched,
                 clusterVars, bounds>>

\* A mutant of the informer, made without a resync period.
ResyncNever == FALSE /\ UNCHANGED vars

\* The resync period ended: every state of the store is handled again.
Resync ==
  /\ dirtyKeys' = dirtyKeys \cup {k \in Keys : store[k] # Nil}
  /\ UNCHANGED <<registerVars, keyByResource, store, client, handler, watcher, watched,
                 clusterVars, bounds>>

-----------------------------------------------------------------------------
(* handler.go: OnChange.                                                   *)

\* The controller takes a key and looks its state up in the store; OnChange
\* returns for a missing object, unlocks the key, and returns when the state it
\* was given is not Locked.
HandlerBegin(k) ==
  /\ handler[k].pc = "idle"
  /\ k \in dirtyKeys
  /\ dirtyKeys' = dirtyKeys \ {k}
  /\ IF store[k] = Nil
     THEN UNCHANGED <<keyByResource, handler>>
     ELSE /\ RemoveAllEntries(k)
          /\ handler' = IF heap[store[k]].locked
                        THEN [handler EXCEPT ![k] = [IdleHandler EXCEPT !.pc = "apply.read",
                                                                        !.ptr = store[k]]]
                        ELSE handler
  /\ UNCHANGED <<registerVars, store, client, watcher, watched, clusterVars, bounds>>

\* configureApply and the argument of Apply read oss.ObjectSet, under no lock.
HandlerRead(k) ==
  /\ handler[k].pc = "apply.read"
  /\ handler' = [handler EXCEPT ![k].pc = "apply.run", ![k].os = heap[handler[k].ptr].os]
  /\ UNCHANGED <<registerVars, keyByResource, store, dirtyKeys, client, watcher, watched,
                 clusterVars, bounds>>

\* Apply runs; an error is returned after the deferred Lock.
HandlerApply(k) ==
  /\ handler[k].pc = "apply.run"
  /\ \/ /\ ApplyAll(k, handler[k].os)
        /\ handler' = [handler EXCEPT ![k] = [IdleHandler EXCEPT !.pc = "lock.get"]]
     \/ /\ ApplyPart(k, handler[k].os)
        /\ handler' = [handler EXCEPT ![k] = [IdleHandler EXCEPT !.pc = "lock.get",
                                                                 !.err = TRUE]]
  /\ UNCHANGED <<registerVars, keyByResource, store, dirtyKeys, client, watcher, watched,
                 ops, drifts>>

\* OnChange returned: the controller adds the key again after an error.
HandlerReturn(k) ==
  /\ handler' = [handler EXCEPT ![k] = IdleHandler]
  /\ dirtyKeys' = IF handler[k].err THEN dirtyKeys \cup {k} ELSE dirtyKeys

\* A mutant of OnChange without the deferred Lock.
HandlerNeverLocks(k) ==
  /\ handler[k].pc = "lock.get"
  /\ HandlerReturn(k)
  /\ UNCHANGED <<registerVars, keyByResource, store, client, watcher, watched, clusterVars,
                 bounds>>

\* The deferred Lock(key): getState.
HandlerLockGet(k) ==
  /\ handler[k].pc = "lock.get"
  /\ IF stateByKey[k] = Nil
     THEN HandlerReturn(k)
     ELSE /\ handler' = [handler EXCEPT ![k].pc = "lock.add", ![k].ptr = stateByKey[k]]
          /\ UNCHANGED dirtyKeys
  /\ UNCHANGED <<registerVars, keyByResource, store, client, watcher, watched, clusterVars,
                 bounds>>

\* Lock(key): with mutateMu held, nothing to lock or lock the ObjectSet.
HandlerLockAdd(k) ==
  /\ handler[k].pc = "lock.add"
  /\ LET os == heap[handler[k].ptr].os
     IN  IF os = Nil
         THEN UNCHANGED <<keyByResource, watched, dirtyResources, fails>>
         ELSE LockEntries(k, os)
  /\ HandlerReturn(k)
  /\ UNCHANGED <<registerVars, store, client, watcher, cluster, owner, ops, drifts>>

-----------------------------------------------------------------------------
(* gvk.go and cache.go: a changed resource is resolved and enqueued.       *)

\* Resolve: a resource that is not tracked is ignored.
Resolve(r) ==
  /\ watcher[r].pc = "idle"
  /\ r \in dirtyResources
  /\ dirtyResources' = dirtyResources \ {r}
  /\ watcher' = IF keyByResource[r] = Nil THEN watcher
                ELSE [watcher EXCEPT ![r] = [IdleWatcher EXCEPT !.pc = "enqueue.get",
                                                                !.key = keyByResource[r]]]
  /\ UNCHANGED <<registerVars, keyByResource, store, dirtyKeys, client, handler, watched,
                 cluster, owner, bounds>>

\* Enqueue, setState(key, nil, nil, true): getState; a key without state gets a
\* new, empty and unlocked one.
EnqueueGet(r) ==
  /\ watcher[r].pc = "enqueue.get"
  /\ LET p == stateByKey[watcher[r].key]
     IN  watcher' = [watcher EXCEPT ![r].ptr = p,
                                    ![r].pc = IF p = Nil THEN "enqueue.set"
                                                         ELSE "enqueue.copy"]
  /\ UNCHANGED <<registerVars, keyByResource, store, dirtyKeys, client, handler, watched,
                 clusterVars, bounds>>

\* setState: originalState.DeepCopy(), under no lock.
EnqueueCopy(r) ==
  /\ watcher[r].pc = "enqueue.copy"
  /\ watcher' = [watcher EXCEPT ![r].state = heap[watcher[r].ptr], ![r].ptr = Nil,
                                ![r].pc = "enqueue.set"]
  /\ UNCHANGED <<registerVars, keyByResource, store, dirtyKeys, client, handler, watched,
                 clusterVars, bounds>>

\* setState: the copy is sent and stored.
EnqueueSet(r) ==
  /\ watcher[r].pc = "enqueue.set"
  /\ StoreState(watcher[r].key, watcher[r].state)
  /\ watcher' = [watcher EXCEPT ![r] = IdleWatcher]
  /\ UNCHANGED <<keyByResource, store, dirtyKeys, client, handler, watched, clusterVars,
                 bounds>>

-----------------------------------------------------------------------------
\* The client calls the register in any order.
Call(k) ==
  /\ ops < MaxOps
  /\ ops' = ops + 1
  /\ \/ \E os \in ObjectSets : Set(k, os)
     \/ Unlock(k)
     \/ \E purge \in BOOLEAN : Delete(k, purge)

DeleteStep(k) ==
  \/ DeleteGet(k) \/ DeleteFromMap(k) \/ DeleteObjectSet(k) \/ DeleteLocked(k)
  \/ DeleteSend(k) \/ RemoveUnlock(k) \/ RemovePurge(k)

HandlerStep(k) ==
  \/ HandlerBegin(k) \/ HandlerRead(k) \/ HandlerApply(k) \/ HandlerLockGet(k)
  \/ HandlerLockAdd(k)

WatcherStep(r) == Resolve(r) \/ EnqueueGet(r) \/ EnqueueCopy(r) \/ EnqueueSet(r)

\* What Helm Locker does by itself, but for the resyncs.
Locker ==
  \/ \E k \in Keys : DeleteStep(k) \/ HandlerStep(k)
  \/ \E r \in Resources : WatcherStep(r)
  \/ Deliver

Next ==
  \/ \E k \in Keys : Call(k)
  \/ Resync
  \/ \E r \in Resources : Drift(r)
  \/ Locker

\* Goroutines are scheduled, calls of the API server return, and the informer's
\* resync period ends again and again; failures are bounded by MaxFail.
Fairness ==
  /\ \A k \in Keys : WF_vars(DeleteStep(k)) /\ WF_vars(HandlerStep(k))
  /\ \A r \in Resources : WF_vars(WatcherStep(r))
  /\ WF_vars(Deliver)
  /\ WF_vars(Resync)

Spec == Init /\ [][Next]_vars

FairSpec == Spec /\ Fairness

-----------------------------------------------------------------------------
(* Properties.                                                             *)

\* canLock (cache.go:339): a resource that is tracked for one key is never
\* handed to another key without an unlock in between, whichever of two
\* overlapping object sets is applied, locked or unlocked first.
NoStealing ==
  [][\A r \in Resources :
       keyByResource[r] # Nil /\ keyByResource'[r] # Nil
         => keyByResource'[r] = keyByResource[r]]_keyByResource

\* Every pointer a goroutine goes on with is one: what was registered, or stored,
\* when it was looked up, although the map or the store may have lost it since
\* (cache.go:281-284 and 238-246, handler.go:48), and every key an Enqueue goes on
\* with was tracked (cache.go:219).
NoNilDereference ==
  /\ \A k \in Keys : client[k].pc \in {"delete.map", "delete.os", "delete.locked", "delete.send"}
       => client[k].ptr # Nil
  /\ \A k \in Keys : handler[k].pc \in {"apply.read", "lock.add"} => handler[k].ptr # Nil
  /\ \A r \in Resources : watcher[r].pc = "enqueue.copy" => watcher[r].ptr # Nil
  /\ \A r \in Resources : watcher[r].pc # "idle" => watcher[r].key # Nil

NewestEvent(k, i) ==
  /\ stateChanges[i].key = k
  /\ \A j \in 1..Len(stateChanges) : stateChanges[j].key = k => j <= i

\* The event is sent under the lock that guards the map (cache.go:268-275), so
\* the informer never ends up with a state that was superseded: the newest event
\* of a key, or the store when the channel has none, carries the registered state
\* or says that there is none; or deleteState is about to say so.
InformerFollowsRegister ==
  \A k \in Keys :
    \/ client[k].pc \in {"delete.os", "delete.locked", "delete.send"}
    \/ /\ \A i \in 1..Len(stateChanges) : NewestEvent(k, i) =>
            stateChanges[i].deleted \/ stateChanges[i].ptr = stateByKey[k]
       /\ (\A i \in 1..Len(stateChanges) : stateChanges[i].key # k) =>
            store[k] \in {Nil, stateByKey[k]}

\* What the handler is to enforce for a key: the set of a locked state.
Enforced(k) ==
  IF store[k] # Nil /\ heap[store[k]].locked THEN heap[store[k]].os ELSE Nil

\* "Automatically revert any changes" (cmd/helm-locker/README.md:10): whatever
\* changes are missed between the Unlock and the Lock of OnChange, whatever fails
\* halfway, in the end the resources of a locked set have the set's contents.
DriftIsReverted ==
  <>[](\A k \in Keys : \A r \in Desired(Enforced(k)) : cluster[r] = Enforced(k))

\* ... and its resources are tracked again and again: the Lock deferred by
\* OnChange (handler.go:69) comes after every Unlock, also when a Watch failed.
LockedSetsAreTracked ==
  \A k \in Keys :
    []<>(\A r \in Desired(Enforced(k)) : keyByResource[r] = k)

=============================================================================
