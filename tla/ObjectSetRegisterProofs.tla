----------------------- MODULE ObjectSetRegisterProofs -----------------------
(***************************************************************************)
(* For all sets of keys, resources, kinds and manifests, and every bound:  *)
(* the register's type invariant, that no tracked resource changes hands,  *)
(* and that the informer follows the register.                             *)
(***************************************************************************)
EXTENDS RegisterHistory, TLAPS

-----------------------------------------------------------------------------
(* What the operators of the model write has the right type.               *)

\* The critical section of setState keeps the heap, the map and the channel typed.
LEMMA StoreStateTypes ==
  ASSUME TypeOK, NEW k \in Keys, NEW s \in State, StoreState(k, s)
  PROVE  /\ heap' \in [Ptrs -> State]
         /\ stateByKey' \in [Keys -> Ptrs \cup {Nil}]
         /\ stateChanges' \in Seq(Event) /\ Len(stateChanges') <= ChanCap
<1>1. FreshPtr \in Ptrs
  BY DEF StoreState, CanAllocate, FreshPtr
<1>2. EmptyState \in State
  BY DEF EmptyState, State
<1>3. heap' \in [Ptrs -> State]
  BY <1>1, <1>2 DEF StoreState, TypeOK
<1>4. stateByKey' \in [Keys -> Ptrs \cup {Nil}]
  BY <1>1 DEF StoreState, TypeOK
<1>5. [key |-> k, ptr |-> FreshPtr, deleted |-> FALSE] \in Event
  BY <1>1 DEF Event
<1>6. /\ stateChanges' = Append(stateChanges, [key |-> k, ptr |-> FreshPtr, deleted |-> FALSE])
      /\ Len(stateChanges) < ChanCap
  BY DEF StoreState, CanSend
<1>7. stateChanges' \in Seq(Event) /\ Len(stateChanges') <= ChanCap
  BY <1>5, <1>6, ConstantsAssumption DEF TypeOK
<1> QED BY <1>3, <1>4, <1>7

\* unlock and lock resolve resources to keys.
LEMMA EntriesTypes ==
  ASSUME TypeOK, NEW k \in Keys
  PROVE  /\ WithoutEntries(k) \in [Resources -> Keys \cup {Nil}]
         /\ \A os, gvks : WithEntries(k, os, gvks) \in [Resources -> Keys \cup {Nil}]
<1>1. WithoutEntries(k) \in [Resources -> Keys \cup {Nil}]
  BY DEF WithoutEntries, TypeOK
<1> QED BY <1>1 DEF WithEntries

\* lock watches kinds, and marks resources.
LEMMA LockEntriesTypes ==
  ASSUME TypeOK, NEW k \in Keys, NEW os \in ObjectSets, LockEntries(k, os)
  PROVE  /\ keyByResource' \in [Resources -> Keys \cup {Nil}]
         /\ watched' \subseteq GVKs
         /\ dirtyResources' \subseteq Resources
         /\ fails' \in 0..MaxFail
<1>1. GVKsOf(os) \subseteq GVKs
  BY ConstantsAssumption DEF GVKsOf
<1>2. ASSUME NEW gvks \in SUBSET GVKs, StartWatching(gvks)
      PROVE  watched' \subseteq GVKs /\ dirtyResources' \subseteq Resources
  BY <1>2 DEF StartWatching, TypeOK
<1>3. CASE ~CanLock(k, os) /\ UNCHANGED <<keyByResource, watched, dirtyResources, fails>>
  BY <1>3 DEF TypeOK
<1>4. CASE /\ keyByResource' = WithEntries(k, os, GVKsOf(os))
           /\ StartWatching(GVKsOf(os))
           /\ UNCHANGED fails
  BY <1>1, <1>2, <1>4, EntriesTypes DEF TypeOK
<1>5. CASE /\ fails < MaxFail
           /\ \E failing \in GVKsOf(os) \ watched :
                \E before \in SUBSET (GVKsOf(os) \ {failing}) :
                  /\ keyByResource' = WithEntries(k, os, before \cup {failing})
                  /\ StartWatching(before)
           /\ fails' = fails + 1
  <2>1. PICK failing \in GVKsOf(os) \ watched :
          \E before \in SUBSET (GVKsOf(os) \ {failing}) :
            /\ keyByResource' = WithEntries(k, os, before \cup {failing})
            /\ StartWatching(before)
    BY <1>5
  <2>2. PICK before \in SUBSET (GVKsOf(os) \ {failing}) :
          /\ keyByResource' = WithEntries(k, os, before \cup {failing})
          /\ StartWatching(before)
    BY <2>1
  <2>3. before \in SUBSET GVKs
    BY <1>1
  <2>4. fails' \in 0..MaxFail
    BY <1>5, ConstantsAssumption DEF TypeOK
  <2> QED BY <1>2, <2>2, <2>3, <2>4, EntriesTypes
<1> QED BY <1>3, <1>4, <1>5 DEF LockEntries

\* An Apply, complete or not, writes object sets and keys.
LEMMA ApplyTypes ==
  ASSUME TypeOK, NEW k \in Keys, NEW os \in ObjectSets \cup {Nil},
         ApplyAll(k, os) \/ ApplyPart(k, os)
  PROVE  /\ cluster' \in [Resources -> ObjectSets \cup {Drifted, Nil}]
         /\ owner' \in [Resources -> Keys \cup {Nil}]
         /\ dirtyResources' \subseteq Resources
         /\ fails' \in 0..MaxFail
<1>1. Desired(os) # {} => os \in ObjectSets
  BY DEF Desired
<1>2. ASSUME NEW reached, ApplySome(k, os, reached)
      PROVE  /\ cluster' \in [Resources -> ObjectSets \cup {Drifted, Nil}]
             /\ owner' \in [Resources -> Keys \cup {Nil}]
             /\ dirtyResources' \subseteq Resources
  <2>1. cluster' \in [Resources -> ObjectSets \cup {Drifted, Nil}]
    BY <1>1, <1>2 DEF ApplySome, WriteCluster, TypeOK
  <2>2. owner' \in [Resources -> Keys \cup {Nil}]
    BY <1>2 DEF ApplySome, WriteCluster, TypeOK
  <2>3. dirtyResources' \subseteq Resources
    BY <1>2 DEF ApplySome, WriteCluster, TypeOK
  <2> QED BY <2>1, <2>2, <2>3
<1>3. CASE ApplyAll(k, os)
  BY <1>2, <1>3 DEF ApplyAll, TypeOK
<1>4. CASE ApplyPart(k, os)
  <2>1. fails' \in 0..MaxFail
    BY <1>4, ConstantsAssumption DEF ApplyPart, TypeOK
  <2> QED BY <1>2, <1>4, <2>1 DEF ApplyPart
<1> QED BY <1>3, <1>4

-----------------------------------------------------------------------------
(* The type invariant.  It is inductive together with NoNilDereference: a  *)
(* goroutine that writes through a pointer has one.                        *)

IInv == TypeOK /\ NoNilDereference

\* What the types of the goroutines' records say of their fields.
Client  == [pc : ClientPCs, ptr : Ptrs \cup {Nil}, purge : BOOLEAN]
Handler == [pc : HandlerPCs, ptr : Ptrs \cup {Nil}, os : ObjectSets \cup {Nil},
            err : BOOLEAN]
Watcher == [pc : WatcherPCs, key : Keys \cup {Nil}, ptr : Ptrs \cup {Nil}, state : State]

\* An idle goroutine is typed.
LEMMA IdleTypes ==
  IdleClient \in Client /\ IdleHandler \in Handler /\ IdleWatcher \in Watcher
BY DEF IdleClient, IdleHandler, IdleWatcher, EmptyState, State, Client, Handler, Watcher,
       ClientPCs, HandlerPCs, WatcherPCs

\* A client that only goes on stays typed.
LEMMA ClientGoesOn ==
  ASSUME NEW f \in [Keys -> Client], NEW k \in Keys, NEW pc \in ClientPCs
  PROVE  [f EXCEPT ![k].pc = pc] \in [Keys -> Client]
<1>1. [f[k] EXCEPT !.pc = pc] \in Client
  BY DEF Client
<1> QED BY <1>1

\* A new register is typed.
LEMMA InitTyped == Init => TypeOK
<1> SUFFICES ASSUME Init PROVE TypeOK
  OBVIOUS
<1>1. heap \in [Ptrs -> State]
  BY DEF Init, RegisterInit, EmptyState, State
<1>2. stateChanges \in Seq(Event) /\ Len(stateChanges) <= ChanCap
  BY ConstantsAssumption DEF Init, RegisterInit
<1>3. client \in [Keys -> Client] /\ handler \in [Keys -> Handler]
      /\ watcher \in [Resources -> Watcher]
  BY IdleTypes DEF Init, RegisterInit
<1>4. /\ stateByKey \in [Keys -> Ptrs \cup {Nil}]
      /\ keyByResource \in [Resources -> Keys \cup {Nil}]
      /\ store \in [Keys -> Ptrs \cup {Nil}]
      /\ dirtyKeys \subseteq Keys
      /\ watched \subseteq GVKs
      /\ dirtyResources \subseteq Resources
      /\ cluster \in [Resources -> ObjectSets \cup {Drifted, Nil}]
      /\ owner \in [Resources -> Keys \cup {Nil}]
      /\ ops \in 0..MaxOps /\ drifts \in 0..MaxDrift /\ fails \in 0..MaxFail
  BY ConstantsAssumption DEF Init, RegisterInit
<1> QED BY <1>1, <1>2, <1>3, <1>4 DEF TypeOK, Client, Handler, Watcher

\* What the client calls, by itself or for the release controller.
Calls(k) ==
  \/ \E os \in ObjectSets \cup {Nil} : Set(k, os)
  \/ Unlock(k)
  \/ \E purge \in BOOLEAN : Delete(k, purge)

\* A call of the register, within the bound on the operations, keeps everything typed.
LEMMA CallsTyped ==
  ASSUME TypeOK, NEW k \in Keys, Calls(k), ops' \in 0..MaxOps
  PROVE  TypeOK'
<1>1. CASE \E os \in ObjectSets \cup {Nil} : Set(k, os)
  <2>1. PICK os \in ObjectSets \cup {Nil} : Set(k, os)
    BY <1>1
  <2>2. [os |-> os, locked |-> TRUE] \in State
    BY DEF State
  <2>3. StoreState(k, [os |-> os, locked |-> TRUE])
    BY <2>1 DEF Set
  <2>4. /\ heap' \in [Ptrs -> State]
        /\ stateByKey' \in [Keys -> Ptrs \cup {Nil}]
        /\ stateChanges' \in Seq(Event) /\ Len(stateChanges') <= ChanCap
    BY <2>2, <2>3, StoreStateTypes
  <2> QED BY <2>1, <2>4 DEF Set, TypeOK, clusterVars
<1>2. CASE Unlock(k)
  BY <1>2, EntriesTypes DEF Unlock, RemoveAllEntries, TypeOK, registerVars, clusterVars
<1>3. CASE \E purge \in BOOLEAN : Delete(k, purge)
  <2>1. client' \in [Keys -> Client]
    BY <1>3 DEF Delete, TypeOK, Client, ClientPCs
  <2> QED BY <1>3, <2>1 DEF Delete, TypeOK, Client, registerVars, clusterVars
<1> QED BY <1>1, <1>2, <1>3 DEF Calls

\* A call of the client counts as an operation.
LEMMA CallTyped ==
  ASSUME TypeOK, NEW k \in Keys, Call(k)
  PROVE  TypeOK'
<1>1. ops' \in 0..MaxOps
  BY ConstantsAssumption DEF Call, TypeOK
<1>2. Calls(k)
  BY DEF Call, Calls
<1> QED BY <1>1, <1>2, CallsTyped

\* So does every step inside Delete.
LEMMA DeleteTyped ==
  ASSUME IInv, NEW k \in Keys, DeleteStep(k)
  PROVE  TypeOK'
<1> USE DEF IInv
<1>0. client \in [Keys -> Client] /\ client[k] \in Client
  BY DEF TypeOK, Client
<1>1. CASE DeleteGet(k)
  <2>1. client' \in [Keys -> Client]
    BY <1>1 DEF DeleteGet, TypeOK, Client, ClientPCs
  <2> QED BY <1>1, <2>1 DEF DeleteGet, TypeOK, Client, registerVars, clusterVars, bounds
<1>2. CASE DeleteFromMap(k)
  <2>1. client' \in [Keys -> Client]
    BY <1>0, <1>2, ClientGoesOn DEF DeleteFromMap, ClientPCs
  <2>2. stateByKey' \in [Keys -> Ptrs \cup {Nil}]
    BY <1>2 DEF DeleteFromMap, TypeOK
  <2> QED BY <1>2, <2>1, <2>2 DEF DeleteFromMap, TypeOK, Client, clusterVars, bounds
<1>3. CASE DeleteObjectSet(k)
  <2>1. client' \in [Keys -> Client]
    BY <1>0, <1>3, ClientGoesOn DEF DeleteObjectSet, ClientPCs
  <2>2. client[k].ptr \in Ptrs /\ heap[client[k].ptr] \in State
    BY <1>0, <1>3 DEF DeleteObjectSet, NoNilDereference, TypeOK, Client
  <2>3. [heap[client[k].ptr] EXCEPT !.os = Nil] \in State
    BY <2>2 DEF State
  <2>4. heap' = [heap EXCEPT ![client[k].ptr] = [heap[client[k].ptr] EXCEPT !.os = Nil]]
    BY <1>3 DEF DeleteObjectSet
  <2>5. heap' \in [Ptrs -> State]
    BY <2>3, <2>4 DEF TypeOK
  <2> QED BY <1>3, <2>1, <2>5 DEF DeleteObjectSet, TypeOK, Client, clusterVars, bounds
<1>4. CASE DeleteLocked(k)
  <2>1. client' \in [Keys -> Client]
    BY <1>0, <1>4, ClientGoesOn DEF DeleteLocked, ClientPCs
  <2>2. client[k].ptr \in Ptrs /\ heap[client[k].ptr] \in State
    BY <1>0, <1>4 DEF DeleteLocked, NoNilDereference, TypeOK, Client
  <2>3. [heap[client[k].ptr] EXCEPT !.locked = FALSE] \in State
    BY <2>2 DEF State
  <2>4. heap' = [heap EXCEPT ![client[k].ptr] = [heap[client[k].ptr] EXCEPT !.locked = FALSE]]
    BY <1>4 DEF DeleteLocked
  <2>5. heap' \in [Ptrs -> State]
    BY <2>3, <2>4 DEF TypeOK
  <2> QED BY <1>4, <2>1, <2>5 DEF DeleteLocked, TypeOK, Client, clusterVars, bounds
<1>5. CASE DeleteSend(k)
  <2>1. [client[k] EXCEPT !.pc = "remove.unlock", !.ptr = Nil] \in Client
    BY <1>0 DEF Client, ClientPCs
  <2>2. client' = [client EXCEPT ![k] = [client[k] EXCEPT !.pc = "remove.unlock", !.ptr = Nil]]
    BY <1>5 DEF DeleteSend
  <2>3. client' \in [Keys -> Client]
    BY <1>0, <2>1, <2>2
  <2>4. client[k].ptr \in Ptrs
    BY <1>0, <1>5 DEF DeleteSend, NoNilDereference, Client
  <2>5. [key |-> k, ptr |-> client[k].ptr, deleted |-> TRUE] \in Event
    BY <2>4 DEF Event
  <2>6. stateChanges' \in Seq(Event) /\ Len(stateChanges') <= ChanCap
    BY <1>5, <2>5, ConstantsAssumption DEF DeleteSend, CanSend, TypeOK
  <2> QED BY <1>5, <2>3, <2>6 DEF DeleteSend, TypeOK, Client, clusterVars, bounds
<1>6. CASE RemoveUnlock(k)
  <2>1. client' \in [Keys -> Client]
    BY <1>6, IdleTypes DEF RemoveUnlock, TypeOK, Client, ClientPCs
  <2> QED BY <1>6, <2>1, EntriesTypes
          DEF RemoveUnlock, RemoveAllEntries, TypeOK, Client, registerVars, clusterVars, bounds
<1>7. CASE RemovePurge(k)
  <2>1. client' \in [Keys -> Client]
    BY <1>7, IdleTypes DEF RemovePurge, TypeOK, Client
  <2>2. /\ cluster' \in [Resources -> ObjectSets \cup {Drifted, Nil}]
        /\ owner' \in [Resources -> Keys \cup {Nil}]
        /\ dirtyResources' \subseteq Resources
        /\ fails' \in 0..MaxFail
    BY <1>7, ApplyTypes DEF RemovePurge
  <2> QED BY <1>7, <2>1, <2>2 DEF RemovePurge, TypeOK, Client, registerVars
<1> QED BY <1>1, <1>2, <1>3, <1>4, <1>5, <1>6, <1>7 DEF DeleteStep

\* OnChange returning keeps the handler and its queue typed.
LEMMA HandlerReturnTypes ==
  ASSUME TypeOK, NEW k \in Keys, HandlerReturn(k)
  PROVE  handler' \in [Keys -> Handler] /\ dirtyKeys' \subseteq Keys
<1>1. handler' \in [Keys -> Handler]
  BY IdleTypes DEF HandlerReturn, TypeOK, Handler
<1> QED BY <1>1 DEF HandlerReturn, TypeOK

\* A step of OnChange keeps everything typed.
LEMMA HandlerTyped ==
  ASSUME IInv, NEW k \in Keys, HandlerStep(k)
  PROVE  TypeOK'
<1> USE DEF IInv
<1>0. handler \in [Keys -> Handler] /\ handler[k] \in Handler
  BY DEF TypeOK, Handler
<1>1. CASE HandlerBegin(k)
  <2>1. store[k] # Nil => [IdleHandler EXCEPT !.pc = "apply.read", !.ptr = store[k]] \in Handler
    BY DEF TypeOK, IdleHandler, Handler, HandlerPCs
  <2>2. handler' \in [Keys -> Handler]
    BY <1>0, <1>1, <2>1 DEF HandlerBegin
  <2>3. keyByResource' \in [Resources -> Keys \cup {Nil}]
    BY <1>1, EntriesTypes DEF HandlerBegin, RemoveAllEntries, TypeOK
  <2> QED BY <1>1, <2>2, <2>3
          DEF HandlerBegin, TypeOK, Handler, registerVars, clusterVars, bounds
<1>2. CASE HandlerRead(k)
  <2>1. handler[k].ptr \in Ptrs /\ heap[handler[k].ptr] \in State
    BY <1>0, <1>2 DEF HandlerRead, NoNilDereference, TypeOK, Handler
  <2>2. [handler[k] EXCEPT !.pc = "apply.run", !.os = heap[handler[k].ptr].os] \in Handler
    BY <1>0, <2>1 DEF Handler, HandlerPCs, State
  <2>3. handler' = [handler EXCEPT ![k] =
                      [handler[k] EXCEPT !.pc = "apply.run", !.os = heap[handler[k].ptr].os]]
    BY <1>2 DEF HandlerRead
  <2>4. handler' \in [Keys -> Handler]
    BY <1>0, <2>2, <2>3
  <2> QED BY <1>2, <2>4 DEF HandlerRead, TypeOK, Handler, registerVars, clusterVars, bounds
<1>3. CASE HandlerApply(k)
  <2>1. ASSUME NEW err \in BOOLEAN
        PROVE  [IdleHandler EXCEPT !.pc = "lock.get", !.err = err] \in Handler
    BY DEF IdleHandler, Handler, HandlerPCs
  <2>2. [IdleHandler EXCEPT !.pc = "lock.get"] \in Handler
    BY DEF IdleHandler, Handler, HandlerPCs
  <2>3. handler' \in [Keys -> Handler]
    BY <1>0, <1>3, <2>1, <2>2 DEF HandlerApply
  <2>4. handler[k].os \in ObjectSets \cup {Nil}
    BY <1>0 DEF Handler
  <2>5. /\ cluster' \in [Resources -> ObjectSets \cup {Drifted, Nil}]
        /\ owner' \in [Resources -> Keys \cup {Nil}]
        /\ dirtyResources' \subseteq Resources
        /\ fails' \in 0..MaxFail
    BY <1>3, <2>4, ApplyTypes DEF HandlerApply
  <2> QED BY <1>3, <2>3, <2>5 DEF HandlerApply, TypeOK, Handler, registerVars
<1>4. CASE HandlerLockGet(k)
  <2>1. [handler[k] EXCEPT !.pc = "lock.add", !.ptr = stateByKey[k]] \in Handler
    BY <1>0 DEF TypeOK, Handler, HandlerPCs
  <2>2. \/ HandlerReturn(k)
        \/ /\ handler' = [handler EXCEPT ![k] =
                            [handler[k] EXCEPT !.pc = "lock.add", !.ptr = stateByKey[k]]]
           /\ UNCHANGED dirtyKeys
    BY <1>4 DEF HandlerLockGet
  <2>3. handler' \in [Keys -> Handler] /\ dirtyKeys' \subseteq Keys
    BY <1>0, <2>1, <2>2, HandlerReturnTypes DEF TypeOK
  <2> QED BY <1>4, <2>3 DEF HandlerLockGet, TypeOK, Handler, registerVars, clusterVars, bounds
<1>5. CASE HandlerLockAdd(k)
  <2>1. handler' \in [Keys -> Handler] /\ dirtyKeys' \subseteq Keys
    BY <1>5, HandlerReturnTypes DEF HandlerLockAdd
  <2>2. handler[k].ptr \in Ptrs /\ heap[handler[k].ptr] \in State
    BY <1>0, <1>5 DEF HandlerLockAdd, NoNilDereference, TypeOK, Handler
  <2>3. heap[handler[k].ptr].os \in ObjectSets \cup {Nil}
    BY <2>2 DEF State
  <2>4. /\ keyByResource' \in [Resources -> Keys \cup {Nil}]
        /\ watched' \subseteq GVKs
        /\ dirtyResources' \subseteq Resources
        /\ fails' \in 0..MaxFail
    <3>1. CASE heap[handler[k].ptr].os = Nil
      BY <1>5, <3>1 DEF HandlerLockAdd, TypeOK
    <3>2. CASE heap[handler[k].ptr].os # Nil
      <4>1. LockEntries(k, heap[handler[k].ptr].os)
        BY <1>5, <3>2 DEF HandlerLockAdd
      <4> QED BY <2>3, <3>2, <4>1, LockEntriesTypes
    <3> QED BY <3>1, <3>2
  <2> QED BY <1>5, <2>1, <2>4 DEF HandlerLockAdd, TypeOK, Handler, registerVars
<1> QED BY <1>1, <1>2, <1>3, <1>4, <1>5 DEF HandlerStep

\* A step of Resolve or Enqueue keeps everything typed.
LEMMA WatcherTyped ==
  ASSUME IInv, NEW r \in Resources, WatcherStep(r)
  PROVE  TypeOK'
<1> USE DEF IInv
<1>0. watcher \in [Resources -> Watcher] /\ watcher[r] \in Watcher
  BY DEF TypeOK, Watcher
<1>1. CASE Resolve(r)
  <2>1. [IdleWatcher EXCEPT !.pc = "enqueue.get", !.key = keyByResource[r]] \in Watcher
    BY DEF TypeOK, IdleWatcher, EmptyState, State, Watcher, WatcherPCs
  <2>2. watcher' \in [Resources -> Watcher]
    BY <1>0, <1>1, <2>1 DEF Resolve
  <2> QED BY <1>1, <2>2 DEF Resolve, TypeOK, Watcher, registerVars, bounds
<1>2. CASE EnqueueGet(r)
  <2>1. watcher[r].key \in Keys
    BY <1>0, <1>2 DEF EnqueueGet, NoNilDereference, Watcher
  <2>2. stateByKey[watcher[r].key] \in Ptrs \cup {Nil}
    BY <2>1 DEF TypeOK
  <2>3. ASSUME NEW p \in Ptrs \cup {Nil}, NEW pc \in WatcherPCs
        PROVE  [watcher[r] EXCEPT !.ptr = p, !.pc = pc] \in Watcher
    BY <1>0 DEF Watcher
  <2>4. \E pc \in WatcherPCs :
          watcher' = [watcher EXCEPT ![r] =
                        [watcher[r] EXCEPT !.ptr = stateByKey[watcher[r].key], !.pc = pc]]
    BY <1>2 DEF EnqueueGet, WatcherPCs
  <2>5. watcher' \in [Resources -> Watcher]
    BY <1>0, <2>2, <2>3, <2>4
  <2> QED BY <1>2, <2>5 DEF EnqueueGet, TypeOK, Watcher, registerVars, clusterVars, bounds
<1>3. CASE EnqueueCopy(r)
  <2>1. heap[watcher[r].ptr] \in State
    BY <1>0, <1>3 DEF EnqueueCopy, NoNilDereference, TypeOK, Watcher
  <2>2. [watcher[r] EXCEPT !.state = heap[watcher[r].ptr], !.ptr = Nil, !.pc = "enqueue.set"]
          \in Watcher
    BY <1>0, <2>1 DEF Watcher, WatcherPCs
  <2>3. watcher' = [watcher EXCEPT ![r] =
          [watcher[r] EXCEPT !.state = heap[watcher[r].ptr], !.ptr = Nil, !.pc = "enqueue.set"]]
    BY <1>3 DEF EnqueueCopy
  <2>4. watcher' \in [Resources -> Watcher]
    BY <1>0, <2>2, <2>3
  <2> QED BY <1>3, <2>4 DEF EnqueueCopy, TypeOK, Watcher, registerVars, clusterVars, bounds
<1>4. CASE EnqueueSet(r)
  <2>1. watcher[r].key \in Keys /\ watcher[r].state \in State
    BY <1>0, <1>4 DEF EnqueueSet, NoNilDereference, Watcher
  <2>2. StoreState(watcher[r].key, watcher[r].state)
    BY <1>4 DEF EnqueueSet
  <2>3. /\ heap' \in [Ptrs -> State]
        /\ stateByKey' \in [Keys -> Ptrs \cup {Nil}]
        /\ stateChanges' \in Seq(Event) /\ Len(stateChanges') <= ChanCap
    BY <2>1, <2>2, StoreStateTypes
  <2>4. watcher' \in [Resources -> Watcher]
    BY <1>0, <1>4, IdleTypes DEF EnqueueSet
  <2> QED BY <1>4, <2>3, <2>4 DEF EnqueueSet, TypeOK, Watcher, clusterVars, bounds
<1> QED BY <1>1, <1>2, <1>3, <1>4 DEF WatcherStep

\* The informer and the other users of the cluster keep everything typed.
LEMMA OthersTyped ==
  ASSUME TypeOK, Deliver \/ Resync \/ (\E r \in Resources : Drift(r))
  PROVE  TypeOK'
<1>1. CASE Deliver
  <2>1. /\ stateChanges \in Seq(Event) /\ stateChanges # <<>>
        /\ stateChanges' = Tail(stateChanges)
    BY <1>1 DEF Deliver, TypeOK
  <2>2. Head(stateChanges) \in Event /\ stateChanges' \in Seq(Event)
        /\ Len(stateChanges') <= Len(stateChanges)
    BY <2>1
  <2>3. Len(stateChanges') <= ChanCap
    BY <2>1, <2>2, ConstantsAssumption DEF TypeOK
  <2>4. store' \in [Keys -> Ptrs \cup {Nil}] /\ dirtyKeys' \subseteq Keys
    BY <1>1, <2>2 DEF Deliver, TypeOK, Event
  <2> QED BY <1>1, <2>2, <2>3, <2>4 DEF Deliver, TypeOK, clusterVars, bounds
<1>2. CASE Resync
  BY <1>2 DEF Resync, TypeOK, registerVars, clusterVars, bounds
<1>3. CASE \E r \in Resources : Drift(r)
  <2>1. PICK r \in Resources : Drift(r)
    BY <1>3
  <2>2. drifts' \in 0..MaxDrift
    BY <2>1, ConstantsAssumption DEF Drift, TypeOK
  <2>3. PICK content \in {Drifted, Nil} :
          WriteCluster([cluster EXCEPT ![r] = content],
                       IF content = Nil THEN [owner EXCEPT ![r] = Nil] ELSE owner)
    BY <2>1 DEF Drift
  <2>4. cluster' \in [Resources -> ObjectSets \cup {Drifted, Nil}]
    BY <2>3 DEF WriteCluster, TypeOK
  <2>5. owner' \in [Resources -> Keys \cup {Nil}]
    BY <2>3 DEF WriteCluster, TypeOK
  <2>6. dirtyResources' \subseteq Resources
    BY <2>3 DEF WriteCluster, TypeOK
  <2> QED BY <2>1, <2>2, <2>4, <2>5, <2>6 DEF Drift, TypeOK, registerVars
<1> QED BY <1>1, <1>2, <1>3

-----------------------------------------------------------------------------
(* Every pointer that is followed is one.                                  *)

\* Which of the goroutines' records a step of each kind changes.
LEMMA CallGoroutines ==
  ASSUME NEW k \in Keys, Calls(k)
  PROVE  /\ UNCHANGED <<handler, watcher>>
         /\ \/ UNCHANGED client
            \/ \E purge \in BOOLEAN :
                 client' = [client EXCEPT ![k] = [pc |-> "delete.get", ptr |-> Nil,
                                                  purge |-> purge]]
BY DEF Calls, Set, Unlock, Delete

\* A call makes no goroutine follow a pointer it does not have.
LEMMA CallsNoNil ==
  ASSUME IInv, NEW k \in Keys, Calls(k)
  PROVE  NoNilDereference'
<1>1. client \in [Keys -> Client]
  BY DEF IInv, TypeOK, Client
<1> QED BY <1>1, CallGoroutines DEF IInv, NoNilDereference

\* No step makes a goroutine follow a pointer it does not have.
LEMMA NoNilStep ==
  ASSUME IInv, [Next]_vars
  PROVE  NoNilDereference'
<1> USE DEF IInv
<1>0. /\ client \in [Keys -> Client] /\ handler \in [Keys -> Handler]
      /\ watcher \in [Resources -> Watcher]
  BY DEF TypeOK, Client, Handler, Watcher
<1>1. CASE UNCHANGED <<client, handler, watcher>>
  BY <1>1 DEF NoNilDereference
<1>2. ASSUME NEW k \in Keys, Call(k)
      PROVE  NoNilDereference'
  BY <1>2, CallsNoNil DEF Call, Calls
<1>3. ASSUME NEW k \in Keys, DeleteStep(k)
      PROVE  NoNilDereference'
  <2>0. UNCHANGED <<handler, watcher>>
    BY <1>3 DEF DeleteStep, DeleteGet, DeleteFromMap, DeleteObjectSet, DeleteLocked,
                DeleteSend, RemoveUnlock, RemovePurge
  <2>1. client' \in [Keys -> Client]
    BY <1>3, DeleteTyped DEF TypeOK, Client
  <2>2. \A j \in Keys \ {k} : client'[j] = client[j]
    BY <1>0, <1>3 DEF DeleteStep, DeleteGet, DeleteFromMap, DeleteObjectSet, DeleteLocked,
                      DeleteSend, RemoveUnlock, RemovePurge
  <2>3. client'[k].pc \in {"delete.map", "delete.os", "delete.locked", "delete.send"}
          => client'[k].ptr # Nil
    <3>1. CASE DeleteGet(k)
      BY <1>0, <3>1 DEF DeleteGet, Client
    <3>2. CASE DeleteFromMap(k) \/ DeleteObjectSet(k) \/ DeleteLocked(k)
      <4>1. client[k].ptr # Nil
        BY <3>2 DEF DeleteFromMap, DeleteObjectSet, DeleteLocked, NoNilDereference
      <4>2. \E pc \in ClientPCs : client' = [client EXCEPT ![k].pc = pc]
        BY <3>2 DEF DeleteFromMap, DeleteObjectSet, DeleteLocked, ClientPCs
      <4> QED BY <1>0, <4>1, <4>2 DEF Client
    <3>3. CASE DeleteSend(k) \/ RemoveUnlock(k) \/ RemovePurge(k)
      <4>1. client'[k].pc \in {"remove.unlock", "remove.purge", "idle"}
        BY <1>0, <3>3 DEF DeleteSend, RemoveUnlock, RemovePurge, IdleClient, Client
      <4> QED BY <4>1
    <3> QED BY <1>3, <3>1, <3>2, <3>3 DEF DeleteStep
  <2> QED BY <2>0, <2>2, <2>3 DEF NoNilDereference
<1>4. ASSUME NEW k \in Keys, HandlerStep(k)
      PROVE  NoNilDereference'
  <2>0. UNCHANGED <<client, watcher>>
    BY <1>4 DEF HandlerStep, HandlerBegin, HandlerRead, HandlerApply, HandlerLockGet,
                HandlerLockAdd
  <2>1. \A j \in Keys \ {k} : handler'[j] = handler[j]
    BY <1>0, <1>4 DEF HandlerStep, HandlerBegin, HandlerRead, HandlerApply, HandlerLockGet,
                      HandlerLockAdd, HandlerReturn
  <2>2. handler'[k].pc \in {"apply.read", "lock.add"} => handler'[k].ptr # Nil
    <3>1. CASE HandlerBegin(k)
      BY <1>0, <3>1 DEF HandlerBegin, IdleHandler, Handler
    <3>2. CASE HandlerRead(k)
      <4>1. handler'[k].pc = "apply.run"
        BY <1>0, <3>2 DEF HandlerRead, Handler
      <4> QED BY <4>1
    <3>3. CASE HandlerApply(k)
      <4>1. handler'[k].pc = "lock.get"
        BY <1>0, <3>3 DEF HandlerApply, IdleHandler
      <4> QED BY <4>1
    <3>4. CASE HandlerLockGet(k)
      BY <1>0, <3>4 DEF HandlerLockGet, HandlerReturn, IdleHandler, Handler
    <3>5. CASE HandlerLockAdd(k)
      BY <1>0, <3>5 DEF HandlerLockAdd, HandlerReturn, IdleHandler
    <3> QED BY <1>4, <3>1, <3>2, <3>3, <3>4, <3>5 DEF HandlerStep
  <2> QED BY <2>0, <2>1, <2>2 DEF NoNilDereference
<1>5. ASSUME NEW r \in Resources, WatcherStep(r)
      PROVE  NoNilDereference'
  <2>0. UNCHANGED <<client, handler>>
    BY <1>5 DEF WatcherStep, Resolve, EnqueueGet, EnqueueCopy, EnqueueSet
  <2>1. \A q \in Resources \ {r} : watcher'[q] = watcher[q]
    BY <1>0, <1>5 DEF WatcherStep, Resolve, EnqueueGet, EnqueueCopy, EnqueueSet
  <2>2. /\ watcher'[r].pc = "enqueue.copy" => watcher'[r].ptr # Nil
        /\ watcher'[r].pc # "idle" => watcher'[r].key # Nil
    <3>1. CASE Resolve(r)
      BY <1>0, <3>1 DEF Resolve, IdleWatcher, Watcher, NoNilDereference
    <3>2. CASE EnqueueGet(r)
      BY <1>0, <3>2 DEF EnqueueGet, Watcher, NoNilDereference
    <3>3. CASE EnqueueCopy(r)
      BY <1>0, <3>3 DEF EnqueueCopy, Watcher, NoNilDereference
    <3>4. CASE EnqueueSet(r)
      BY <1>0, <3>4 DEF EnqueueSet, IdleWatcher
    <3> QED BY <1>5, <3>1, <3>2, <3>3, <3>4 DEF WatcherStep
  <2> QED BY <2>0, <2>1, <2>2 DEF NoNilDereference
<1>6. CASE Deliver \/ Resync \/ (\E r \in Resources : Drift(r)) \/ UNCHANGED vars
  BY <1>1, <1>6 DEF Deliver, Resync, Drift, vars
<1> QED BY <1>2, <1>3, <1>4, <1>5, <1>6 DEF Next, Locker

\* The inductive invariant holds in the initial states and is kept by every step.
LEMMA IInvInit == Init => IInv
<1>1. Init => NoNilDereference
  BY DEF Init, RegisterInit, IdleClient, IdleHandler, IdleWatcher, NoNilDereference
<1> QED BY <1>1, InitTyped DEF IInv

LEMMA IInvStep == ASSUME IInv, [Next]_vars PROVE IInv'
<1>1. TypeOK'
  <2>1. CASE UNCHANGED vars
    BY <2>1 DEF IInv, TypeOK, vars, registerVars, clusterVars, bounds
  <2>2. CASE Next
    BY <2>2, CallTyped, DeleteTyped, HandlerTyped, WatcherTyped, OthersTyped
       DEF Next, Locker, IInv
  <2> QED BY <2>1, <2>2
<1> QED BY <1>1, NoNilStep DEF IInv

LEMMA IInvAlways == Spec => []IInv
<1>1. IInv /\ [Next]_vars => IInv'
  BY IInvStep
<1> QED BY <1>1, IInvInit, PTL DEF Spec

\* Every variable keeps its type.
THEOREM TypeCorrect == Spec => []TypeOK
BY IInvAlways, PTL DEF IInv

\* No goroutine goes on with a pointer, or a key, it did not find: neither Delete
\* nor OnChange nor Enqueue follows nil, in whatever order they interleave.
THEOREM NoNilDereferenceAlways == Spec => []NoNilDereference
BY IInvAlways, PTL DEF IInv

-----------------------------------------------------------------------------
(* What may happen to the register, whoever calls it: by itself, or in a   *)
(* system with a release controller and with Helm.                         *)

\* Nothing of the register or its goroutines changes.
RegisterRests ==
  UNCHANGED <<registerVars, keyByResource, store, dirtyKeys, client, handler, watcher, watched>>

\* Somebody else writes the cluster.
OthersWrite == RegisterRests /\ \E contents, owners : WriteCluster(contents, owners)

\* Only bounds are used.
Rests == RegisterRests /\ UNCHANGED clusterVars

Steps == Locker \/ Resync \/ (\E k \in Keys : Calls(k)) \/ OthersWrite \/ Rests

\* The register's own specification allows nothing else.
LEMMA NextIsStep == [Next]_vars => Steps
<1>1. ASSUME NEW r \in Resources, Drift(r)
      PROVE  OthersWrite
  BY <1>1 DEF Drift, OthersWrite, RegisterRests
<1>2. ASSUME NEW k \in Keys, Call(k)
      PROVE  Calls(k)
  BY <1>2 DEF Call, Calls
<1>3. UNCHANGED vars => Rests
  BY DEF vars, Rests, RegisterRests
<1> QED BY <1>1, <1>2, <1>3 DEF Next, Steps

-----------------------------------------------------------------------------
(* Tracked resources do not change hands.                                  *)

\* The step that NoStealing allows.
KeepsHands ==
  \A r \in Resources :
    keyByResource[r] # Nil /\ keyByResource'[r] # Nil => keyByResource'[r] = keyByResource[r]

\* Only unlock and lock write the entries.
LEMMA HandsStep ==
  ASSUME Steps
  PROVE  KeepsHands
<1>1. CASE UNCHANGED keyByResource
  BY <1>1 DEF KeepsHands
<1>2. ASSUME NEW k \in Keys, RemoveAllEntries(k)
      PROVE  KeepsHands
  BY <1>2 DEF RemoveAllEntries, WithoutEntries, KeepsHands
<1>3. ASSUME NEW k \in Keys, NEW os, LockEntries(k, os)
      PROVE  KeepsHands
  <2>1. CASE ~CanLock(k, os)
    BY <1>1, <1>3, <2>1 DEF LockEntries
  <2>2. CASE CanLock(k, os)
    <3>1. PICK gvks : keyByResource' = WithEntries(k, os, gvks)
      BY <1>3, <2>2 DEF LockEntries
    <3>2. ASSUME NEW r \in Resources, keyByResource[r] # Nil, keyByResource'[r] # Nil
          PROVE  keyByResource'[r] = keyByResource[r]
      <4>1. CASE r \in ResourcesOf[os] /\ GVKOf[r] \in gvks
        BY <2>2, <3>1, <3>2, <4>1 DEF CanLock, WithEntries
      <4>2. CASE ~(r \in ResourcesOf[os] /\ GVKOf[r] \in gvks)
        BY <3>1, <3>2, <4>2 DEF WithEntries, WithoutEntries
      <4> QED BY <4>1, <4>2
    <3> QED BY <3>2 DEF KeepsHands
  <2> QED BY <2>1, <2>2
<1>4. ASSUME NEW k \in Keys, Calls(k)
      PROVE  KeepsHands
  BY <1>1, <1>2, <1>4 DEF Calls, Set, Unlock, Delete
<1>5. ASSUME NEW k \in Keys, DeleteStep(k)
      PROVE  KeepsHands
  BY <1>1, <1>2, <1>5 DEF DeleteStep, DeleteGet, DeleteFromMap, DeleteObjectSet,
                          DeleteLocked, DeleteSend, RemoveUnlock, RemovePurge
<1>6. ASSUME NEW k \in Keys, HandlerStep(k)
      PROVE  KeepsHands
  BY <1>1, <1>2, <1>3, <1>6 DEF HandlerStep, HandlerBegin, HandlerRead, HandlerApply,
                                HandlerLockGet, HandlerLockAdd
<1>7. ASSUME NEW r \in Resources, WatcherStep(r)
      PROVE  KeepsHands
  BY <1>1, <1>7 DEF WatcherStep, Resolve, EnqueueGet, EnqueueCopy, EnqueueSet
<1>8. CASE Deliver \/ Resync \/ OthersWrite \/ Rests
  BY <1>1, <1>8 DEF Deliver, Resync, OthersWrite, Rests, RegisterRests
<1> QED BY <1>4, <1>5, <1>6, <1>7, <1>8 DEF Steps, Locker

\* A resource tracked for one key is never tracked for another without having been
\* given up, for all overlapping manifests (canLock, cache.go:339).
THEOREM NoStealingAlways == Spec => NoStealing
<1>1. [Next]_vars => [KeepsHands]_keyByResource
  BY HandsStep, NextIsStep
<1>2. Spec => [][KeepsHands]_keyByResource
  BY <1>1, PTL DEF Spec
<1> QED BY <1>2 DEF NoStealing, KeepsHands

-----------------------------------------------------------------------------
(* The informer follows the register.                                      *)

\* What the informer knows of k, or will know: the conjuncts of
\* InformerFollowsRegister for one key.
Follows(k) ==
  /\ \A i \in 1..Len(stateChanges) : NewestEvent(k, i) =>
       stateChanges[i].deleted \/ stateChanges[i].ptr = stateByKey[k]
  /\ (\A i \in 1..Len(stateChanges) : stateChanges[i].key # k) =>
       store[k] \in {Nil, stateByKey[k]}

Deleting(k) == client[k].pc \in {"delete.os", "delete.locked", "delete.send"}

\* After an event for k was sent, k follows if the event says what is registered.
LEMMA SentFollows ==
  ASSUME TypeOK, NEW k \in Keys, NEW e, e.key = k,
         stateChanges' = Append(stateChanges, e),
         e.deleted \/ e.ptr = stateByKey'[k]
  PROVE  Follows(k)'
<1>1. /\ Len(stateChanges) \in Nat
      /\ Len(stateChanges') = Len(stateChanges) + 1
      /\ stateChanges'[Len(stateChanges) + 1] = e
      /\ \A i \in 1..Len(stateChanges) : stateChanges'[i] = stateChanges[i]
  BY DEF TypeOK
<1>2. ASSUME NEW i \in 1..Len(stateChanges'), NewestEvent(k, i)'
      PROVE  i = Len(stateChanges) + 1
  BY <1>1, <1>2 DEF NewestEvent
<1>3. ~\A i \in 1..Len(stateChanges') : stateChanges'[i].key # k
  BY <1>1
<1> QED BY <1>1, <1>2, <1>3 DEF Follows

\* An event for another key changes nothing for j.
LEMMA SentKeeps ==
  ASSUME TypeOK, NEW j \in Keys, NEW e, e.key # j, Follows(j),
         stateChanges' = Append(stateChanges, e),
         stateByKey'[j] = stateByKey[j], store'[j] = store[j]
  PROVE  Follows(j)'
<1>1. /\ Len(stateChanges) \in Nat
      /\ Len(stateChanges') = Len(stateChanges) + 1
      /\ stateChanges'[Len(stateChanges) + 1] = e
      /\ \A i \in 1..Len(stateChanges) : stateChanges'[i] = stateChanges[i]
  BY DEF TypeOK
<1>2. ASSUME NEW i \in 1..Len(stateChanges'), NewestEvent(j, i)'
      PROVE  i \in 1..Len(stateChanges) /\ NewestEvent(j, i)
  BY <1>1, <1>2 DEF NewestEvent
<1>3. (\A i \in 1..Len(stateChanges') : stateChanges'[i].key # j)
        => \A i \in 1..Len(stateChanges) : stateChanges[i].key # j
  BY <1>1
<1> QED BY <1>1, <1>2, <1>3 DEF Follows

\* When the first event is delivered, the store takes its place.
LEMMA DeliveredFollows ==
  ASSUME TypeOK, NEW j \in Keys, Follows(j), Deliver
  PROVE  Follows(j)'
<1> DEFINE e == stateChanges[1]
<1>1. /\ Len(stateChanges) \in Nat \ {0}
      /\ Len(stateChanges') = Len(stateChanges) - 1
      /\ Head(stateChanges) = e /\ e \in Event
      /\ \A i \in 1..Len(stateChanges') : stateChanges'[i] = stateChanges[i + 1]
  BY DEF Deliver, TypeOK
<1>2. /\ stateByKey' = stateByKey
      /\ store' = [store EXCEPT ![e.key] = IF e.deleted THEN Nil ELSE e.ptr]
  BY <1>1 DEF Deliver
<1> HIDE DEF e
<1>3. ASSUME NEW i \in 1..Len(stateChanges'), NewestEvent(j, i)'
      PROVE  i + 1 \in 1..Len(stateChanges) /\ NewestEvent(j, i + 1)
  <2>1. i + 1 \in 1..Len(stateChanges) /\ stateChanges[i + 1].key = j
    BY <1>1, <1>3 DEF NewestEvent
  <2>2. ASSUME NEW n \in 1..Len(stateChanges), stateChanges[n].key = j
        PROVE  n <= i + 1
    <3>1. CASE n = 1
      BY <1>1, <3>1
    <3>2. CASE n # 1
      <4>1. n - 1 \in 1..Len(stateChanges') /\ stateChanges'[n - 1] = stateChanges[n]
        BY <1>1, <3>2
      <4>2. n - 1 <= i
        BY <1>3, <2>2, <4>1 DEF NewestEvent
      <4> QED BY <1>1, <4>2
    <3> QED BY <3>1, <3>2
  <2> QED BY <2>1, <2>2 DEF NewestEvent
<1>4. ASSUME \A i \in 1..Len(stateChanges') : stateChanges'[i].key # j
      PROVE  store'[j] \in {Nil, stateByKey[j]}
  <2>1. \A n \in 1..Len(stateChanges) : n # 1 => stateChanges[n].key # j
    <3>1. ASSUME NEW n \in 1..Len(stateChanges), n # 1
          PROVE  stateChanges[n].key # j
      <4>1. n - 1 \in 1..Len(stateChanges') /\ stateChanges'[n - 1] = stateChanges[n]
        BY <1>1, <3>1
      <4> QED BY <1>4, <4>1
    <3> QED BY <3>1
  <2>2. CASE e.key = j
    <3>1. 1 \in 1..Len(stateChanges) /\ NewestEvent(j, 1)
      BY <1>1, <2>1, <2>2 DEF NewestEvent, e
    <3>2. e.deleted \/ e.ptr = stateByKey[j]
      BY <3>1 DEF Follows, e
    <3> QED BY <1>2, <2>2, <3>2 DEF TypeOK
  <2>3. CASE e.key # j
    <3>1. \A n \in 1..Len(stateChanges) : stateChanges[n].key # j
      BY <2>1, <2>3 DEF e
    <3>2. store[j] \in {Nil, stateByKey[j]}
      BY <3>1 DEF Follows
    <3> QED BY <1>2, <2>3, <3>2 DEF TypeOK
  <2> QED BY <2>2, <2>3
<1> QED BY <1>1, <1>2, <1>3, <1>4 DEF Follows

\* A stored state is announced.
LEMMA StoreStateFollows ==
  ASSUME TypeOK, InformerFollowsRegister, NEW k \in Keys, NEW s, StoreState(k, s),
         UNCHANGED <<client, store>>
  PROVE  InformerFollowsRegister'
<1> DEFINE e == [key |-> k, ptr |-> FreshPtr, deleted |-> FALSE]
<1>1. stateChanges' = Append(stateChanges, e) /\ stateByKey' = [stateByKey EXCEPT ![k] = FreshPtr]
  BY DEF StoreState
<1>2. stateByKey'[k] = FreshPtr /\ \A j \in Keys \ {k} : stateByKey'[j] = stateByKey[j]
  BY <1>1 DEF TypeOK
<1>3. Follows(k)'
  BY <1>1, <1>2, SentFollows
<1>4. ASSUME NEW j \in Keys, j # k
      PROVE  Deleting(j)' \/ Follows(j)'
  <2>1. Deleting(j) \/ Follows(j)
    BY DEF InformerFollowsRegister, Deleting, Follows
  <2>2. CASE Deleting(j)
    BY <2>2 DEF Deleting
  <2>3. CASE Follows(j)
    <3>1. e.key # j /\ stateByKey'[j] = stateByKey[j] /\ store'[j] = store[j]
      BY <1>2, <1>4
    <3> HIDE DEF e
    <3> QED BY <1>1, <2>3, <3>1, SentKeeps
  <2> QED BY <2>1, <2>2, <2>3
<1> HIDE DEF e
<1> QED BY <1>3, <1>4 DEF InformerFollowsRegister, Deleting, Follows

\* No step lets the informer fall behind for good.
LEMMA FollowsStep ==
  ASSUME IInv, InformerFollowsRegister, Steps
  PROVE  InformerFollowsRegister'
<1> USE DEF IInv
<1>0. /\ \A j \in Keys : Deleting(j) \/ Follows(j)
      /\ client \in [Keys -> Client]
  BY DEF InformerFollowsRegister, Deleting, Follows, TypeOK, Client
<1>1. ASSUME UNCHANGED <<stateByKey, stateChanges, store>>,
             \A j \in Keys : Deleting(j) => Deleting(j)'
      PROVE  InformerFollowsRegister'
  <2>1. \A j \in Keys : Follows(j) => Follows(j)'
    BY <1>1 DEF Follows, NewestEvent
  <2>2. \A j \in Keys : Deleting(j)' \/ Follows(j)'
    BY <1>0, <1>1, <2>1
  <2> QED BY <2>2 DEF InformerFollowsRegister, Deleting, Follows
<1>2. ASSUME UNCHANGED <<stateByKey, stateChanges, store, client>>
      PROVE  InformerFollowsRegister'
  BY <1>1, <1>2 DEF Deleting
<1>3. ASSUME NEW k \in Keys, Calls(k)
      PROVE  InformerFollowsRegister'
  <2>1. CASE \E os \in ObjectSets \cup {Nil} : Set(k, os)
    BY <2>1, StoreStateFollows DEF Set
  <2>2. CASE Unlock(k)
    BY <1>2, <2>2 DEF Unlock, registerVars
  <2>3. CASE \E purge \in BOOLEAN : Delete(k, purge)
    <3>1. UNCHANGED <<stateByKey, stateChanges, store>>
      BY <2>3 DEF Delete, registerVars
    <3>2. \A j \in Keys : Deleting(j) => Deleting(j)'
      BY <1>0, <2>3 DEF Delete, Deleting
    <3> QED BY <1>1, <3>1, <3>2
  <2> QED BY <1>3, <2>1, <2>2, <2>3 DEF Calls
<1>4. ASSUME NEW k \in Keys, DeleteStep(k)
      PROVE  InformerFollowsRegister'
  <2>1. CASE DeleteGet(k) \/ RemoveUnlock(k) \/ RemovePurge(k)
    <3>1. UNCHANGED <<stateByKey, stateChanges, store>>
      BY <2>1 DEF DeleteGet, RemoveUnlock, RemovePurge, registerVars
    <3>2. \A j \in Keys : Deleting(j) => Deleting(j)'
      BY <1>0, <2>1 DEF DeleteGet, RemoveUnlock, RemovePurge, Deleting
    <3> QED BY <1>1, <3>1, <3>2
  <2>2. CASE DeleteFromMap(k)
    <3>1. Deleting(k)' /\ \A j \in Keys \ {k} : Deleting(j) => Deleting(j)'
      BY <1>0, <2>2 DEF DeleteFromMap, Deleting, Client
    <3>2. \A j \in Keys \ {k} : stateByKey'[j] = stateByKey[j]
      BY <2>2 DEF DeleteFromMap, TypeOK
    <3>3. UNCHANGED <<stateChanges, store>>
      BY <2>2 DEF DeleteFromMap
    <3>4. \A j \in Keys \ {k} : Follows(j) => Follows(j)'
      BY <3>2, <3>3 DEF Follows, NewestEvent
    <3>5. \A j \in Keys : Deleting(j)' \/ Follows(j)'
      BY <1>0, <3>1, <3>4
    <3> QED BY <3>5 DEF InformerFollowsRegister, Deleting, Follows
  <2>3. CASE DeleteObjectSet(k) \/ DeleteLocked(k)
    <3>1. UNCHANGED <<stateByKey, stateChanges, store>>
      BY <2>3 DEF DeleteObjectSet, DeleteLocked
    <3>2. \A j \in Keys : Deleting(j) => Deleting(j)'
      BY <1>0, <2>3 DEF DeleteObjectSet, DeleteLocked, Deleting, Client
    <3> QED BY <1>1, <3>1, <3>2
  <2>4. CASE DeleteSend(k)
    <3> DEFINE e == [key |-> k, ptr |-> client[k].ptr, deleted |-> TRUE]
    <3>1. stateChanges' = Append(stateChanges, e) /\ UNCHANGED <<stateByKey, store>>
      BY <2>4 DEF DeleteSend
    <3>2. e.key = k /\ e.deleted
      OBVIOUS
    <3> HIDE DEF e
    <3>3. Follows(k)'
      BY <3>1, <3>2, SentFollows
    <3>4. \A j \in Keys \ {k} : Deleting(j) => Deleting(j)'
      BY <1>0, <2>4 DEF DeleteSend, Deleting
    <3>5. \A j \in Keys \ {k} : Follows(j) => Follows(j)'
      BY <3>1, <3>2, SentKeeps
    <3>6. \A j \in Keys : Deleting(j)' \/ Follows(j)'
      BY <1>0, <3>3, <3>4, <3>5
    <3> QED BY <3>6 DEF InformerFollowsRegister, Deleting, Follows
  <2> QED BY <1>4, <2>1, <2>2, <2>3, <2>4 DEF DeleteStep
<1>5. ASSUME NEW k \in Keys, HandlerStep(k)
      PROVE  InformerFollowsRegister'
  BY <1>2, <1>5 DEF HandlerStep, HandlerBegin, HandlerRead, HandlerApply, HandlerLockGet,
                    HandlerLockAdd, registerVars
<1>6. ASSUME NEW r \in Resources, WatcherStep(r)
      PROVE  InformerFollowsRegister'
  <2>1. CASE Resolve(r) \/ EnqueueGet(r) \/ EnqueueCopy(r)
    BY <1>2, <2>1 DEF Resolve, EnqueueGet, EnqueueCopy, registerVars
  <2>2. CASE EnqueueSet(r)
    <3>1. watcher[r].key \in Keys
      BY <2>2 DEF EnqueueSet, NoNilDereference, TypeOK
    <3> QED BY <2>2, <3>1, StoreStateFollows DEF EnqueueSet
  <2> QED BY <1>6, <2>1, <2>2 DEF WatcherStep
<1>7. CASE Deliver
  <2>1. \A j \in Keys : Follows(j) => Follows(j)'
    BY <1>7, DeliveredFollows
  <2>2. \A j \in Keys : Deleting(j) => Deleting(j)'
    BY <1>7 DEF Deliver, Deleting
  <2>3. \A j \in Keys : Deleting(j)' \/ Follows(j)'
    BY <1>0, <2>1, <2>2
  <2> QED BY <2>3 DEF InformerFollowsRegister, Deleting, Follows
<1>8. CASE Resync \/ OthersWrite \/ Rests
  BY <1>2, <1>8 DEF Resync, OthersWrite, Rests, RegisterRests, registerVars
<1> QED BY <1>3, <1>4, <1>5, <1>6, <1>7, <1>8 DEF Steps, Locker

\* Whatever Set, Delete and Enqueue do at the same time, the informer ends up with
\* the registered state or none, unless a Delete is about to send its event.
THEOREM InformerFollowsAlways == Spec => []InformerFollowsRegister
<1>1. Init => InformerFollowsRegister
  <2> SUFFICES ASSUME Init, NEW k \in Keys
               PROVE  Follows(k)
    BY DEF InformerFollowsRegister, Follows
  <2>1. stateChanges = <<>> /\ store[k] = Nil
    BY DEF Init, RegisterInit
  <2>2. 1..Len(stateChanges) = {}
    BY <2>1
  <2> QED BY <2>1, <2>2 DEF Follows
<1>2. IInv /\ InformerFollowsRegister /\ [Next]_vars => InformerFollowsRegister'
  BY FollowsStep, NextIsStep
<1> QED BY <1>1, <1>2, IInvAlways, PTL DEF Spec

-----------------------------------------------------------------------------
(* No change of a tracked resource is lost.                                *)

\* OnChange unlocks a key before it applies it (handler.go:62), and only its Lock
\* tracks the resources again.
UnlockedWhileApplied(k) ==
  handler[k].pc # "idle" => \A r \in Resources : keyByResource[r] # k

\* OnChange goes on with what is enforced, or the key is handled once more.
AppliesEnforced(k) ==
  Enforced(k) # Nil /\ ~Woken(k) =>
    /\ handler[k].pc = "apply.read" => handler[k].ptr = store[k]
    /\ handler[k].pc = "apply.run" => handler[k].os = Enforced(k)
    /\ handler[k].pc \in {"lock.get", "lock.add"} /\ ~handler[k].err =>
         \A r \in Desired(Enforced(k)) : Exact(k, r)

\* TrackedChangesAreReverted, for one key.
TrackedIsExact(k) ==
  handler[k].pc = "idle" =>
    \A r \in Desired(Enforced(k)) :
      keyByResource[r] = k => Exact(k, r) \/ Woken(k) \/ r \in dirtyResources

HistInv(k) == UnlockedWhileApplied(k) /\ AppliesEnforced(k) /\ TrackedIsExact(k)

EventFor(k) == \E i \in 1..Len(stateChanges) : stateChanges[i].key = k

EnqueueFor(k) == \E r \in Resources : watcher[r].pc # "idle" /\ watcher[r].key = k

\* The channel is a queue.
LEMMA ChannelStep ==
  ASSUME Steps
  PROVE  \/ UNCHANGED stateChanges
         \/ \E e : stateChanges' = Append(stateChanges, e)
         \/ Deliver
<1>1. ASSUME NEW k \in Keys, Calls(k)
      PROVE  UNCHANGED stateChanges \/ \E e : stateChanges' = Append(stateChanges, e)
  BY <1>1 DEF Calls, Set, Unlock, Delete, StoreState, registerVars
<1>2. ASSUME NEW k \in Keys, DeleteStep(k)
      PROVE  UNCHANGED stateChanges \/ \E e : stateChanges' = Append(stateChanges, e)
  BY <1>2 DEF DeleteStep, DeleteGet, DeleteFromMap, DeleteObjectSet, DeleteLocked,
              DeleteSend, RemoveUnlock, RemovePurge, registerVars
<1>3. ASSUME NEW k \in Keys, HandlerStep(k)
      PROVE  UNCHANGED stateChanges
  BY <1>3 DEF HandlerStep, HandlerBegin, HandlerRead, HandlerApply, HandlerLockGet,
              HandlerLockAdd, registerVars
<1>4. ASSUME NEW r \in Resources, WatcherStep(r)
      PROVE  UNCHANGED stateChanges \/ \E e : stateChanges' = Append(stateChanges, e)
  BY <1>4 DEF WatcherStep, Resolve, EnqueueGet, EnqueueCopy, EnqueueSet, StoreState,
              registerVars
<1>5. CASE Resync \/ OthersWrite \/ Rests
  BY <1>5 DEF Resync, OthersWrite, Rests, RegisterRests, registerVars
<1> QED BY <1>1, <1>2, <1>3, <1>4, <1>5 DEF Steps, Locker

\* An event stays in the channel until it is delivered and its key is queued.
LEMMA EventLasts ==
  ASSUME TypeOK, Steps, NEW k \in Keys, EventFor(k)
  PROVE  EventFor(k)' \/ k \in dirtyKeys'
<1>1. PICK i \in 1..Len(stateChanges) : stateChanges[i].key = k
  BY DEF EventFor
<1>2. Len(stateChanges) \in Nat
  BY DEF TypeOK
<1>3. CASE UNCHANGED stateChanges
  BY <1>1, <1>3 DEF EventFor
<1>4. CASE \E e : stateChanges' = Append(stateChanges, e)
  <2>1. PICK e : stateChanges' = Append(stateChanges, e)
    BY <1>4
  <2>2. Len(stateChanges') = Len(stateChanges) + 1 /\ stateChanges'[i] = stateChanges[i]
    BY <1>1, <1>2, <2>1 DEF TypeOK
  <2> QED BY <1>1, <1>2, <2>2 DEF EventFor
<1>5. CASE Deliver
  <2>1. /\ Head(stateChanges) = stateChanges[1]
        /\ Len(stateChanges') = Len(stateChanges) - 1
        /\ \A n \in 1..Len(stateChanges') : stateChanges'[n] = stateChanges[n + 1]
    BY <1>5 DEF Deliver, TypeOK
  <2>2. CASE i = 1
    BY <1>1, <1>5, <2>1, <2>2 DEF Deliver
  <2>3. CASE i # 1
    <3>1. i - 1 \in 1..Len(stateChanges') /\ stateChanges'[i - 1] = stateChanges[i]
      BY <1>1, <1>2, <2>1, <2>3
    <3> QED BY <1>1, <3>1 DEF EventFor
  <2> QED BY <2>2, <2>3
<1> QED BY <1>3, <1>4, <1>5, ChannelStep

\* An Enqueue that is under way ends with an event.
LEMMA EnqueueLasts ==
  ASSUME TypeOK, Steps, NEW k \in Keys, EnqueueFor(k)
  PROVE  EnqueueFor(k)' \/ EventFor(k)'
<1>0. watcher \in [Resources -> Watcher]
  BY DEF TypeOK, Watcher
<1>1. PICK r \in Resources : watcher[r].pc # "idle" /\ watcher[r].key = k
  BY DEF EnqueueFor
<1>2. CASE watcher'[r] = watcher[r]
  BY <1>1, <1>2 DEF EnqueueFor
<1>3. CASE WatcherStep(r)
  <2>1. CASE Resolve(r)
    BY <1>1, <2>1 DEF Resolve
  <2>2. CASE EnqueueGet(r) \/ EnqueueCopy(r)
    <3>1. watcher'[r].pc # "idle" /\ watcher'[r].key = k
      BY <1>0, <1>1, <2>2 DEF EnqueueGet, EnqueueCopy, Watcher
    <3> QED BY <3>1 DEF EnqueueFor
  <2>3. CASE EnqueueSet(r)
    <3> DEFINE e == [key |-> k, ptr |-> FreshPtr, deleted |-> FALSE]
    <3>1. stateChanges' = Append(stateChanges, e)
      BY <1>1, <2>3 DEF EnqueueSet, StoreState
    <3>2. e.key = k
      OBVIOUS
    <3> HIDE DEF e
    <3>3. Len(stateChanges) \in Nat /\ Len(stateChanges') = Len(stateChanges) + 1
          /\ stateChanges'[Len(stateChanges) + 1] = e
      BY <3>1 DEF TypeOK
    <3> QED BY <3>2, <3>3 DEF EventFor
  <2> QED BY <1>3, <2>1, <2>2, <2>3 DEF WatcherStep
<1>4. CASE ~WatcherStep(r)
  <2>1. ASSUME NEW q \in Resources, q # r, WatcherStep(q)
        PROVE  watcher'[r] = watcher[r]
    BY <1>0, <2>1 DEF WatcherStep, Resolve, EnqueueGet, EnqueueCopy, EnqueueSet
  <2>2. ASSUME NEW j \in Keys, Calls(j) \/ DeleteStep(j) \/ HandlerStep(j)
        PROVE  UNCHANGED watcher
    <3>1. CASE Calls(j)
      BY <3>1, CallGoroutines DEF Calls
    <3>2. CASE DeleteStep(j)
      BY <3>2 DEF DeleteStep, DeleteGet, DeleteFromMap, DeleteObjectSet, DeleteLocked,
                  DeleteSend, RemoveUnlock, RemovePurge
    <3>3. CASE HandlerStep(j)
      BY <3>3 DEF HandlerStep, HandlerBegin, HandlerRead, HandlerApply, HandlerLockGet,
                  HandlerLockAdd
    <3> QED BY <2>2, <3>1, <3>2, <3>3
  <2>3. CASE Deliver \/ Resync \/ OthersWrite \/ Rests
    BY <1>2, <2>3 DEF Deliver, Resync, OthersWrite, Rests, RegisterRests
  <2> QED BY <1>2, <1>4, <2>1, <2>2, <2>3 DEF Steps, Locker
<1> QED BY <1>3, <1>4

\* Who is to be handled stays so until the controller takes the key.
LEMMA WokenLasts ==
  ASSUME TypeOK, Steps, NEW k \in Keys, Woken(k), ~HandlerBegin(k)
  PROVE  Woken(k)'
<1>0. Woken(k)' <=> k \in dirtyKeys' \/ EventFor(k)' \/ EnqueueFor(k)'
  BY DEF Woken, EventFor, EnqueueFor
<1>1. CASE k \in dirtyKeys
  <2>1. ASSUME NEW j \in Keys, HandlerStep(j)
        PROVE  k \in dirtyKeys'
    <3>1. j = k => ~HandlerBegin(j)
      OBVIOUS
    <3> QED BY <1>1, <2>1, <3>1 DEF HandlerStep, HandlerBegin, HandlerRead, HandlerApply,
                                    HandlerLockGet, HandlerLockAdd, HandlerReturn
  <2>2. ASSUME NEW j \in Keys, Calls(j) \/ DeleteStep(j)
        PROVE  UNCHANGED dirtyKeys
    BY <2>2 DEF Calls, Set, Unlock, Delete, DeleteStep, DeleteGet, DeleteFromMap,
                DeleteObjectSet, DeleteLocked, DeleteSend, RemoveUnlock, RemovePurge
  <2>3. ASSUME NEW r \in Resources, WatcherStep(r)
        PROVE  UNCHANGED dirtyKeys
    BY <2>3 DEF WatcherStep, Resolve, EnqueueGet, EnqueueCopy, EnqueueSet
  <2>4. CASE Deliver
    BY <1>0, <1>1, <2>4 DEF Deliver
  <2>5. CASE Resync \/ OthersWrite \/ Rests
    BY <1>0, <1>1, <2>5 DEF Resync, OthersWrite, Rests, RegisterRests
  <2> QED BY <1>0, <1>1, <2>1, <2>2, <2>3, <2>4, <2>5 DEF Steps, Locker
<1>2. CASE EventFor(k)
  BY <1>0, <1>2, EventLasts
<1>3. CASE EnqueueFor(k)
  BY <1>0, <1>3, EnqueueLasts
<1> QED BY <1>1, <1>2, <1>3 DEF Woken, EventFor, EnqueueFor

\* What is in the heap where somebody still points to stays, but for what a Delete
\* clears.
LEMMA HeapStep ==
  ASSUME IInv, Steps, NEW p \in Reachable \cap Ptrs
  PROVE  \/ heap'[p] = heap[p]
         \/ heap'[p].os = Nil
         \/ ~heap'[p].locked
<1> USE DEF IInv
<1>1. CASE UNCHANGED heap
  BY <1>1
<1>2. ASSUME NEW k, NEW s, StoreState(k, s)
      PROVE  heap'[p] = heap[p]
  <2>1. FreshPtr \notin Reachable
    BY <1>2 DEF StoreState, CanAllocate, FreshPtr
  <2> QED BY <1>2, <2>1 DEF StoreState
<1>3. ASSUME NEW k \in Keys, Calls(k)
      PROVE  heap'[p] = heap[p]
  BY <1>2, <1>3 DEF Calls, Set, Unlock, Delete, registerVars
<1>4. ASSUME NEW k \in Keys, DeleteStep(k)
      PROVE  heap'[p] = heap[p] \/ heap'[p].os = Nil \/ ~heap'[p].locked
  <2>0. heap \in [Ptrs -> State]
    BY DEF TypeOK
  <2>1. CASE DeleteObjectSet(k)
    <3>1. heap' = [heap EXCEPT ![client[k].ptr] = [heap[client[k].ptr] EXCEPT !.os = Nil]]
      BY <2>1 DEF DeleteObjectSet
    <3>2. client[k].ptr = p => heap'[p].os = Nil
      BY <2>0, <3>1 DEF State
    <3> QED BY <2>0, <3>1, <3>2
  <2>2. CASE DeleteLocked(k)
    <3>1. heap' = [heap EXCEPT ![client[k].ptr] = [heap[client[k].ptr] EXCEPT !.locked = FALSE]]
      BY <2>2 DEF DeleteLocked
    <3>2. client[k].ptr = p => ~heap'[p].locked
      BY <2>0, <3>1 DEF State
    <3> QED BY <2>0, <3>1, <3>2
  <2> QED BY <1>1, <1>4, <2>1, <2>2 DEF DeleteStep, DeleteGet, DeleteFromMap, DeleteSend,
                                        RemoveUnlock, RemovePurge, registerVars
<1>5. ASSUME NEW k \in Keys, HandlerStep(k)
      PROVE  UNCHANGED heap
  BY <1>5 DEF HandlerStep, HandlerBegin, HandlerRead, HandlerApply, HandlerLockGet,
              HandlerLockAdd, registerVars
<1>6. ASSUME NEW r \in Resources, WatcherStep(r)
      PROVE  heap'[p] = heap[p]
  BY <1>2, <1>6 DEF WatcherStep, Resolve, EnqueueGet, EnqueueCopy, EnqueueSet, registerVars
<1>7. CASE Deliver \/ Resync \/ OthersWrite \/ Rests
  BY <1>7 DEF Deliver, Resync, OthersWrite, Rests, RegisterRests, registerVars
<1> QED BY <1>3, <1>4, <1>5, <1>6, <1>7 DEF Steps, Locker

\* The informer's store only follows an event, and queues the key.
LEMMA StoreStep ==
  ASSUME TypeOK, Steps, NEW k \in Keys
  PROVE  store'[k] = store[k] \/ k \in dirtyKeys'
<1>1. CASE UNCHANGED store
  BY <1>1
<1>2. CASE Deliver
  BY <1>2 DEF Deliver, TypeOK
<1>3. ASSUME NEW j \in Keys, Calls(j) \/ DeleteStep(j) \/ HandlerStep(j)
      PROVE  UNCHANGED store
  <2>1. CASE Calls(j)
    BY <2>1 DEF Calls, Set, Unlock, Delete
  <2>2. CASE DeleteStep(j)
    BY <2>2 DEF DeleteStep, DeleteGet, DeleteFromMap, DeleteObjectSet, DeleteLocked,
                DeleteSend, RemoveUnlock, RemovePurge
  <2>3. CASE HandlerStep(j)
    BY <2>3 DEF HandlerStep, HandlerBegin, HandlerRead, HandlerApply, HandlerLockGet,
                HandlerLockAdd
  <2> QED BY <1>3, <2>1, <2>2, <2>3
<1>4. ASSUME NEW r \in Resources, WatcherStep(r)
      PROVE  UNCHANGED store
  BY <1>4 DEF WatcherStep, Resolve, EnqueueGet, EnqueueCopy, EnqueueSet
<1>5. CASE Resync \/ OthersWrite \/ Rests
  BY <1>5 DEF Resync, OthersWrite, Rests, RegisterRests
<1> QED BY <1>1, <1>2, <1>3, <1>4, <1>5 DEF Steps, Locker

\* What is enforced for a key changes only to nothing, unless the key is queued.
LEMMA EnforcedStep ==
  ASSUME IInv, Steps, NEW k \in Keys
  PROVE  \/ Enforced(k)' = Nil
         \/ Woken(k)'
         \/ Enforced(k)' = Enforced(k) /\ store'[k] = store[k]
<1>1. CASE k \in dirtyKeys'
  BY <1>1 DEF Woken
<1>2. CASE store'[k] = store[k] /\ store[k] = Nil
  BY <1>2 DEF Enforced
<1>3. CASE store'[k] = store[k] /\ store[k] # Nil
  <2>1. store[k] \in Reachable \cap Ptrs
    BY <1>3 DEF IInv, TypeOK, Reachable
  <2>2. \/ heap'[store[k]] = heap[store[k]]
        \/ heap'[store[k]].os = Nil
        \/ ~heap'[store[k]].locked
    BY <2>1, HeapStep
  <2> QED BY <1>3, <2>2 DEF Enforced
<1> QED BY <1>1, <1>2, <1>3, StoreStep DEF IInv

\* Whoever is told of a watched kind is told of a changed resource.
LEMMA ChangeIsTold ==
  ASSUME TypeOK, Steps, NEW r \in Resources, cluster'[r] # cluster[r], GVKOf[r] \in watched
  PROVE  r \in dirtyResources'
<1>1. cluster' # cluster
  OBVIOUS
<1>2. ASSUME NEW contents, NEW owners, WriteCluster(contents, owners)
      PROVE  r \in dirtyResources'
  BY <1>2 DEF WriteCluster
<1>3. ASSUME NEW k, NEW os, ApplyAll(k, os) \/ ApplyPart(k, os)
      PROVE  r \in dirtyResources'
  BY <1>2, <1>3 DEF ApplyAll, ApplyPart, ApplySome
<1>4. ASSUME NEW k \in Keys, Calls(k)
      PROVE  UNCHANGED cluster
  BY <1>4 DEF Calls, Set, Unlock, Delete, clusterVars
<1>5. ASSUME NEW k \in Keys, DeleteStep(k)
      PROVE  r \in dirtyResources'
  BY <1>1, <1>3, <1>5 DEF DeleteStep, DeleteGet, DeleteFromMap, DeleteObjectSet,
                          DeleteLocked, DeleteSend, RemoveUnlock, RemovePurge, clusterVars
<1>6. ASSUME NEW k \in Keys, HandlerStep(k)
      PROVE  r \in dirtyResources'
  BY <1>1, <1>3, <1>6 DEF HandlerStep, HandlerBegin, HandlerRead, HandlerApply,
                          HandlerLockGet, HandlerLockAdd, clusterVars
<1>7. ASSUME NEW q \in Resources, WatcherStep(q)
      PROVE  UNCHANGED cluster
  BY <1>7 DEF WatcherStep, Resolve, EnqueueGet, EnqueueCopy, EnqueueSet, clusterVars
<1>8. CASE OthersWrite
  BY <1>2, <1>8 DEF OthersWrite
<1>9. CASE Deliver \/ Resync \/ Rests
  BY <1>1, <1>9 DEF Deliver, Resync, Rests, clusterVars
<1> QED BY <1>1, <1>4, <1>5, <1>6, <1>7, <1>8, <1>9 DEF Steps, Locker

\* A changed resource that is tracked is resolved to its key.
LEMMA ToldIsResolved ==
  ASSUME TypeOK, Steps, NEW k \in Keys, NEW r \in Resources,
         r \in dirtyResources, keyByResource[r] = k
  PROVE  r \in dirtyResources' \/ Woken(k)'
<1>1. CASE dirtyResources \subseteq dirtyResources'
  BY <1>1
<1>2. ASSUME NEW contents, NEW owners, WriteCluster(contents, owners)
      PROVE  dirtyResources \subseteq dirtyResources'
  BY <1>2 DEF WriteCluster
<1>3. ASSUME NEW j, NEW os, ApplyAll(j, os) \/ ApplyPart(j, os)
      PROVE  dirtyResources \subseteq dirtyResources'
  BY <1>2, <1>3 DEF ApplyAll, ApplyPart, ApplySome
<1>4. ASSUME NEW j \in Keys, Calls(j) \/ DeleteStep(j)
      PROVE  dirtyResources \subseteq dirtyResources'
  BY <1>3, <1>4 DEF Calls, Set, Unlock, Delete, DeleteStep, DeleteGet, DeleteFromMap,
                    DeleteObjectSet, DeleteLocked, DeleteSend, RemoveUnlock, RemovePurge,
                    clusterVars
<1>5. ASSUME NEW j \in Keys, HandlerStep(j)
      PROVE  dirtyResources \subseteq dirtyResources'
  BY <1>3, <1>5 DEF HandlerStep, HandlerBegin, HandlerRead, HandlerApply, HandlerLockGet,
                    HandlerLockAdd, LockEntries, StartWatching, clusterVars
<1>6. ASSUME NEW q \in Resources, WatcherStep(q)
      PROVE  r \in dirtyResources' \/ Woken(k)'
  <2>1. CASE Resolve(q) /\ q = r
    <3>1. k # Nil
      BY ConstantsAssumption
    <3>2. watcher' = [watcher EXCEPT ![r] = [IdleWatcher EXCEPT !.pc = "enqueue.get", !.key = k]]
      BY <2>1, <3>1 DEF Resolve
    <3>3. watcher'[r].pc # "idle" /\ watcher'[r].key = k
      BY <3>2 DEF TypeOK, IdleWatcher
    <3> QED BY <3>3 DEF Woken
  <2>2. CASE ~(Resolve(q) /\ q = r)
    BY <1>6, <2>2 DEF WatcherStep, Resolve, EnqueueGet, EnqueueCopy, EnqueueSet, clusterVars
  <2> QED BY <2>1, <2>2
<1>7. CASE OthersWrite \/ Deliver \/ Resync \/ Rests
  BY <1>2, <1>7 DEF Deliver, Resync, OthersWrite, Rests, RegisterRests, clusterVars
<1> QED BY <1>1, <1>4, <1>5, <1>6, <1>7 DEF Steps, Locker

\* A step that is none of OnChange for k neither moves its handler nor tracks anything
\* for k.
LEMMA OthersTrackNothing ==
  ASSUME TypeOK, Steps, NEW k \in Keys, ~HandlerStep(k)
  PROVE  /\ handler'[k] = handler[k]
         /\ \A r \in Resources : keyByResource'[r] = k => keyByResource[r] = k
<1>1. CASE UNCHANGED <<handler, keyByResource>>
  BY <1>1
<1>2. ASSUME NEW j \in Keys, RemoveAllEntries(j)
      PROVE  \A r \in Resources : keyByResource'[r] = k => keyByResource[r] = k
  BY <1>2, ConstantsAssumption DEF RemoveAllEntries, WithoutEntries
<1>3. ASSUME NEW j \in Keys, Calls(j) \/ DeleteStep(j)
      PROVE  /\ UNCHANGED handler
             /\ UNCHANGED keyByResource \/ RemoveAllEntries(j)
  BY <1>3 DEF Calls, Set, Unlock, Delete, DeleteStep, DeleteGet, DeleteFromMap,
              DeleteObjectSet, DeleteLocked, DeleteSend, RemoveUnlock, RemovePurge
<1>4. ASSUME NEW j \in Keys, HandlerStep(j)
      PROVE  /\ handler'[k] = handler[k]
             /\ \A r \in Resources : keyByResource'[r] = k => keyByResource[r] = k
  <2>1. j # k
    BY <1>4
  <2>2. handler'[k] = handler[k]
    BY <1>4, <2>1 DEF HandlerStep, HandlerBegin, HandlerRead, HandlerApply, HandlerLockGet,
                      HandlerLockAdd, HandlerReturn, TypeOK
  <2>3. \/ UNCHANGED keyByResource
        \/ RemoveAllEntries(j)
        \/ \E os, gvks : keyByResource' = WithEntries(j, os, gvks)
    BY <1>4 DEF HandlerStep, HandlerBegin, HandlerRead, HandlerApply, HandlerLockGet,
                HandlerLockAdd, LockEntries
  <2>4. ASSUME NEW os, NEW gvks, keyByResource' = WithEntries(j, os, gvks)
        PROVE  \A r \in Resources : keyByResource'[r] = k => keyByResource[r] = k
    BY <2>1, <2>4, ConstantsAssumption DEF WithEntries, WithoutEntries
  <2> QED BY <1>2, <2>2, <2>3, <2>4
<1>5. ASSUME NEW r \in Resources, WatcherStep(r)
      PROVE  UNCHANGED <<handler, keyByResource>>
  BY <1>5 DEF WatcherStep, Resolve, EnqueueGet, EnqueueCopy, EnqueueSet
<1>6. CASE Deliver \/ Resync \/ OthersWrite \/ Rests
  BY <1>6 DEF Deliver, Resync, OthersWrite, Rests, RegisterRests
<1> QED BY <1>1, <1>2, <1>3, <1>4, <1>5, <1>6 DEF Steps, Locker

\* A step of the register, remembered; or none.
HistSteps == (Steps /\ Remembers) \/ (Rests /\ UNCHANGED missed)

\* What history remembers of a step that does not end an Apply of k: a resource keeps
\* its contents, is told of, or is missed.
LEMMA MissedStep ==
  ASSUME TypeOK, HistSteps, NEW k \in Keys, NEW r \in Resources, ~Applies(k),
         Enforced(k)' = Enforced(k), Exact(k, r)
  PROVE  \/ Exact(k, r)'
         \/ keyByResource[r] = k /\ r \in dirtyResources'
<1>1. CASE Rests /\ UNCHANGED missed
  BY <1>1 DEF Rests, clusterVars, Exact
<1>2. CASE Steps /\ Remembers
  <2>1. missed'[k] = (missed[k] \ Restored(k)) \cup Unnoticed(k)
    BY <1>2 DEF Remembers
  <2>2. r \notin Restored(k)
    BY DEF Restored
  <2>3. CASE r \in missed[k]
    BY <2>1, <2>2, <2>3 DEF Exact
  <2>4. CASE cluster'[r] = cluster[r]
    BY <2>1, <2>2, <2>4 DEF Exact
  <2>5. CASE cluster'[r] # cluster[r]
    <3>1. CASE keyByResource[r] = k /\ GVKOf[r] \in watched
      BY <1>2, <2>5, <3>1, ChangeIsTold
    <3>2. CASE ~(keyByResource[r] = k /\ GVKOf[r] \in watched)
      BY <2>1, <2>5, <3>2 DEF Unnoticed, Exact
    <3> QED BY <3>1, <3>2
  <2> QED BY <2>3, <2>4, <2>5
<1> QED BY <1>1, <1>2 DEF HistSteps

\* The resources of a set are resources.
LEMMA DesiredIsKnown ==
  ASSUME IInv, NEW k \in Keys
  PROVE  Desired(Enforced(k)) \subseteq Resources
<1>1. Enforced(k) \in ObjectSets \cup {Nil}
  BY DEF IInv, TypeOK, Enforced, State
<1> QED BY <1>1, ConstantsAssumption DEF Desired

\* A step of others than OnChange for k.
LEMMA HistOthers ==
  ASSUME IInv, NEW k \in Keys, HistInv(k), HistSteps, ~HandlerStep(k)
  PROVE  HistInv(k)'
<1>0. Steps /\ TypeOK
  BY DEF HistSteps, Steps, IInv
<1>1. /\ handler'[k] = handler[k]
      /\ \A r \in Resources : keyByResource'[r] = k => keyByResource[r] = k
  BY <1>0, OthersTrackNothing
<1>2. ~Applies(k)
  BY <1>1 DEF Applies
<1>3. Woken(k) => Woken(k)'
  BY <1>0, WokenLasts DEF HandlerStep
<1>4. \/ Enforced(k)' = Nil
      \/ Woken(k)'
      \/ Enforced(k)' = Enforced(k) /\ store'[k] = store[k]
  BY <1>0, EnforcedStep
<1>5. Enforced(k)' = Nil => Desired(Enforced(k))' = {}
  BY DEF Desired
<1>6. Enforced(k)' = Enforced(k) => Desired(Enforced(k))' = Desired(Enforced(k))
  BY DEF Desired
<1>7. Desired(Enforced(k)) \subseteq Resources
  BY DesiredIsKnown
<1>8. UnlockedWhileApplied(k)'
  BY <1>1 DEF HistInv, UnlockedWhileApplied
<1>9. AppliesEnforced(k)'
  <2>1. SUFFICES ASSUME Enforced(k)' = Enforced(k), Enforced(k) # Nil, store'[k] = store[k],
                        ~Woken(k)
                 PROVE  AppliesEnforced(k)'
    BY <1>3, <1>4 DEF AppliesEnforced
  <2>2. /\ handler[k].pc = "apply.read" => handler[k].ptr = store[k]
        /\ handler[k].pc = "apply.run" => handler[k].os = Enforced(k)
        /\ handler[k].pc \in {"lock.get", "lock.add"} /\ ~handler[k].err =>
             \A r \in Desired(Enforced(k)) : Exact(k, r)
    BY <2>1 DEF HistInv, AppliesEnforced
  <2>3. ASSUME handler[k].pc \in {"lock.get", "lock.add"}, ~handler[k].err,
               NEW r \in Desired(Enforced(k))
        PROVE  Exact(k, r)'
    <3>1. r \in Resources /\ Exact(k, r)
      BY <1>7, <2>2, <2>3
    <3>2. keyByResource[r] # k
      BY <2>3, <3>1 DEF HistInv, UnlockedWhileApplied
    <3> QED BY <1>0, <1>2, <2>1, <3>1, <3>2, MissedStep
  <2> QED BY <1>1, <1>6, <2>1, <2>2, <2>3 DEF AppliesEnforced
<1>10. TrackedIsExact(k)'
  <2>1. SUFFICES ASSUME Enforced(k)' = Enforced(k), ~Woken(k), handler[k].pc = "idle",
                        NEW r \in Desired(Enforced(k)), keyByResource[r] = k
                 PROVE  Exact(k, r)' \/ Woken(k)' \/ r \in dirtyResources'
    <3>1. CASE Enforced(k)' = Enforced(k) /\ ~Woken(k)
      BY <1>1, <1>6, <1>7, <2>1, <3>1 DEF TrackedIsExact
    <3>2. CASE Enforced(k)' = Nil \/ Woken(k)'
      BY <1>5, <3>2 DEF TrackedIsExact
    <3> QED BY <1>3, <1>4, <3>1, <3>2
  <2>2. r \in Resources
    BY <1>7, <2>1
  <2>3. Exact(k, r) \/ r \in dirtyResources
    BY <2>1 DEF HistInv, TrackedIsExact
  <2> QED BY <1>0, <1>2, <2>1, <2>2, <2>3, MissedStep, ToldIsResolved
<1> QED BY <1>8, <1>9, <1>10 DEF HistInv

\* A step of OnChange for k.
LEMMA HistHandler ==
  ASSUME IInv, NEW k \in Keys, HistInv(k), Remembers, HandlerStep(k)
  PROVE  HistInv(k)'
<1>0. Steps /\ TypeOK /\ handler \in [Keys -> Handler] /\ k # Nil
  BY ConstantsAssumption DEF Steps, Locker, IInv, TypeOK, Handler
<1>1. /\ heap' = heap /\ store' = store
      /\ Enforced(k)' = Enforced(k)
      /\ Desired(Enforced(k))' = Desired(Enforced(k))
  <2>1. heap' = heap /\ store' = store
    BY DEF HandlerStep, HandlerBegin, HandlerRead, HandlerApply, HandlerLockGet,
           HandlerLockAdd, registerVars
  <2> QED BY <2>1 DEF Enforced, Desired
<1>2. Woken(k) /\ ~HandlerBegin(k) => Woken(k)'
  BY <1>0, WokenLasts
<1>3. Desired(Enforced(k)) \subseteq Resources
  BY DesiredIsKnown
<1>4. ~Applies(k) /\ cluster' = cluster =>
        \A r \in Resources : Exact(k, r) => Exact(k, r)'
  <2>1. missed'[k] = (missed[k] \ Restored(k)) \cup Unnoticed(k)
    BY DEF Remembers
  <2> QED BY <1>1, <2>1 DEF Restored, Unnoticed, Exact
<1>5. CASE HandlerBegin(k)
  <2>1. CASE store[k] = Nil \/ ~heap[store[k]].locked
    <3>1. handler'[k].pc = "idle" /\ Enforced(k)' = Nil
      BY <1>1, <1>5, <2>1 DEF HandlerBegin, Enforced
    <3>2. Desired(Enforced(k))' = {}
      BY <3>1 DEF Desired
    <3> QED BY <3>1, <3>2 DEF HistInv, UnlockedWhileApplied, AppliesEnforced, TrackedIsExact
  <2>2. CASE store[k] # Nil /\ heap[store[k]].locked
    <3>1. handler'[k] = [IdleHandler EXCEPT !.pc = "apply.read", !.ptr = store[k]]
      BY <1>0, <1>5, <2>2 DEF HandlerBegin
    <3>2. handler'[k].pc = "apply.read" /\ handler'[k].ptr = store'[k]
      BY <1>1, <3>1 DEF IdleHandler
    <3>3. \A r \in Resources : keyByResource'[r] # k
      BY <1>0, <1>5, <2>2 DEF HandlerBegin, RemoveAllEntries, WithoutEntries
    <3> QED BY <3>2, <3>3 DEF HistInv, UnlockedWhileApplied, AppliesEnforced, TrackedIsExact
  <2> QED BY <2>1, <2>2
<1>6. CASE HandlerRead(k)
  <2>1. /\ handler[k].pc = "apply.read" /\ keyByResource' = keyByResource
        /\ handler' = [handler EXCEPT ![k].pc = "apply.run", ![k].os = heap[handler[k].ptr].os]
    BY <1>6 DEF HandlerRead
  <2>2. handler'[k].pc = "apply.run" /\ handler'[k].os = heap[handler[k].ptr].os
    BY <1>0, <2>1 DEF Handler
  <2>3. ASSUME Enforced(k)' # Nil, ~Woken(k)'
        PROVE  handler'[k].os = Enforced(k)'
    <3>1. Enforced(k) # Nil /\ ~Woken(k)
      BY <1>1, <1>2, <2>1, <2>3 DEF HandlerBegin
    <3>2. handler[k].ptr = store[k]
      BY <2>1, <3>1 DEF HistInv, AppliesEnforced
    <3> QED BY <1>1, <2>2, <3>1, <3>2 DEF Enforced
  <2> QED BY <2>1, <2>2, <2>3
          DEF HistInv, UnlockedWhileApplied, AppliesEnforced, TrackedIsExact
<1>7. CASE HandlerApply(k)
  <2>1. handler[k].pc = "apply.run" /\ keyByResource' = keyByResource
    BY <1>7 DEF HandlerApply
  <2>2. \/ /\ ApplyAll(k, handler[k].os)
           /\ handler'[k] = [IdleHandler EXCEPT !.pc = "lock.get"]
        \/ handler'[k] = [IdleHandler EXCEPT !.pc = "lock.get", !.err = TRUE]
    BY <1>0, <1>7 DEF HandlerApply
  <2>3. handler'[k].pc = "lock.get"
    BY <2>2 DEF IdleHandler
  <2>4. ASSUME Enforced(k)' # Nil, ~Woken(k)', ~handler'[k].err,
               NEW r \in Desired(Enforced(k))
        PROVE  cluster'[r] = Enforced(k)
    <3>1. Enforced(k) # Nil /\ ~Woken(k)
      BY <1>1, <1>2, <2>1, <2>4 DEF HandlerBegin
    <3>2. handler[k].os = Enforced(k)
      BY <2>1, <3>1 DEF HistInv, AppliesEnforced
    <3>3. ApplyAll(k, handler[k].os)
      BY <2>2, <2>4 DEF IdleHandler
    <3>4. r \in Resources \cap Desired(handler[k].os)
      BY <1>3, <2>4, <3>2
    <3> QED BY <3>2, <3>3, <3>4 DEF ApplyAll, ApplySome, WriteCluster
  <2> QED BY <1>1, <2>1, <2>3, <2>4
          DEF HistInv, UnlockedWhileApplied, AppliesEnforced, TrackedIsExact, Exact
<1>8. CASE HandlerLockGet(k)
  <2>1. /\ handler[k].pc = "lock.get" /\ keyByResource' = keyByResource /\ cluster' = cluster
    BY <1>8 DEF HandlerLockGet, clusterVars
  <2>2. ~Applies(k) /\ \A r \in Resources : keyByResource[r] # k
    BY <2>1 DEF Applies, HistInv, UnlockedWhileApplied
  <2>3. CASE stateByKey[k] = Nil
    <3>1. handler'[k].pc = "idle"
      BY <1>0, <1>8, <2>3 DEF HandlerLockGet, HandlerReturn, IdleHandler
    <3> QED BY <1>1, <1>3, <2>1, <2>2, <3>1
            DEF HistInv, UnlockedWhileApplied, AppliesEnforced, TrackedIsExact
  <2>4. CASE stateByKey[k] # Nil
    <3>1. handler' = [handler EXCEPT ![k].pc = "lock.add", ![k].ptr = stateByKey[k]]
      BY <1>8, <2>4 DEF HandlerLockGet
    <3>2. handler'[k].pc = "lock.add" /\ handler'[k].err = handler[k].err
      BY <1>0, <3>1 DEF Handler
    <3>3. ASSUME Enforced(k)' # Nil, ~Woken(k)', ~handler'[k].err,
                 NEW r \in Desired(Enforced(k))
          PROVE  Exact(k, r)'
      <4>1. Enforced(k) # Nil /\ ~Woken(k)
        BY <1>1, <1>2, <2>1, <3>3 DEF HandlerBegin
      <4>2. Exact(k, r)
        BY <2>1, <3>2, <3>3, <4>1 DEF HistInv, AppliesEnforced
      <4> QED BY <1>3, <1>4, <2>1, <2>2, <3>3, <4>2
    <3> QED BY <1>1, <2>1, <2>2, <3>2, <3>3
            DEF HistInv, UnlockedWhileApplied, AppliesEnforced, TrackedIsExact
  <2> QED BY <2>3, <2>4
<1>9. CASE HandlerLockAdd(k)
  <2>1. /\ handler[k].pc = "lock.add" /\ cluster' = cluster /\ HandlerReturn(k)
    BY <1>9 DEF HandlerLockAdd
  <2>2. ~Applies(k)
    BY <2>1 DEF Applies
  <2>3. handler'[k].pc = "idle"
    BY <1>0, <2>1 DEF HandlerReturn, IdleHandler
  <2>4. handler[k].err => Woken(k)'
    BY <2>1 DEF HandlerReturn, Woken
  <2>5. ASSUME ~Woken(k)', NEW r \in Desired(Enforced(k))
        PROVE  Exact(k, r)'
    <3>1. Enforced(k) # Nil /\ ~Woken(k)
      BY <1>2, <2>1, <2>5 DEF HandlerBegin, Desired
    <3>2. Exact(k, r)
      BY <2>1, <2>4, <2>5, <3>1 DEF HistInv, AppliesEnforced
    <3> QED BY <1>3, <1>4, <2>1, <2>2, <2>5, <3>2
  <2> QED BY <1>1, <2>3, <2>5 DEF HistInv, UnlockedWhileApplied, AppliesEnforced, TrackedIsExact
<1> QED BY <1>5, <1>6, <1>7, <1>8, <1>9 DEF HandlerStep

\* Both together, for every key.
HistIInv == IInv /\ \A k \in Keys : HistInv(k)

\* When nothing is registered, nothing is enforced.
LEMMA HistInvInit ==
  ASSUME RegisterInit
  PROVE  \A k \in Keys : HistInv(k)
<1>1. ASSUME NEW k \in Keys
      PROVE  HistInv(k)
  <2>1. handler[k].pc = "idle" /\ Enforced(k) = Nil
    BY DEF RegisterInit, IdleHandler, Enforced
  <2>2. Desired(Enforced(k)) = {}
    BY <2>1 DEF Desired
  <2> QED BY <2>1, <2>2 DEF HistInv, UnlockedWhileApplied, AppliesEnforced, TrackedIsExact
<1> QED BY <1>1

\* Every step that is remembered keeps the invariant.
LEMMA HistStep ==
  ASSUME HistIInv, HistSteps
  PROVE  \A k \in Keys : HistInv(k)'
<1>1. ASSUME NEW k \in Keys
      PROVE  HistInv(k)'
  <2>1. CASE ~HandlerStep(k)
    BY <2>1, HistOthers DEF HistIInv
  <2>2. CASE HandlerStep(k) /\ Remembers
    BY <2>2, HistHandler DEF HistIInv
  <2>3. CASE HandlerStep(k) /\ Rests
    <3>1. handler \in [Keys -> Handler] /\ handler' = handler /\ dirtyKeys' = dirtyKeys
      BY <2>3 DEF HistIInv, IInv, TypeOK, Handler, Rests, RegisterRests
    <3>2. ~HandlerBegin(k)
      BY <3>1 DEF HandlerBegin
    <3>3. ~HandlerRead(k)
      BY <3>1 DEF HandlerRead, Handler
    <3>4. ~HandlerApply(k)
      BY <3>1 DEF HandlerApply, IdleHandler
    <3>5. ~HandlerLockGet(k)
      BY <3>1 DEF HandlerLockGet, HandlerReturn, IdleHandler, Handler
    <3>6. ~HandlerLockAdd(k)
      BY <3>1 DEF HandlerLockAdd, HandlerReturn, IdleHandler
    <3> QED BY <2>3, <3>2, <3>3, <3>4, <3>5, <3>6 DEF HandlerStep
  <2> QED BY <2>1, <2>2, <2>3 DEF HistSteps
<1> QED BY <1>1

\* It is what TrackedChangesAreReverted needs.
LEMMA HistInvSays == HistIInv => TrackedChangesAreReverted
BY DEF HistIInv, HistInv, TrackedIsExact, TrackedChangesAreReverted

\* A change of a tracked and watched resource is never lost: whatever Set, Delete,
\* Enqueue, Resolve and OnChange do at the same time, and whatever fails, the resource
\* has the contents that are enforced, or its key is still to be handled, or the resource
\* is, or the change came while it was unlocked or not watched.
THEOREM TrackedAlwaysReverted == HistSpec => []TrackedChangesAreReverted
<1>1. HistInit => HistIInv
  BY IInvInit, HistInvInit DEF HistInit, Init, HistIInv
<1>2. HistIInv /\ [HistNext]_histVars => HistIInv'
  <2> SUFFICES ASSUME HistIInv, [HistNext]_histVars PROVE HistIInv'
    OBVIOUS
  <2>1. [Next]_vars /\ HistSteps
    BY NextIsStep DEF HistNext, histVars, HistSteps, Rests, RegisterRests, vars
  <2> QED BY <2>1, IInvStep, HistStep DEF HistIInv
<1> QED BY <1>1, <1>2, HistInvSays, PTL DEF HistSpec

=============================================================================
