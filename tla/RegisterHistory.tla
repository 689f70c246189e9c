--------------------------- MODULE RegisterHistory ---------------------------
(***************************************************************************)
(* The register with a history variable.  OnChange unlocks a release while *)
(* it applies it, and a kind is watched only once lock reached it; a       *)
(* change made then is not resolved to the release and waits for the       *)
(* informer's resync (ten hours).  missed remembers those changes, so that *)
(* what the register promises of all the others can be stated.  The        *)
(* variable restricts no step and is no part of the program.               *)
(***************************************************************************)
EXTENDS ObjectSetRegister

VARIABLE missed  \* missed[k]: resources that were changed without k being told

histVars == <<vars, missed>>

\* The step in which OnChange has applied k.
Applies(k) == handler[k].pc = "apply.run" /\ handler'[k].pc # "apply.run"

\* What others change while it is not resolved to k, or its kind is not watched.
Unnoticed(k) ==
  {r \in Resources : /\ cluster'[r] # cluster[r]
                     /\ ~Applies(k)
                     /\ keyByResource[r] # k \/ GVKOf[r] \notin watched}

\* What the Apply of k has brought back to the applied set's contents.
Restored(k) ==
  {r \in Desired(handler[k].os) : Applies(k) /\ cluster'[r] = handler[k].os}

HistInit == Init /\ missed = [k \in Keys |-> {}]

Remembers ==
  missed' = [k \in Keys |-> (missed[k] \ Restored(k)) \cup Unnoticed(k)]

HistNext == Next /\ Remembers

HistSpec == HistInit /\ [][HistNext]_histVars

HistFairSpec == HistSpec /\ Fairness

-----------------------------------------------------------------------------
\* k is going to be handled: its key is queued, an event for it is in the channel,
\* or an Enqueue for it is under way.
Woken(k) ==
  \/ k \in dirtyKeys
  \/ \E i \in 1..Len(stateChanges) : stateChanges[i].key = k
  \/ \E r \in Resources : watcher[r].pc # "idle" /\ watcher[r].key = k

\* The resource has the contents that are enforced for k, or was changed unnoticed.
Exact(k, r) == cluster[r] = Enforced(k) \/ r \in missed[k]

\* No change of a tracked resource is lost, whoever makes it and whatever Set,
\* Delete, Enqueue, Resolve and OnChange do at the same time: the resources that are
\* tracked for a release (keyByResource, cache.go:219) have the contents of its set
\* unless the key or the resource is still to be handled, or the change was made
\* while the resource was unlocked (handler.go:62) or not watched yet (gvk.go:78).
TrackedChangesAreReverted ==
  \A k \in Keys : \A r \in Desired(Enforced(k)) :
    /\ handler[k].pc = "idle"
    /\ keyByResource[r] = k
    => Exact(k, r) \/ Woken(k) \/ r \in dirtyResources
=============================================================================
