----------------------------- MODULE Applyinator -----------------------------
(***************************************************************************)
(* internal/helm-project-operator/applier/applyinator.go: worker           *)
(* goroutines that run an apply function for the keys of a client-go       *)
(* rate-limiting work queue.  The work queue is external to the            *)
(* repository; it is modelled by the state its documentation names (the    *)
(* FIFO queue, the dirty set, the processing set and the set of delayed    *)
(* additions).  Delays are abstracted: a delayed addition is due at any    *)
(* later moment, so the counters that Forget resets are left out.          *)
(***************************************************************************)
EXTENDS Naturals, Sequences, FiniteSets

CONSTANTS Keys,     \* what Apply can be called with
          Workers,  \* the goroutines Run starts
          NoKey     \* a worker that holds no item

ASSUME NoKeyAssumption == NoKey \notin Keys

VARIABLES queue,        \* workqueue: the keys ready to be handed out, in order
          dirty,        \* workqueue: the keys that need processing
          processing,   \* workqueue: the keys handed out and not Done yet
          delayed,      \* workqueue: the keys AddRateLimited will add later
          shuttingDown, \* workqueue: ShutDown was called
          cancelled,    \* ctx.Done() is closed
          worker,       \* worker[w]: where goroutine w is, and the key it holds
          requested,    \* history: keys whose latest request no run has begun for
          failed        \* history: keys whose run failed and that owe a retry

queueVars == <<queue, dirty, processing, delayed, shuttingDown>>
history   == <<requested, failed>>
vars      == <<queueVars, cancelled, worker, history>>

PCs == {"unborn", "starting", "get", "apply", "done", "stopped"}

TypeOK ==
  /\ queue \in Seq(Keys)
  /\ dirty \subseteq Keys
  /\ processing \subseteq Keys
  /\ delayed \subseteq Keys
  /\ shuttingDown \in BOOLEAN
  /\ cancelled \in BOOLEAN
  /\ worker \in [Workers -> [pc : PCs, key : Keys \cup {NoKey}]]
  /\ requested \subseteq Keys
  /\ failed \subseteq Keys

Init ==
  /\ queue = <<>>
  /\ dirty = {}
  /\ processing = {}
  /\ delayed = {}
  /\ shuttingDown = FALSE
  /\ cancelled = FALSE
  /\ worker = [w \in Workers |-> [pc |-> "unborn", key |-> NoKey]]
  /\ requested = {}
  /\ failed = {}

-----------------------------------------------------------------------------
(* The work queue (external).                                              *)

\* workqueue.Add: dropped when shutting down or already dirty; a key that is
\* being processed is only marked dirty, Done will queue it.
Add(k) ==
  IF shuttingDown \/ k \in dirty
  THEN UNCHANGED <<queue, dirty>>
  ELSE /\ dirty' = dirty \cup {k}
       /\ queue' = IF k \in processing THEN queue ELSE Append(queue, k)

\* workqueue.AddRateLimited: the waiting loop takes the key unless it was shut down.
AddRateLimited(k) == delayed' = IF shuttingDown THEN delayed ELSE delayed \cup {k}

\* workqueue.Done: a key that became dirty while it was processed is queued.
DoneWith(k) ==
  /\ processing' = processing \ {k}
  /\ queue' = IF k \in dirty THEN Append(queue, k) ELSE queue

\* A delayed addition is due; the waiting loop ends with ShutDown.
AddDelayed(k) ==
  /\ ~shuttingDown
  /\ k \in delayed
  /\ delayed' = delayed \ {k}
  /\ Add(k)
  /\ failed' = failed \ {k}
  /\ requested' = requested \cup {k}
  /\ UNCHANGED <<processing, shuttingDown, cancelled, worker>>

-----------------------------------------------------------------------------
(* The Applyinator.                                                        *)

Goto(w, pc, k) == worker' = [worker EXCEPT ![w] = [pc |-> pc, key |-> k]]

\* Any number of producers may call Apply at any time, before Run too.
Apply(k) ==
  /\ Add(k)
  /\ requested' = IF shuttingDown THEN requested ELSE requested \cup {k}
  /\ UNCHANGED <<processing, delayed, shuttingDown, cancelled, worker, failed>>

Run ==
  /\ \A w \in Workers : worker[w].pc = "unborn"
  /\ worker' = [w \in Workers |-> [pc |-> "starting", key |-> NoKey]]
  /\ UNCHANGED <<queueVars, cancelled, history>>

\* The caller's context ends.
Cancel ==
  /\ ~cancelled
  /\ cancelled' = TRUE
  /\ UNCHANGED <<queueVars, worker, history>>

\* The goroutine of Run that waits for ctx.Done().
ShutDown ==
  /\ cancelled
  /\ \E w \in Workers : worker[w].pc # "unborn"
  /\ ~shuttingDown
  /\ shuttingDown' = TRUE
  /\ UNCHANGED <<queue, dirty, processing, delayed, cancelled, worker, history>>

\* wait.Until looks at the context before it calls runWorker.
StartWorker(w) ==
  /\ worker[w].pc = "starting"
  /\ Goto(w, IF cancelled THEN "stopped" ELSE "get", NoKey)
  /\ UNCHANGED <<queueVars, cancelled, history>>

\* Mutant: the item is Done as soon as it was taken, before it is applied.
GetAndDoneAtOnce(w) ==
  /\ worker[w].pc = "get"
  /\ queue # <<>>
  /\ dirty' = dirty \ {Head(queue)}
  /\ queue' = Tail(queue)
  /\ requested' = requested \ {Head(queue)}
  /\ Goto(w, "apply", Head(queue))
  /\ UNCHANGED <<processing, delayed, shuttingDown, cancelled, failed>>

\* processNextWorkItem: Get blocks while the queue is empty and open.
Get(w) ==
  /\ worker[w].pc = "get"
  /\ queue # <<>>
  /\ processing' = processing \cup {Head(queue)}
  /\ dirty' = dirty \ {Head(queue)}
  /\ queue' = Tail(queue)
  /\ requested' = requested \ {Head(queue)}
  /\ Goto(w, "apply", Head(queue))
  /\ UNCHANGED <<delayed, shuttingDown, cancelled, failed>>

\* processNextWorkItem: Get reports the shutdown once the queue is drained;
\* runWorker returns, and wait.Until ends because the context is done.
GetShutdown(w) ==
  /\ worker[w].pc = "get"
  /\ queue = <<>>
  /\ shuttingDown
  /\ Goto(w, "stopped", NoKey)
  /\ UNCHANGED <<queueVars, cancelled, history>>

\* processSingleItem, the apply function succeeded: Forget.
ApplySucceeds(w) ==
  /\ worker[w].pc = "apply"
  /\ Goto(w, "done", worker[w].key)
  /\ UNCHANGED <<queueVars, cancelled, history>>

RecordFailure(k) == failed' = IF shuttingDown THEN failed ELSE failed \cup {k}

\* Mutant: the error is reported and the key is not added again.
ApplyFailsWithoutRetry(w) ==
  /\ worker[w].pc = "apply"
  /\ RecordFailure(worker[w].key)
  /\ Goto(w, "done", worker[w].key)
  /\ UNCHANGED <<queueVars, cancelled, requested>>

\* Mutant: the error path calls Done itself, although Done is deferred.
ApplyFailsAndDone(w) ==
  /\ worker[w].pc = "apply"
  /\ AddRateLimited(worker[w].key)
  /\ DoneWith(worker[w].key)
  /\ RecordFailure(worker[w].key)
  /\ Goto(w, "done", worker[w].key)
  /\ UNCHANGED <<dirty, shuttingDown, cancelled, requested>>

\* Mutant: the key that is added again is not the one that was parsed.
ApplyFailsForNoKey(w) ==
  /\ worker[w].pc = "apply"
  /\ AddRateLimited(NoKey)
  /\ RecordFailure(worker[w].key)
  /\ Goto(w, "done", worker[w].key)
  /\ UNCHANGED <<queue, dirty, processing, shuttingDown, cancelled, requested>>

\* processSingleItem, the apply function failed: AddRateLimited.
ApplyFails(w) ==
  /\ worker[w].pc = "apply"
  /\ AddRateLimited(worker[w].key)
  /\ RecordFailure(worker[w].key)
  /\ Goto(w, "done", worker[w].key)
  /\ UNCHANGED <<queue, dirty, processing, shuttingDown, cancelled, requested>>

\* Mutant: processSingleItem returns without the deferred Done.
NoDone(w) ==
  /\ worker[w].pc = "done"
  /\ Goto(w, "get", NoKey)
  /\ UNCHANGED <<queueVars, cancelled, history>>

\* The deferred Done of processSingleItem, and the loop of runWorker.
Done(w) ==
  /\ worker[w].pc = "done"
  /\ DoneWith(worker[w].key)
  /\ Goto(w, "get", NoKey)
  /\ UNCHANGED <<dirty, delayed, shuttingDown, cancelled, history>>

WorkerStep(w) ==
  \/ StartWorker(w)
  \/ Get(w)
  \/ GetShutdown(w)
  \/ ApplySucceeds(w)
  \/ ApplyFails(w)
  \/ Done(w)

Next ==
  \/ \E k \in Keys : Apply(k) \/ AddDelayed(k)
  \/ Run
  \/ Cancel
  \/ ShutDown
  \/ \E w \in Workers : WorkerStep(w)

\* Goroutines are scheduled, timers fire and an apply function returns; Run is
\* called right after the Applyinator is made.  Nobody has to call Apply.
Fairness ==
  /\ WF_vars(Run)
  /\ WF_vars(ShutDown)
  /\ \A w \in Workers : WF_vars(WorkerStep(w))
  /\ \A k \in Keys : WF_vars(AddDelayed(k))

Spec == Init /\ [][Next]_vars

FairSpec == Spec /\ Fairness

-----------------------------------------------------------------------------
(* Properties.                                                             *)

Held(w) == worker[w].pc \in {"apply", "done"}

\* "A single item will not be processed multiple times concurrently"
\* (applyinator.go:34): no two workers hold the same key, from the Get of
\* processNextWorkItem to the deferred Done of processSingleItem.
Stingy ==
  \A v, w \in Workers :
    v # w /\ Held(v) /\ Held(w) => worker[v].key # worker[w].key

\* "If an item is added multiple times before it can be processed, it will only
\* be processed once" (applyinator.go:35): the queue holds a dirty key that is
\* not being processed exactly once and no other key, whatever the
\* interleaving of Apply, AddRateLimited, Get and Done.
QueuedOnce ==
  /\ \A i, j \in 1..Len(queue) : i # j => queue[i] # queue[j]
  /\ {queue[i] : i \in 1..Len(queue)} = dirty \ processing

\* "It is allowed for an item to be reenqueued while it is being processed"
\* (applyinator.go:37): a request made before, during or after a run of its
\* key, and the retry a failed run is owed, stay in the work queue until the
\* next run of the key begins; and no key is run that nobody asked for.
NothingLost ==
  /\ requested = dirty
  /\ ~shuttingDown => failed \subseteq delayed

\* What the abstract Applier sees of this module.
Promise == INSTANCE Applier WITH
  pending  <- requested,
  retrying <- IF shuttingDown THEN {} ELSE failed,
  running  <- {worker[w].key : w \in {v \in Workers : worker[v].pc = "apply"}},
  closed   <- shuttingDown

\* The Applyinator implements the abstract Applier: no request is lost, none
\* is run twice at a time, and every failed run is owed a retry.
ImplementsApplier == Promise!Spec

\* "Eventually ensures that a requested action, identified by some key, is
\* applied" (applyinator.go:29): a key that was requested, or whose run failed,
\* is run again unless the context ends.
RequestsAreServed ==
  \A k \in Keys :
    k \in requested \cup failed
      ~> (cancelled \/ \E w \in Workers : worker[w].pc = "apply" /\ worker[w].key = k)
=============================================================================
