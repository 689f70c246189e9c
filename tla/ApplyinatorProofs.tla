-------------------------- MODULE ApplyinatorProofs --------------------------
(***************************************************************************)
(* For every set of keys and every set of workers: the type invariant, the *)
(* stinginess of the Applyinator, that it loses no request, and that it    *)
(* implements the abstract Applier.                                        *)
(***************************************************************************)
EXTENDS Applyinator, TLAPS

\* The workers hold exactly the keys the queue calls processing, and only
\* workers inside processSingleItem hold one.
HoldersCoherent ==
  /\ \A w \in Workers : Held(w) => worker[w].key \in processing
  /\ \A k \in processing : \E w \in Workers : Held(w) /\ worker[w].key = k

IInv == TypeOK /\ QueuedOnce /\ HoldersCoherent /\ Stingy /\ NothingLost

-----------------------------------------------------------------------------
(* Sequences without repetitions.                                          *)

\* Appending a new element keeps a sequence free of repetitions.
LEMMA AppendOnce ==
  ASSUME NEW S, NEW q \in Seq(S), NEW x \in S,
         \A i, j \in 1..Len(q) : i # j => q[i] # q[j],
         x \notin {q[i] : i \in 1..Len(q)}
  PROVE  LET r == Append(q, x)
         IN  /\ r \in Seq(S)
             /\ \A i, j \in 1..Len(r) : i # j => r[i] # r[j]
             /\ {r[i] : i \in 1..Len(r)} = {q[i] : i \in 1..Len(q)} \cup {x}
<1> DEFINE r == Append(q, x)
<1>1. r \in Seq(S) /\ Len(r) = Len(q) + 1 /\ Len(q) \in Nat
  OBVIOUS
<1>2. \A i \in 1..Len(q) : r[i] = q[i]
  OBVIOUS
<1>3. r[Len(q) + 1] = x
  OBVIOUS
<1> HIDE DEF r
<1>4. \A i, j \in 1..Len(r) : i # j => r[i] # r[j]
  BY <1>1, <1>2, <1>3
<1>5. {r[i] : i \in 1..Len(r)} = {q[i] : i \in 1..Len(q)} \cup {x}
  BY <1>1, <1>2, <1>3
<1> QED BY <1>1, <1>4, <1>5 DEF r

\* Taking the head off keeps it free of repetitions and removes the head.
LEMMA TailOnce ==
  ASSUME NEW S, NEW q \in Seq(S), q # <<>>,
         \A i, j \in 1..Len(q) : i # j => q[i] # q[j]
  PROVE  LET r == Tail(q)
         IN  /\ Head(q) \in S
             /\ Head(q) \in {q[i] : i \in 1..Len(q)}
             /\ r \in Seq(S)
             /\ \A i, j \in 1..Len(r) : i # j => r[i] # r[j]
             /\ {r[i] : i \in 1..Len(r)} = {q[i] : i \in 1..Len(q)} \ {Head(q)}
<1> DEFINE r == Tail(q)
<1>1. /\ r \in Seq(S) /\ Len(q) \in Nat \ {0} /\ Len(r) = Len(q) - 1
      /\ Head(q) = q[1] /\ Head(q) \in S
  OBVIOUS
<1>2. \A i \in 1..Len(r) : r[i] = q[i + 1]
  OBVIOUS
<1> HIDE DEF r
<1>3. \A i, j \in 1..Len(r) : i # j => r[i] # r[j]
  BY <1>1, <1>2
<1>4. {r[i] : i \in 1..Len(r)} = {q[i] : i \in 1..Len(q)} \ {Head(q)}
  <2>1. ASSUME NEW i \in 1..Len(r)
        PROVE  r[i] \in {q[j] : j \in 1..Len(q)} \ {Head(q)}
    BY <1>1, <1>2, <2>1
  <2>2. ASSUME NEW i \in 1..Len(q), q[i] # Head(q)
        PROVE  q[i] \in {r[j] : j \in 1..Len(r)}
    <3>1. i - 1 \in 1..Len(r) /\ r[i - 1] = q[i]
      BY <1>1, <1>2, <2>2
    <3> QED BY <3>1
  <2> QED BY <2>1, <2>2
<1>5. Head(q) \in {q[i] : i \in 1..Len(q)}
  BY <1>1
<1> QED BY <1>1, <1>3, <1>4, <1>5 DEF r

-----------------------------------------------------------------------------
(* The two queue operations that append.                                   *)

\* workqueue.Add keeps the queue coherent and makes the key dirty while open.
LEMMA AddCoherent ==
  ASSUME NEW k \in Keys, TypeOK, QueuedOnce, Add(k), UNCHANGED processing
  PROVE  /\ queue' \in Seq(Keys)
         /\ dirty' \subseteq Keys
         /\ dirty' = IF shuttingDown THEN dirty ELSE dirty \cup {k}
         /\ QueuedOnce'
<1>1. CASE shuttingDown \/ k \in dirty
  BY <1>1 DEF Add, TypeOK, QueuedOnce
<1>2. CASE ~shuttingDown /\ k \notin dirty /\ k \in processing
  BY <1>2 DEF Add, TypeOK, QueuedOnce
<1>3. CASE ~shuttingDown /\ k \notin dirty /\ k \notin processing
  <2>1. dirty' = dirty \cup {k} /\ queue' = Append(queue, k)
    BY <1>3 DEF Add
  <2>2. k \notin {queue[i] : i \in 1..Len(queue)}
    BY <1>3 DEF QueuedOnce
  <2>3. /\ queue' \in Seq(Keys)
        /\ \A i, j \in 1..Len(queue') : i # j => queue'[i] # queue'[j]
        /\ {queue'[i] : i \in 1..Len(queue')} = {queue[i] : i \in 1..Len(queue)} \cup {k}
    BY <2>1, <2>2, AppendOnce DEF TypeOK, QueuedOnce
  <2> QED BY <1>3, <2>1, <2>3 DEF TypeOK, QueuedOnce
<1> QED BY <1>1, <1>2, <1>3

\* workqueue.Done of a processed key keeps the queue coherent.
LEMMA DoneCoherent ==
  ASSUME NEW k \in processing, TypeOK, QueuedOnce, DoneWith(k), UNCHANGED dirty
  PROVE  /\ queue' \in Seq(Keys)
         /\ processing' = processing \ {k}
         /\ QueuedOnce'
<1>1. k \notin {queue[i] : i \in 1..Len(queue)} /\ k \in Keys
  BY DEF QueuedOnce, TypeOK
<1>2. CASE k \in dirty
  <2>1. queue' = Append(queue, k) /\ processing' = processing \ {k}
    BY <1>2 DEF DoneWith
  <2>2. /\ queue' \in Seq(Keys)
        /\ \A i, j \in 1..Len(queue') : i # j => queue'[i] # queue'[j]
        /\ {queue'[i] : i \in 1..Len(queue')} = {queue[i] : i \in 1..Len(queue)} \cup {k}
    BY <1>1, <2>1, AppendOnce DEF TypeOK, QueuedOnce
  <2> QED BY <1>2, <2>1, <2>2 DEF QueuedOnce
<1>3. CASE k \notin dirty
  BY <1>3 DEF DoneWith, TypeOK, QueuedOnce
<1> QED BY <1>2, <1>3

-----------------------------------------------------------------------------
(* The inductive invariant.                                                *)

\* Every step of the specification preserves the inductive invariant.
LEMMA IInvStep == IInv /\ [Next]_vars => IInv'
<1> SUFFICES ASSUME IInv, [Next]_vars PROVE IInv'
  OBVIOUS
<1> USE NoKeyAssumption
<1> USE DEF IInv
<1>1. ASSUME NEW k \in Keys, Apply(k) PROVE IInv'
  <2>1. QueuedOnce' /\ queue' \in Seq(Keys) /\ dirty' \subseteq Keys
        /\ dirty' = IF shuttingDown THEN dirty ELSE dirty \cup {k}
    BY <1>1, AddCoherent DEF Apply
  <2> QED BY <1>1, <2>1 DEF Apply, TypeOK, HoldersCoherent, Stingy, NothingLost, Held
<1>2. ASSUME NEW k \in Keys, AddDelayed(k) PROVE IInv'
  <2>1. QueuedOnce' /\ queue' \in Seq(Keys) /\ dirty' \subseteq Keys
        /\ dirty' = IF shuttingDown THEN dirty ELSE dirty \cup {k}
    BY <1>2, AddCoherent DEF AddDelayed
  <2> QED BY <1>2, <2>1 DEF AddDelayed, TypeOK, HoldersCoherent, Stingy, NothingLost, Held
<1>3. CASE Run
  <2>1. \A w \in Workers : ~Held(w) /\ ~(Held(w))'
    BY <1>3 DEF Run, Held
  <2>2. processing = {}
    BY <2>1 DEF HoldersCoherent
  <2>3. UNCHANGED <<queueVars, cancelled, history>>
    BY <1>3 DEF Run
  <2>4. worker' \in [Workers -> [pc : PCs, key : Keys \cup {NoKey}]]
    BY <1>3 DEF Run, PCs
  <2> QED BY <2>1, <2>2, <2>3, <2>4
       DEF queueVars, history, TypeOK, QueuedOnce, HoldersCoherent, Stingy, NothingLost
<1>4. CASE Cancel
  BY <1>4 DEF Cancel, queueVars, history, TypeOK, QueuedOnce, HoldersCoherent, Stingy,
              NothingLost, Held
<1>5. CASE ShutDown
  BY <1>5 DEF ShutDown, queueVars, history, TypeOK, QueuedOnce, HoldersCoherent, Stingy,
              NothingLost, Held
<1>6. ASSUME NEW w \in Workers, StartWorker(w) PROVE IInv'
  <2>1. ~Held(w) /\ ~(Held(w))' /\ \A v \in Workers : v # w => worker'[v] = worker[v]
    BY <1>6 DEF StartWorker, Goto, Held, TypeOK
  <2>2. worker' \in [Workers -> [pc : PCs, key : Keys \cup {NoKey}]]
    BY <1>6 DEF StartWorker, Goto, TypeOK, PCs
  <2>3. UNCHANGED <<queueVars, cancelled, history>>
    BY <1>6 DEF StartWorker
  <2>4. HoldersCoherent' /\ Stingy'
    BY <2>1, <2>3 DEF queueVars, HoldersCoherent, Stingy, Held
  <2> QED BY <2>2, <2>3, <2>4 DEF queueVars, history, TypeOK, QueuedOnce, NothingLost
<1>7. ASSUME NEW w \in Workers, Get(w) PROVE IInv'
  <2> DEFINE k == Head(queue)
  <2>1. /\ queue # <<>> /\ worker[w].pc = "get" /\ queue' = Tail(queue)
        /\ processing' = processing \cup {k} /\ dirty' = dirty \ {k}
        /\ requested' = requested \ {k}
        /\ worker' = [worker EXCEPT ![w] = [pc |-> "apply", key |-> k]]
        /\ UNCHANGED <<delayed, shuttingDown, cancelled, failed>>
    BY <1>7 DEF Get, Goto
  <2>a. queue \in Seq(Keys) /\ \A i, j \in 1..Len(queue) : i # j => queue[i] # queue[j]
    BY DEF TypeOK, QueuedOnce
  <2>2. /\ k \in Keys /\ k \in {queue[i] : i \in 1..Len(queue)}
        /\ queue' \in Seq(Keys)
        /\ \A i, j \in 1..Len(queue') : i # j => queue'[i] # queue'[j]
        /\ {queue'[i] : i \in 1..Len(queue')} = {queue[i] : i \in 1..Len(queue)} \ {k}
    <3>1. queue # <<>> /\ queue' = Tail(queue)
      BY <2>1
    <3> QED
      BY ONLY <2>a, <3>1, TailOnce
  <2> HIDE DEF k
  <2>3. k \in dirty /\ k \notin processing
    BY <2>2 DEF QueuedOnce
  <2>4. QueuedOnce'
    BY <2>1, <2>2, <2>3 DEF QueuedOnce
  <2>5. TypeOK'
    BY <2>1, <2>2 DEF TypeOK, PCs
  <2>6. /\ worker'[w] = [pc |-> "apply", key |-> k]
        /\ \A v \in Workers : v # w => worker'[v] = worker[v]
    BY <2>1 DEF TypeOK
  <2>7. HoldersCoherent' /\ Stingy'
    BY <2>1, <2>3, <2>6 DEF HoldersCoherent, Stingy, Held
  <2>8. NothingLost'
    BY <2>1 DEF NothingLost
  <2> QED BY <2>4, <2>5, <2>7, <2>8
<1>8. ASSUME NEW w \in Workers, GetShutdown(w) PROVE IInv'
  <2>1. ~Held(w) /\ ~(Held(w))' /\ \A v \in Workers : v # w => worker'[v] = worker[v]
    BY <1>8 DEF GetShutdown, Goto, Held, TypeOK
  <2>2. worker' \in [Workers -> [pc : PCs, key : Keys \cup {NoKey}]]
    BY <1>8 DEF GetShutdown, Goto, TypeOK, PCs
  <2>3. UNCHANGED <<queueVars, cancelled, history>>
    BY <1>8 DEF GetShutdown
  <2>4. HoldersCoherent' /\ Stingy'
    BY <2>1, <2>3 DEF queueVars, HoldersCoherent, Stingy, Held
  <2> QED BY <2>2, <2>3, <2>4 DEF queueVars, history, TypeOK, QueuedOnce, NothingLost
<1>9. ASSUME NEW w \in Workers, ApplySucceeds(w) \/ ApplyFails(w) PROVE IInv'
  <2>1. /\ Held(w) /\ (Held(w))'
        /\ worker'[w].key = worker[w].key
        /\ worker[w].key \in Keys
        /\ \A v \in Workers : v # w => worker'[v] = worker[v]
    BY <1>9 DEF ApplySucceeds, ApplyFails, Goto, Held, TypeOK, HoldersCoherent
  <2>2. worker' \in [Workers -> [pc : PCs, key : Keys \cup {NoKey}]]
    BY <1>9, <2>1 DEF ApplySucceeds, ApplyFails, Goto, TypeOK, PCs
  <2>3. UNCHANGED <<queue, dirty, processing, shuttingDown, cancelled, requested>>
    BY <1>9 DEF ApplySucceeds, ApplyFails, queueVars, history
  <2>4. /\ delayed' \subseteq Keys /\ failed' \subseteq Keys
        /\ (~shuttingDown => failed' \subseteq delayed')
    BY <1>9, <2>1 DEF ApplySucceeds, ApplyFails, AddRateLimited, RecordFailure, queueVars,
                      history, TypeOK, NothingLost
  <2>5. HoldersCoherent' /\ Stingy'
    BY <2>1, <2>3 DEF HoldersCoherent, Stingy, Held
  <2> QED BY <2>2, <2>3, <2>4, <2>5 DEF TypeOK, QueuedOnce, NothingLost
<1>10. ASSUME NEW w \in Workers, Done(w) PROVE IInv'
  <2> DEFINE k == worker[w].key
  <2>1. Held(w) /\ k \in processing /\ k \in Keys
    BY <1>10 DEF Done, Held, HoldersCoherent, TypeOK
  <2>2. DoneWith(k) /\ UNCHANGED <<dirty, delayed, shuttingDown, cancelled, history>>
    BY <1>10 DEF Done
  <2>3. queue' \in Seq(Keys) /\ processing' = processing \ {k} /\ QueuedOnce'
    BY <2>1, <2>2, DoneCoherent
  <2>4. /\ ~(Held(w))'
        /\ \A v \in Workers : v # w => worker'[v] = worker[v]
        /\ worker' \in [Workers -> [pc : PCs, key : Keys \cup {NoKey}]]
    BY <1>10 DEF Done, Goto, Held, TypeOK, PCs
  <2>5. HoldersCoherent' /\ Stingy'
    BY <2>1, <2>3, <2>4 DEF HoldersCoherent, Stingy, Held
  <2> QED BY <2>2, <2>3, <2>4, <2>5 DEF TypeOK, NothingLost, history
<1>11. CASE UNCHANGED vars
  BY <1>11 DEF vars, queueVars, history, TypeOK, QueuedOnce, HoldersCoherent, Stingy,
               NothingLost, Held
<1> QED BY <1>1, <1>2, <1>3, <1>4, <1>5, <1>6, <1>7, <1>8, <1>9, <1>10, <1>11
        DEF Next, WorkerStep

\* The inductive invariant holds in every reachable state.
LEMMA IInvAlways == Spec => []IInv
<1>1. Init => IInv
  <2> SUFFICES ASSUME Init PROVE IInv
    OBVIOUS
  <2>1. TypeOK
    <3>1. [pc |-> "unborn", key |-> NoKey] \in [pc : PCs, key : Keys \cup {NoKey}]
      BY DEF PCs
    <3>2. worker \in [Workers -> [pc : PCs, key : Keys \cup {NoKey}]]
      BY <3>1 DEF Init
    <3>3. queue \in Seq(Keys)
      BY DEF Init
    <3> QED BY <3>2, <3>3 DEF Init, TypeOK
  <2>2. QueuedOnce
    BY DEF Init, QueuedOnce
  <2>3. HoldersCoherent /\ Stingy /\ NothingLost
    BY DEF Init, HoldersCoherent, Stingy, NothingLost, Held
  <2> QED BY <2>1, <2>2, <2>3 DEF IInv
<1> QED BY <1>1, IInvStep, PTL DEF Spec

-----------------------------------------------------------------------------
(* The results.                                                            *)

\* The work queue and the workers of the Applyinator stay well typed.
THEOREM TypeCorrect == Spec => []TypeOK
BY IInvAlways, PTL DEF IInv

\* No two workers of an Applyinator ever process the same key at the same time,
\* whatever the number of workers Run starts (applyinator.go:34).
THEOREM StingyAlways == Spec => []Stingy
BY IInvAlways, PTL DEF IInv

\* However often Apply is called, a key waits in the queue at most once, and it
\* waits there whenever it needs processing and no worker has it.
THEOREM QueuedOnceAlways == Spec => []QueuedOnce
BY IInvAlways, PTL DEF IInv

\* No call of Apply and no retry of processSingleItem is lost.
THEOREM NothingLostAlways == Spec => []NothingLost
BY IInvAlways, PTL DEF IInv

-----------------------------------------------------------------------------
(* The refinement.                                                         *)

Running == {worker[w].key : w \in {v \in Workers : worker[v].pc = "apply"}}

Retrying == IF shuttingDown THEN {} ELSE failed

\* Every step of the Applyinator is a step of the abstract Applier, or leaves
\* what the Applier sees unchanged.
LEMMA RefinementStep == IInv /\ [Next]_vars => [Promise!Next]_(Promise!vars)
<1> SUFFICES ASSUME IInv, [Next]_vars
             PROVE  \/ \E k \in Keys : \/ Promise!Request(k) \/ Promise!Begin(k)
                                       \/ Promise!Succeed(k) \/ Promise!Fail(k)
                                       \/ Promise!Retry(k)
                    \/ Promise!Close
                    \/ UNCHANGED <<requested, Retrying, Running, shuttingDown>>
  BY DEF Promise!Next, Promise!vars, Running, Retrying
<1> USE NoKeyAssumption
<1>1. ASSUME NEW k \in Keys, Apply(k)
      PROVE  Promise!Request(k) \/ UNCHANGED <<requested, Retrying, Running, shuttingDown>>
  BY <1>1 DEF Apply, Promise!Request, Retrying, Running
<1>2. ASSUME NEW k \in Keys, AddDelayed(k) PROVE Promise!Request(k) \/ Promise!Retry(k)
  BY <1>2 DEF AddDelayed, Promise!Request, Promise!Retry
<1>3. CASE Run
  <2>1. Running = {} /\ Running' = {}
    BY <1>3 DEF Run, Running
  <2> QED BY <1>3, <2>1 DEF Run, queueVars, history, Retrying
<1>4. CASE Cancel
  BY <1>4 DEF Cancel, queueVars, history, Retrying, Running
<1>5. CASE ShutDown
  BY <1>5 DEF ShutDown, history, Promise!Close
<1>6. ASSUME NEW w \in Workers, StartWorker(w) \/ GetShutdown(w) \/ Done(w)
      PROVE  UNCHANGED <<requested, Retrying, Running, shuttingDown>>
  <2>1. /\ worker[w].pc # "apply" /\ worker'[w].pc # "apply"
        /\ \A v \in Workers : v # w => worker'[v] = worker[v]
    BY <1>6 DEF StartWorker, GetShutdown, Done, Goto, IInv, TypeOK
  <2>2. Running' = Running
    BY <2>1 DEF Running
  <2> QED BY <1>6, <2>2 DEF StartWorker, GetShutdown, Done, queueVars, history, Retrying
<1>7. ASSUME NEW w \in Workers, Get(w) PROVE \E k \in Keys : Promise!Begin(k)
  <2>a. Head(queue) \in Keys /\ Head(queue) \in dirty /\ Head(queue) \notin processing
    BY <1>7, TailOnce DEF Get, IInv, TypeOK, QueuedOnce
  <2>1. PICK k \in Keys : k = Head(queue) /\ k \in dirty /\ k \notin processing
    BY <2>a
  <2>2. /\ requested' = requested \ {k} /\ UNCHANGED <<shuttingDown, failed>>
        /\ worker'[w] = [pc |-> "apply", key |-> k] /\ worker[w].pc = "get"
        /\ \A v \in Workers : v # w => worker'[v] = worker[v]
    BY <1>7, <2>1 DEF Get, Goto, IInv, TypeOK
  <2>3. k \in requested
    BY <2>1 DEF IInv, NothingLost
  <2>4. k \notin Running
    BY <2>1 DEF Running, IInv, HoldersCoherent, Held
  <2>5. Running' = Running \cup {k}
    BY <2>2 DEF Running
  <2>6. Promise!Begin(k)
    BY <2>2, <2>3, <2>4, <2>5 DEF Promise!Begin, Running
  <2> QED BY <2>6
<1>8. ASSUME NEW w \in Workers, ApplySucceeds(w) \/ ApplyFails(w)
      PROVE  \E k \in Keys : Promise!Succeed(k) \/ Promise!Fail(k)
  <2>a. worker[w].pc = "apply" /\ worker[w].key \in Keys
    BY <1>8 DEF ApplySucceeds, ApplyFails, IInv, TypeOK, HoldersCoherent, Held
  <2>1. PICK k \in Keys : k = worker[w].key /\ worker[w].pc = "apply"
    BY <2>a
  <2>2. /\ worker'[w].pc = "done"
        /\ \A v \in Workers : v # w => worker'[v] = worker[v]
    BY <1>8 DEF ApplySucceeds, ApplyFails, Goto, IInv, TypeOK
  <2>3. \A v \in Workers : v # w /\ worker[v].pc = "apply" => worker[v].key # k
    BY <2>1 DEF IInv, Stingy, Held
  <2>4. k \in Running
    BY <2>1 DEF Running
  <2>5. Running' = Running \ {k}
    BY <2>1, <2>2, <2>3 DEF Running
  <2>6. CASE ApplySucceeds(w)
    <3>1. Promise!Succeed(k)
      BY <2>4, <2>5, <2>6 DEF ApplySucceeds, Promise!Succeed, Running, queueVars, history
    <3> QED BY <3>1
  <2>7. CASE ApplyFails(w)
    <3>1. failed' = (IF shuttingDown THEN failed ELSE failed \cup {k})
          /\ UNCHANGED <<requested, shuttingDown>>
      BY <2>1, <2>7 DEF ApplyFails, RecordFailure
    <3>2. Promise!Fail(k)
      BY <2>4, <2>5, <3>1 DEF Promise!Fail, Running
    <3> QED BY <3>2
  <2> QED BY <1>8, <2>6, <2>7
<1>9. CASE UNCHANGED vars
  BY <1>9 DEF vars, queueVars, history, Retrying, Running
<1> QED BY <1>1, <1>2, <1>3, <1>4, <1>5, <1>6, <1>7, <1>8, <1>9 DEF Next, WorkerStep

\* The Applyinator keeps the promise of its interface: requests are served from
\* a set of pending keys, one run per key at a time, failures are retried.
THEOREM ApplyinatorImplementsApplier == Spec => ImplementsApplier
<1>1. Init => Promise!Init
  BY DEF Init, Promise!Init
<1> QED BY <1>1, IInvAlways, RefinementStep, PTL DEF Spec, ImplementsApplier, Promise!Spec

=============================================================================
