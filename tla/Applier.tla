------------------------------- MODULE Applier -------------------------------
(***************************************************************************)
(* What an Applyinator promises (the comments of                           *)
(* internal/helm-project-operator/applier/applyinator.go, lines 29-53),    *)
(* without a queue and without workers: a key that was requested stays     *)
(* pending until a run of the apply function begins for it, a key is never *)
(* run twice at the same time, a failed run is owed a retry.               *)
(***************************************************************************)
CONSTANT Keys

VARIABLES pending,   \* keys requested and not yet picked up by a run
          retrying,  \* keys whose run failed and whose retry is not due yet
          running,   \* keys an apply function is running for
          closed     \* the Applyinator was shut down: requests are dropped

vars == <<pending, retrying, running, closed>>

Init ==
  /\ pending = {}
  /\ retrying = {}
  /\ running = {}
  /\ closed = FALSE

Request(k) ==
  /\ ~closed
  /\ pending' = pending \cup {k}
  /\ UNCHANGED <<retrying, running, closed>>

Begin(k) ==
  /\ k \in pending
  /\ k \notin running
  /\ pending' = pending \ {k}
  /\ running' = running \cup {k}
  /\ UNCHANGED <<retrying, closed>>

Succeed(k) ==
  /\ k \in running
  /\ running' = running \ {k}
  /\ UNCHANGED <<pending, retrying, closed>>

\* Once the Applyinator is closed nothing is retried.
Fail(k) ==
  /\ k \in running
  /\ running' = running \ {k}
  /\ retrying' = IF closed THEN retrying ELSE retrying \cup {k}
  /\ UNCHANGED <<pending, closed>>

Retry(k) ==
  /\ k \in retrying
  /\ retrying' = retrying \ {k}
  /\ pending' = pending \cup {k}
  /\ UNCHANGED <<running, closed>>

\* What is already pending is still run, what waits for a retry is dropped.
Close ==
  /\ ~closed
  /\ closed' = TRUE
  /\ retrying' = {}
  /\ UNCHANGED <<pending, running>>

Next ==
  \/ \E k \in Keys : Request(k) \/ Begin(k) \/ Succeed(k) \/ Fail(k) \/ Retry(k)
  \/ Close

Spec == Init /\ [][Next]_vars
=============================================================================
