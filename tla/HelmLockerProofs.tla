--------------------------- MODULE HelmLockerProofs ---------------------------
(***************************************************************************)
(* For all sets of release keys, resources and manifests, every choice of  *)
(* what users and Helm may do, and every bound: the types of the release   *)
(* controller composed with the register, that a HelmRelease has one       *)
(* manager, and that those of other managers are left alone.               *)
(***************************************************************************)
EXTENDS HelmLocker, ObjectSetRegisterProofs

Copy == [obj : Release, fresh : BOOLEAN]
Ctrl == [pc : CtrlPCs, obj : Release, fresh : BOOLEAN, info : Secret]

\* What HLTypeOK says beyond the register.
HLTypes ==
  /\ release \in [Keys -> Release]
  /\ cached \in [Keys -> Copy]
  /\ relDirty \subseteq Keys
  /\ secret \in [Keys -> Secret]
  /\ secretDirty \subseteq Keys
  /\ ctrl \in [Keys -> Ctrl]

\* Every Helm operation is counted, so the revisions are bounded by the operations.
VersionsBounded == \A k \in Keys : secret[k].version <= ops + 1

\* HLTypeOK is inductive with the register's invariant, and with the revisions.
HLInv == IInv /\ HLTypes /\ VersionsBounded

-----------------------------------------------------------------------------
(* Types of what is written.                                               *)

\* The empty objects, and a worker without work.
LEMMA NothingTyped ==
  NoRelease \in Release /\ NewRelease \in Release /\ NoSecret \in Secret /\ IdleCtrl \in Ctrl
<1>1. 0 \in Versions
  BY ConstantsAssumption DEF Versions
<1>2. NoRelease \in Release /\ NoSecret \in Secret
  BY <1>1 DEF NoRelease, NoSecret, Release, Secret, Managers, States, Statuses
<1>3. NewRelease \in Release
  BY <1>2 DEF NewRelease, Release
<1> QED BY <1>2, <1>3 DEF IdleCtrl, Ctrl, CtrlPCs

\* A worker that goes on, and one that returns from OnHelmRelease.
LEMMA ReturnTyped ==
  ASSUME NEW k \in Keys, ctrl[k] \in Ctrl
  PROVE  /\ \A pc \in CtrlPCs : At(k, pc) \in Ctrl
         /\ \A obj \in Release : Return(k, obj) \in Ctrl
<1>1. \A pc \in CtrlPCs : At(k, pc) \in Ctrl
  BY DEF At, Ctrl
<1>2. ASSUME NEW obj \in Release
      PROVE  Return(k, obj) \in Ctrl
  BY <1>2, NothingTyped DEF Return, Ctrl, CtrlPCs
<1> QED BY <1>1, <1>2

\* The status takes over a version that some secret has, or none.
LEMMA StatusTyped ==
  ASSUME NEW k \in Keys, ctrl[k] \in Ctrl, NEW state \in States, NEW version \in Versions
  PROVE  WithStatus(k, state, version) \in Release
BY DEF WithStatus, Ctrl, Release

\* newReleaseInfo gives a state of the HelmRelease.
LEMMA StateTyped == \A status : StateOf(status) \in States
BY DEF StateOf, States

\* A write of the controller, done or refused.
LEMMA WritesTyped ==
  ASSUME IInv, HLTypes, NEW k \in Keys, NEW obj \in Release, NEW next \in Ctrl,
         Writes(k, obj, next) \/ WriteRefused(k, next)
  PROVE  /\ release' \in [Keys -> Release]
         /\ cached' \in [Keys -> Copy]
         /\ relDirty' \subseteq Keys
         /\ ctrl' \in [Keys -> Ctrl]
         /\ fails' \in 0..MaxFail
<1>1. [cached EXCEPT ![k].fresh = FALSE] \in [Keys -> Copy]
  <2>1. [cached[k] EXCEPT !.fresh = FALSE] \in Copy
    BY DEF HLTypes, Copy
  <2> QED BY <2>1 DEF HLTypes
<1>2. fails \in 0..MaxFail
  BY DEF IInv, TypeOK
<1>3. CASE Writes(k, obj, next)
  BY <1>1, <1>2, <1>3 DEF Writes, Outdate, HLTypes
<1>4. CASE WriteRefused(k, next)
  <2>1. fails' \in 0..MaxFail
    BY <1>2, <1>4, ConstantsAssumption DEF WriteRefused
  <2> QED BY <1>4, <2>1 DEF WriteRefused, ReturnError, HLTypes
<1> QED BY <1>3, <1>4

-----------------------------------------------------------------------------
(* What a step does to the register.                                       *)

\* Nothing of the register changes, but what counts the operations and failures.
Counts ==
  /\ UNCHANGED <<registerVars, keyByResource, store, dirtyKeys, client, handler, watcher,
                 watched, clusterVars, drifts>>
  /\ ops' \in 0..MaxOps /\ fails' \in 0..MaxFail

\* A step of the release controller calls the register or only counts failures.
CtrlCalls(k) == Calls(k) /\ UNCHANGED ops

\* What a step of the release controller on k does to the register: a call, or
\* nothing but a failure that is counted.
LEMMA CtrlToRegister ==
  ASSUME IInv, HLTypes, NEW k \in Keys, CtrlStep(k)
  PROVE  /\ (CtrlCalls(k) /\ ctrl[k].pc \notin {"idle", "claim"}) \/ Counts
         /\ UNCHANGED <<ops, helmVars>>
<1>0. ops \in 0..MaxOps /\ fails \in 0..MaxFail /\ ctrl[k] \in Ctrl
  BY DEF IInv, TypeOK, HLTypes
<1>1. CASE CtrlBegin(k) \/ LastFound(k)
  BY <1>0, <1>1 DEF CtrlBegin, LastFound, Counts, vars, bounds
<1>2. CASE Claim(k) \/ AddFinalizer(k) \/ RemoveFinalizer(k)
  <2>1. fails' \in 0..MaxFail
    BY <1>0, <1>2, ConstantsAssumption
       DEF Claim, AddFinalizer, RemoveFinalizer, Writes, WriteRefused
  <2> QED BY <1>0, <1>2, <2>1 DEF Claim, AddFinalizer, RemoveFinalizer, Counts
<1>3. CASE StatusNotFound(k) \/ StatusFound(k)
  <2>1. fails' \in 0..MaxFail
    BY <1>0, <1>3, ConstantsAssumption DEF StatusNotFound, StatusFound, Writes, WriteRefused
  <2> QED BY <1>0, <1>3, <2>1 DEF StatusNotFound, StatusFound, Counts
<1>4. CASE LastFails(k)
  BY <1>0, <1>4, ConstantsAssumption DEF LastFails, Counts
<1>5. CASE LastNotFound(k)
  BY <1>5 DEF LastNotFound, CtrlCalls, Calls
<1>6. CASE Register(k)
  <2>1. ctrl[k].info.os \in ObjectSets \cup {Nil}
    BY <1>0 DEF Ctrl, Secret
  <2> QED BY <1>6, <2>1 DEF Register, CtrlCalls, Calls
<1>7. CASE OnHelmReleaseRemove(k)
  BY <1>0, <1>7 DEF OnHelmReleaseRemove, CtrlCalls, Calls, Counts, vars, bounds
<1> QED BY <1>1, <1>2, <1>3, <1>4, <1>5, <1>6, <1>7 DEF CtrlStep

\* What any step does to the register.
LEMMA RegisterSteps ==
  ASSUME HLInv, [HLNext]_hlVars
  PROVE  \/ Locker \/ Resync \/ \E r \in Resources : Drift(r)
         \/ \E k \in Keys : CtrlStep(k) /\ CtrlCalls(k)
         \/ \E k \in Keys : HelmApplies(k)
         \/ Counts
<1>0. ops \in 0..MaxOps /\ fails \in 0..MaxFail
  BY DEF HLInv, IInv, TypeOK
<1>1. ASSUME UNCHANGED vars
      PROVE  Counts
  BY <1>0, <1>1 DEF vars, bounds, Counts
<1>2. ASSUME NEW k \in Keys, NEW obj, UserWrites(k, obj)
      PROVE  Counts
  BY <1>0, <1>2, ConstantsAssumption DEF UserWrites, UseOp, Counts
<1>3. ASSUME NEW k \in Keys,
             CreateRelease(k) \/ DeleteRelease(k) \/ OtherClaims(k)
      PROVE  Counts
  BY <1>2, <1>3 DEF CreateRelease, DeleteRelease, OtherClaims
<1>4. ASSUME NEW k \in Keys, SecretDeleted(k) \/ HelmStarts(k)
      PROVE  Counts
  BY <1>0, <1>4, ConstantsAssumption DEF SecretDeleted, HelmStarts, UseOp, Counts
<1>5. ASSUME NEW k \in Keys, HelmFinishes(k) \/ SyncRelease(k) \/ SyncSecret(k)
      PROVE  Counts
  BY <1>1, <1>5 DEF HelmFinishes, SyncRelease, SyncSecret
<1>6. ASSUME NEW k \in Keys, CtrlStep(k)
      PROVE  CtrlCalls(k) \/ Counts
  BY <1>6, CtrlToRegister DEF HLInv
<1>7. CASE ResyncReleases \/ UNCHANGED hlVars
  BY <1>1, <1>7 DEF ResyncReleases, hlVars
<1>8. CASE QuietResync
  BY <1>8 DEF QuietResync
<1> QED BY <1>3, <1>4, <1>5, <1>6, <1>7, <1>8 DEF HLNext, Environment

-----------------------------------------------------------------------------
(* The type invariant.                                                     *)

\* The register stays typed, and no goroutine follows a pointer it does not have.
LEMMA RegisterKept ==
  ASSUME HLInv, [HLNext]_hlVars
  PROVE  IInv'
<1> USE DEF HLInv
<1>1. CASE Locker \/ Resync \/ \E r \in Resources : Drift(r)
  <2>1. Next
    BY <1>1 DEF Next
  <2>2. TypeOK'
    BY <1>1, DeleteTyped, HandlerTyped, WatcherTyped, OthersTyped DEF Locker, IInv
  <2> QED BY <2>1, <2>2, NoNilStep DEF IInv
<1>2. CASE \E k \in Keys : CtrlStep(k) /\ CtrlCalls(k)
  <2>1. ops \in 0..MaxOps
    BY DEF IInv, TypeOK
  <2> QED BY <1>2, <2>1, CallsTyped, CallsNoNil DEF CtrlCalls, IInv
<1>3. CASE \E k \in Keys : HelmApplies(k)
  <2>1. PICK k \in Keys : HelmApplies(k)
    BY <1>3
  <2>2. secret[k].os \in ObjectSets \cup {Nil}
    BY DEF HLTypes, Secret
  <2>3. Desired(secret[k].os) # {} => secret[k].os \in ObjectSets
    BY <2>2 DEF Desired
  <2>4. cluster' \in [Resources -> ObjectSets \cup {Drifted, Nil}]
    BY <2>1, <2>3 DEF HelmApplies, WriteCluster
  <2>5. owner' \in [Resources -> Keys \cup {Nil}]
    BY <2>1 DEF HelmApplies, WriteCluster, IInv, TypeOK
  <2>6. dirtyResources' \subseteq Resources
    BY <2>1 DEF HelmApplies, WriteCluster, IInv, TypeOK
  <2>7. UNCHANGED <<registerVars, keyByResource, store, dirtyKeys, client, handler, watcher,
                    watched, bounds>>
    BY <2>1 DEF HelmApplies
  <2> QED BY <2>4, <2>5, <2>6, <2>7 DEF IInv, TypeOK, NoNilDereference, registerVars, bounds
<1>4. CASE Counts
  BY <1>4 DEF Counts, IInv, TypeOK, NoNilDereference, registerVars, clusterVars
<1> QED BY <1>1, <1>2, <1>3, <1>4, RegisterSteps

\* A step of the release controller keeps its own variables typed.
LEMMA CtrlTyped ==
  ASSUME HLInv, NEW k \in Keys, CtrlStep(k)
  PROVE  HLTypes'
<1> USE DEF HLInv
<1>0. ctrl[k] \in Ctrl /\ cached[k] \in Copy /\ secret[k] \in Secret
  BY DEF HLTypes
<1>1. UNCHANGED helmVars
  BY CtrlToRegister
<1>2. ASSUME NEW obj \in Release, NEW next \in Ctrl,
             Writes(k, obj, next) \/ WriteRefused(k, next)
      PROVE  HLTypes'
  BY <1>1, <1>2, WritesTyped DEF HLTypes, helmVars
<1>3. ASSUME NEW next \in Ctrl, ctrl' = [ctrl EXCEPT ![k] = next],
             relDirty' \subseteq Keys, UNCHANGED <<release, cached>>
      PROVE  HLTypes'
  BY <1>1, <1>3 DEF HLTypes, helmVars
<1>4. CASE CtrlBegin(k)
  <2>1. \A pc \in CtrlPCs :
          [IdleCtrl EXCEPT !.pc = pc, !.obj = cached[k].obj, !.fresh = cached[k].fresh] \in Ctrl
    BY <1>0, NothingTyped DEF Ctrl, Copy
  <2>2. \E next \in Ctrl : ctrl' = [ctrl EXCEPT ![k] = next]
    BY <1>4, <2>1, NothingTyped DEF CtrlBegin, CtrlPCs
  <2> QED BY <1>3, <1>4, <2>2 DEF CtrlBegin, HLTypes
<1>5. CASE Claim(k)
  <2>1. [ctrl[k].obj EXCEPT !.managedBy = "us"] \in Release
    BY <1>0 DEF Ctrl, Release, Managers
  <2> QED BY <1>2, <1>5, <2>1, NothingTyped DEF Claim
<1>6. CASE LastNotFound(k)
  <2>1. At(k, "notfound") \in Ctrl
    BY <1>0, ReturnTyped DEF CtrlPCs
  <2> QED BY <1>3, <1>6, <2>1 DEF LastNotFound, crVars, HLTypes
<1>7. CASE LastFound(k)
  <2>1. [At(k, "status") EXCEPT !.info = secret[k]] \in Ctrl
    BY <1>0 DEF At, Ctrl, CtrlPCs
  <2> QED BY <1>3, <1>7, <2>1 DEF LastFound, crVars, HLTypes
<1>8. CASE LastFails(k)
  <2>1. Return(k, ctrl[k].obj) \in Ctrl
    BY <1>0, ReturnTyped DEF Ctrl
  <2> QED BY <1>3, <1>8, <2>1 DEF LastFails, ReturnError, HLTypes
<1>9. CASE StatusNotFound(k)
  <2>0. "SecretNotFound" \in States /\ 0 \in Versions
    BY ConstantsAssumption DEF States, Versions
  <2>1. WithStatus(k, "SecretNotFound", 0) \in Release
    BY <1>0, <2>0, StatusTyped
  <2>2. \A obj \in Release : Return(k, obj) \in Ctrl
    BY <1>0, ReturnTyped
  <2>3. ctrl[k].obj \in Release
    BY <1>0 DEF Ctrl
  <2> QED BY <1>2, <1>9, <2>1, <2>2, <2>3 DEF StatusNotFound
<1>10. CASE StatusFound(k)
  <2> DEFINE obj == WithStatus(k, StateOf(ctrl[k].info.status), ctrl[k].info.version)
  <2>1. ctrl[k].info.version \in Versions /\ ctrl[k].obj \in Release
    BY <1>0 DEF Ctrl, Secret
  <2>2. obj \in Release
    BY <1>0, <2>1, StatusTyped, StateTyped
  <2>3. [At(k, "register") EXCEPT !.obj = obj] \in Ctrl
    BY <1>0, <2>2 DEF At, Ctrl, CtrlPCs
  <2>4. Return(k, ctrl[k].obj) \in Ctrl
    BY <1>0, <2>1, ReturnTyped
  <2>5. \/ Writes(k, obj, [At(k, "register") EXCEPT !.obj = obj])
        \/ WriteRefused(k, Return(k, ctrl[k].obj))
    BY <1>10 DEF StatusFound
  <2> HIDE DEF obj
  <2> QED BY <1>2, <2>1, <2>2, <2>3, <2>4, <2>5
<1>11. CASE Register(k)
  <2>1. Return(k, ctrl[k].obj) \in Ctrl
    BY <1>0, ReturnTyped DEF Ctrl
  <2> QED BY <1>3, <1>11, <2>1 DEF Register, crVars, HLTypes
<1>12. CASE AddFinalizer(k)
  <2>1. [ctrl[k].obj EXCEPT !.finalizer = TRUE] \in Release
    BY <1>0 DEF Ctrl, Release
  <2> QED BY <1>2, <1>12, <2>1, NothingTyped DEF AddFinalizer
<1>13. CASE OnHelmReleaseRemove(k)
  <2>1. At(k, "removed") \in Ctrl
    BY <1>0, ReturnTyped DEF CtrlPCs
  <2> QED BY <1>3, <1>13, <2>1 DEF OnHelmReleaseRemove, crVars, HLTypes
<1>14. CASE RemoveFinalizer(k)
  BY <1>2, <1>14, NothingTyped DEF RemoveFinalizer
<1> QED BY <1>4, <1>5, <1>6, <1>7, <1>8, <1>9, <1>10, <1>11, <1>12, <1>13, <1>14 DEF CtrlStep

\* So does what users and Helm write, and what the informers copy.
LEMMA OthersWriteTypes ==
  ASSUME HLInv, NEW k \in Keys,
         \/ CreateRelease(k) \/ DeleteRelease(k) \/ OtherClaims(k)
         \/ SecretDeleted(k) \/ HelmStarts(k) \/ HelmApplies(k) \/ HelmFinishes(k)
         \/ SyncRelease(k) \/ SyncSecret(k)
  PROVE  HLTypes'
<1> USE DEF HLInv
<1>0. /\ release[k] \in Release /\ secret[k] \in Secret /\ cached[k] \in Copy
      /\ ctrl[k] \in Ctrl
      /\ ops \in 0..MaxOps /\ secret[k].version <= ops + 1
  BY DEF IInv, TypeOK, HLTypes, VersionsBounded
<1>1. ASSUME NEW obj \in Release, UserWrites(k, obj)
      PROVE  HLTypes'
  <2>1. [cached[k] EXCEPT !.fresh = FALSE] \in Copy
    BY <1>0 DEF Copy
  <2>2. [ctrl[k] EXCEPT !.fresh = FALSE] \in Ctrl
    BY <1>0 DEF Ctrl
  <2>3. /\ cached' = [cached EXCEPT ![k] = [cached[k] EXCEPT !.fresh = FALSE]]
        /\ ctrl' = [ctrl EXCEPT ![k] = [ctrl[k] EXCEPT !.fresh = FALSE]]
    BY <1>1 DEF UserWrites, Outdate
  <2>4. cached' \in [Keys -> Copy] /\ ctrl' \in [Keys -> Ctrl]
    BY <2>1, <2>2, <2>3 DEF HLTypes
  <2> QED BY <1>1, <2>4 DEF UserWrites, HLTypes, helmVars
<1>2. ASSUME NEW s \in Secret, HelmWrites(k, s), UNCHANGED <<crVars, ctrl>>
      PROVE  HLTypes'
  BY <1>2 DEF HelmWrites, HLTypes, crVars
<1>3. CASE CreateRelease(k)
  BY <1>1, <1>3, NothingTyped DEF CreateRelease
<1>4. CASE DeleteRelease(k)
  <2>1. [release[k] EXCEPT !.deleting = TRUE] \in Release
    BY <1>0 DEF Release
  <2> QED BY <1>1, <1>4, <2>1, NothingTyped DEF DeleteRelease
<1>5. CASE OtherClaims(k)
  <2>1. [release[k] EXCEPT !.managedBy = "other"] \in Release
    BY <1>0 DEF Release, Managers
  <2> QED BY <1>1, <1>5, <2>1 DEF OtherClaims
<1>6. CASE SecretDeleted(k)
  BY <1>2, <1>6, NothingTyped DEF SecretDeleted
<1>7. CASE HelmStarts(k)
  <2>1. ASSUME NEW os \in ObjectSets
        PROVE  [status |-> "pending", os |-> os, version |-> secret[k].version + 1] \in Secret
    <3>1. ops < MaxOps
      BY <1>7 DEF HelmStarts, UseOp
    <3>2. secret[k].version \in Versions
      BY <1>0 DEF Secret
    <3>3. secret[k].version + 1 \in Versions
      BY <1>0, <3>1, <3>2, ConstantsAssumption DEF Versions
    <3> QED BY <2>1, <3>3 DEF Secret, Statuses
  <2>2. [secret[k] EXCEPT !.status = "pending", !.os = Nil] \in Secret
    BY <1>0 DEF Secret, Statuses
  <2> QED BY <1>2, <1>7, <2>1, <2>2 DEF HelmStarts
<1>8. CASE HelmApplies(k)
  <2>1. [secret[k] EXCEPT !.status = "written"] \in Secret
    BY <1>0 DEF Secret, Statuses
  <2>2. secret' = [secret EXCEPT ![k] = [secret[k] EXCEPT !.status = "written"]]
    BY <1>8 DEF HelmApplies
  <2>3. secret' \in [Keys -> Secret]
    BY <2>1, <2>2 DEF HLTypes
  <2> QED BY <1>8, <2>3 DEF HelmApplies, HLTypes, crVars
<1>9. CASE HelmFinishes(k)
  <2>1. \A status \in Statuses : [secret[k] EXCEPT !.status = status] \in Secret
    BY <1>0 DEF Secret
  <2>2. \E s \in Secret : HelmWrites(k, s)
    BY <1>9, <2>1, NothingTyped DEF HelmFinishes, Statuses
  <2> QED BY <1>2, <1>9, <2>2 DEF HelmFinishes
<1>10. CASE SyncRelease(k)
  <2>1. [obj |-> release[k], fresh |-> TRUE] \in Copy
    BY <1>0 DEF Copy
  <2> QED BY <1>10, <2>1 DEF SyncRelease, HLTypes, helmVars
<1>11. CASE SyncSecret(k)
  BY <1>11 DEF SyncSecret, HLTypes
<1> QED BY <1>3, <1>4, <1>5, <1>6, <1>7, <1>8, <1>9, <1>10, <1>11

\* A revision is new only with an operation.
LEMMA VersionsStep ==
  ASSUME HLInv, [HLNext]_hlVars, HLTypes'
  PROVE  VersionsBounded'
<1>0. /\ secret \in [Keys -> Secret] /\ ops \in Nat
      /\ \A k \in Keys : secret[k].version \in Nat /\ secret[k].version <= ops + 1
  BY ConstantsAssumption DEF HLInv, IInv, TypeOK, HLTypes, Secret, Versions, VersionsBounded
<1>1. ASSUME UNCHANGED secret, ops' \in {ops, ops + 1}
      PROVE  VersionsBounded'
  BY <1>0, <1>1 DEF VersionsBounded
<1>2. ASSUME NEW k \in Keys, NEW s, secret' = [secret EXCEPT ![k] = s],
             ops' \in {ops, ops + 1}, s.version \in Nat, s.version <= ops' + 1
      PROVE  VersionsBounded'
  <2>1. \A j \in Keys : secret'[j] = IF j = k THEN s ELSE secret[j]
    BY <1>0, <1>2
  <2> QED BY <1>0, <1>2, <2>1 DEF VersionsBounded
<1>3. ASSUME NEW k \in Keys, CtrlStep(k)
      PROVE  VersionsBounded'
  BY <1>1, <1>3, CtrlToRegister DEF HLInv, helmVars
<1>4. ASSUME NEW k \in Keys, CreateRelease(k) \/ DeleteRelease(k) \/ OtherClaims(k)
      PROVE  VersionsBounded'
  BY <1>1, <1>4 DEF CreateRelease, DeleteRelease, OtherClaims, UserWrites, UseOp, helmVars
<1>5. ASSUME NEW k \in Keys, SecretDeleted(k)
      PROVE  VersionsBounded'
  <2>1. secret' = [secret EXCEPT ![k] = NoSecret] /\ ops' = ops + 1
    BY <1>5 DEF SecretDeleted, HelmWrites, UseOp
  <2>2. NoSecret.version = 0
    BY DEF NoSecret
  <2>3. ops' \in {ops, ops + 1} /\ NoSecret.version \in Nat /\ NoSecret.version <= ops' + 1
    BY <1>0, <2>1, <2>2
  <2> QED BY <1>2, <2>1, <2>3
<1>6. ASSUME NEW k \in Keys, HelmStarts(k)
      PROVE  VersionsBounded'
  <2>1. ops' = ops + 1
    BY <1>6 DEF HelmStarts, UseOp
  <2>2. PICK s : /\ secret' = [secret EXCEPT ![k] = s]
                 /\ s.version \in {secret[k].version, secret[k].version + 1}
    <3>1. [secret[k] EXCEPT !.status = "pending", !.os = Nil].version = secret[k].version
      BY <1>0 DEF Secret
    <3> QED BY <1>6, <3>1 DEF HelmStarts, HelmWrites
  <2>3. s.version \in Nat /\ s.version <= ops' + 1
    BY <1>0, <2>1, <2>2
  <2> QED BY <1>2, <2>1, <2>2, <2>3
<1>7. ASSUME NEW k \in Keys, HelmApplies(k) \/ HelmFinishes(k)
      PROVE  VersionsBounded'
  <2>1. ops' = ops
    BY <1>7 DEF HelmApplies, HelmFinishes, vars, bounds
  <2>2. \A status : [secret[k] EXCEPT !.status = status].version = secret[k].version
    BY <1>0 DEF Secret
  <2>3. NoSecret.version = 0
    BY DEF NoSecret
  <2>4. PICK s : secret' = [secret EXCEPT ![k] = s] /\ s.version \in {secret[k].version, 0}
    BY <1>7, <2>2, <2>3 DEF HelmApplies, HelmFinishes, HelmWrites
  <2>5. s.version \in Nat /\ s.version <= ops' + 1
    BY <1>0, <2>1, <2>4
  <2> QED BY <1>2, <2>1, <2>4, <2>5
<1>8. ASSUME NEW k \in Keys, SyncRelease(k) \/ SyncSecret(k)
      PROVE  VersionsBounded'
  BY <1>1, <1>8 DEF SyncRelease, SyncSecret, vars, bounds, helmVars
<1>9. ASSUME NEW k \in Keys, DeleteStep(k) \/ HandlerStep(k)
      PROVE  UNCHANGED ops
  BY <1>9 DEF DeleteStep, DeleteGet, DeleteFromMap, DeleteObjectSet, DeleteLocked, DeleteSend,
              RemoveUnlock, RemovePurge, HandlerStep, HandlerBegin, HandlerRead, HandlerApply,
              HandlerLockGet, HandlerLockAdd, bounds
<1>10. ASSUME NEW r \in Resources, WatcherStep(r) \/ Drift(r)
       PROVE  UNCHANGED ops
  BY <1>10 DEF WatcherStep, Resolve, EnqueueGet, EnqueueCopy, EnqueueSet, Drift, bounds
<1>11. CASE \/ Locker /\ UNCHANGED lockerVars
            \/ \E r \in Resources : Drift(r) /\ UNCHANGED lockerVars
            \/ QuietResync \/ ResyncReleases \/ UNCHANGED hlVars
  <2>1. UNCHANGED secret
    BY <1>11 DEF QuietResync, ResyncReleases, hlVars, lockerVars, helmVars
  <2>2. UNCHANGED ops
    BY <1>9, <1>10, <1>11
       DEF Locker, Deliver, QuietResync, Resync, ResyncReleases, hlVars, vars, bounds
  <2> QED BY <1>1, <2>1, <2>2
<1> QED BY <1>3, <1>4, <1>5, <1>6, <1>7, <1>8, <1>11 DEF HLNext, Environment

\* The initial states are typed.
LEMMA HLInitTyped == HLInit => HLInv
<1> SUFFICES ASSUME HLInit PROVE HLInv
  OBVIOUS
<1>1. 1 \in Versions /\ 0 \in Versions
  BY ConstantsAssumption DEF Versions
<1>2. secret \in [Keys -> Secret]
  <2>1. [status : {"deployed"}, os : InitManifests, version : {1}] \subseteq Secret
    BY <1>1, InitManifestsAssumption DEF Secret, Statuses
  <2> QED BY <2>1, NothingTyped DEF HLInit
<1>3. release \in [Keys -> Release]
  BY InitReleasesAssumption DEF HLInit
<1>4. cached \in [Keys -> Copy]
  BY <1>3 DEF HLInit, Copy
<1>5. HLTypes
  BY <1>2, <1>3, <1>4, NothingTyped DEF HLInit, HLTypes
<1>6. VersionsBounded
  <2>1. ops = 0
    BY DEF HLInit, RegisterInit
  <2>2. ASSUME NEW k \in Keys
        PROVE  secret[k].version <= 1
    <3>1. secret[k] \in {NoSecret} \cup [status : {"deployed"}, os : InitManifests, version : {1}]
      BY DEF HLInit
    <3>2. secret[k].version = 0 \/ secret[k].version = 1
      BY <3>1 DEF NoSecret
    <3> QED BY <3>2
  <2>3. ops + 1 = 1
    BY <2>1
  <2> QED BY <2>2, <2>3 DEF VersionsBounded
<1>7. cluster \in [Resources -> ObjectSets \cup {Drifted, Nil}]
  BY <1>2 DEF HLInit, Secret
<1>8. TypeOK
  <2>0. RegisterInit
    BY DEF HLInit
  <2>1. heap \in [Ptrs -> State]
    BY <2>0 DEF RegisterInit, EmptyState, State
  <2>2. stateChanges \in Seq(Event) /\ Len(stateChanges) <= ChanCap
    BY <2>0, ConstantsAssumption DEF RegisterInit
  <2>3. client \in [Keys -> Client] /\ handler \in [Keys -> Handler]
        /\ watcher \in [Resources -> Watcher]
    BY <2>0, IdleTypes DEF RegisterInit
  <2>4. /\ stateByKey \in [Keys -> Ptrs \cup {Nil}]
        /\ keyByResource \in [Resources -> Keys \cup {Nil}]
        /\ store \in [Keys -> Ptrs \cup {Nil}]
        /\ dirtyKeys \subseteq Keys /\ watched \subseteq GVKs
        /\ dirtyResources \subseteq Resources
        /\ owner \in [Resources -> Keys \cup {Nil}]
        /\ ops \in 0..MaxOps /\ drifts \in 0..MaxDrift /\ fails \in 0..MaxFail
    BY <2>0, ConstantsAssumption DEF RegisterInit
  <2> QED BY <1>7, <2>1, <2>2, <2>3, <2>4 DEF TypeOK, Client, Handler, Watcher
<1>9. NoNilDereference
  BY DEF HLInit, RegisterInit, IdleClient, IdleHandler, IdleWatcher, NoNilDereference
<1> QED BY <1>5, <1>6, <1>8, <1>9 DEF HLInv, IInv

\* The inductive invariant of the types.
LEMMA HLInvAlways == HLSpec => []HLInv
<1>1. HLInv /\ [HLNext]_hlVars => HLInv'
  <2> SUFFICES ASSUME HLInv, [HLNext]_hlVars PROVE HLInv'
    OBVIOUS
  <2>1. HLTypes'
    <3>1. CASE \/ Locker /\ UNCHANGED lockerVars
               \/ \E r \in Resources : Drift(r) /\ UNCHANGED lockerVars
               \/ QuietResync \/ UNCHANGED hlVars
      BY <3>1 DEF QuietResync, hlVars, lockerVars, crVars, helmVars, HLInv, HLTypes
    <3>2. CASE ResyncReleases
      BY <3>2 DEF ResyncReleases, helmVars, HLInv, HLTypes
    <3> QED BY <3>1, <3>2, CtrlTyped, OthersWriteTypes DEF HLNext, Environment
  <2> QED BY <2>1, RegisterKept, VersionsStep DEF HLInv
<1> QED BY <1>1, HLInitTyped, PTL DEF HLSpec

\* The release controller and the register keep their types, whatever Helm, the
\* users and other Helm Lockers do; in particular every version fits its bound.
THEOREM HLTypeCorrect == HLSpec => []HLTypeOK
<1>1. HLInv => HLTypeOK
  BY DEF HLInv, IInv, HLTypes, HLTypeOK, Copy, Ctrl
<1> QED BY <1>1, HLInvAlways, PTL

-----------------------------------------------------------------------------
(* A HelmRelease has one manager.                                          *)

\* The worker on k goes on with obj as its copy, or it is done.
GoesOnWith(k, obj) ==
  \/ ctrl'[k] = IdleCtrl
  \/ /\ ctrl[k].pc \notin {"idle", "claim"}
     /\ ctrl'[k].pc \notin {"idle", "claim"}
     /\ ctrl'[k].obj = obj /\ ctrl'[k].fresh = ctrl[k].fresh

\* It takes the key, and the cached copy, of a release it manages or can claim.
BeginsWith(k) ==
  /\ UNCHANGED <<release, cached>>
  /\ \/ ctrl'[k] = IdleCtrl
     \/ /\ ctrl'[k].obj = cached[k].obj /\ ctrl'[k].fresh = cached[k].fresh
        /\ ctrl'[k].obj.managedBy = IF ctrl'[k].pc = "claim" THEN "none" ELSE "us"

\* It writes obj: a claim, or a change that leaves the manager, or a removal.
WritesTo(k, obj) ==
  /\ ctrl[k].fresh /\ ctrl[k].pc # "idle"
  /\ release' = [release EXCEPT ![k] = obj]
  /\ IF obj = release[k] THEN UNCHANGED cached ELSE Outdate(k)
  /\ IF ctrl[k].pc = "claim" THEN obj.managedBy = "us"
     ELSE (~obj.present /\ ctrl'[k] = IdleCtrl) \/ obj.managedBy = ctrl[k].obj.managedBy
  /\ GoesOnWith(k, obj)

\* All it can do to the HelmRelease and its copies.
CtrlDoes(k) ==
  /\ \A j \in Keys \ {k} : ctrl'[j] = ctrl[j]
  /\ \/ BeginsWith(k)
     \/ UNCHANGED <<release, cached>> /\ GoesOnWith(k, ctrl[k].obj)
     \/ \E obj \in Release : WritesTo(k, obj)

\* A step of the release controller does one of these.
LEMMA CtrlEffect ==
  ASSUME HLTypes, NEW k \in Keys, CtrlStep(k)
  PROVE  CtrlDoes(k)
<1>0. ctrl \in [Keys -> Ctrl] /\ ctrl[k] \in Ctrl /\ ctrl[k].obj \in Release
  BY DEF HLTypes, Ctrl
<1>1. ASSUME NEW next \in Ctrl, ctrl' = [ctrl EXCEPT ![k] = next]
      PROVE  ctrl'[k] = next /\ \A j \in Keys \ {k} : ctrl'[j] = ctrl[j]
  BY <1>0, <1>1
<1>2. \A pc \in CtrlPCs : /\ At(k, pc) \in Ctrl
                          /\ At(k, pc).pc = pc /\ At(k, pc).obj = ctrl[k].obj
                          /\ At(k, pc).fresh = ctrl[k].fresh
  BY <1>0 DEF At, Ctrl
<1>3. \A obj \in Release :
        /\ Return(k, obj) \in Ctrl
        /\ \/ Return(k, obj) = IdleCtrl
           \/ /\ Return(k, obj).pc = "remove" /\ Return(k, obj).obj = obj
              /\ Return(k, obj).fresh = ctrl[k].fresh
  <2>1. ASSUME NEW obj \in Release
        PROVE  \/ Return(k, obj) = IdleCtrl
               \/ /\ Return(k, obj).pc = "remove" /\ Return(k, obj).obj = obj
                  /\ Return(k, obj).fresh = ctrl[k].fresh
    BY <1>0 DEF Return, Ctrl
  <2> QED BY <1>0, <2>1, ReturnTyped
<1>4. ASSUME ctrl[k].pc \notin {"idle", "claim"}, NEW obj \in Release, NEW next \in Ctrl,
             (~obj.present /\ next = IdleCtrl) \/ obj.managedBy = ctrl[k].obj.managedBy,
             \/ next = IdleCtrl
             \/ next.pc \notin {"idle", "claim"} /\ next.obj = obj /\ next.fresh = ctrl[k].fresh,
             Writes(k, obj, next)
      PROVE  CtrlDoes(k)
  <2>1. ctrl'[k] = next /\ \A j \in Keys \ {k} : ctrl'[j] = ctrl[j]
    BY <1>1, <1>4 DEF Writes
  <2> QED BY <1>4, <2>1 DEF Writes, WritesTo, GoesOnWith, CtrlDoes
<1>5. ASSUME NEW next \in Ctrl, ctrl' = [ctrl EXCEPT ![k] = next], UNCHANGED <<release, cached>>,
             \/ next = IdleCtrl
             \/ /\ ctrl[k].pc \notin {"idle", "claim"} /\ next.pc \notin {"idle", "claim"}
                /\ next.obj = ctrl[k].obj /\ next.fresh = ctrl[k].fresh
      PROVE  CtrlDoes(k)
  <2>1. ctrl'[k] = next /\ \A j \in Keys \ {k} : ctrl'[j] = ctrl[j]
    BY <1>1, <1>5
  <2> QED BY <1>5, <2>1 DEF GoesOnWith, CtrlDoes
<1>6. CASE CtrlBegin(k)
  <2> DEFINE go(pc) == [IdleCtrl EXCEPT !.pc = pc, !.obj = cached[k].obj,
                                        !.fresh = cached[k].fresh]
  <2>1. \A pc \in CtrlPCs : /\ go(pc) \in Ctrl /\ go(pc).pc = pc
                            /\ go(pc).obj = cached[k].obj /\ go(pc).fresh = cached[k].fresh
    BY NothingTyped DEF IdleCtrl, Ctrl, HLTypes, Copy
  <2>2. PICK next : /\ ctrl' = [ctrl EXCEPT ![k] = next]
                    /\ \/ next = IdleCtrl
                       \/ next = go("claim") /\ ShouldClaim(cached[k].obj)
                       \/ next \in {go("remove"), go("last")} /\ ShouldManage(cached[k].obj)
    BY <1>6 DEF CtrlBegin
  <2> HIDE DEF go
  <2>3. /\ next \in Ctrl
        /\ \/ next = IdleCtrl
           \/ /\ next.obj = cached[k].obj /\ next.fresh = cached[k].fresh
              /\ next.obj.managedBy = IF next.pc = "claim" THEN "none" ELSE "us"
    BY <2>1, <2>2, NothingTyped DEF ShouldClaim, ShouldManage, CtrlPCs
  <2>4. ctrl'[k] = next /\ \A j \in Keys \ {k} : ctrl'[j] = ctrl[j]
    BY <1>1, <2>2, <2>3
  <2>5. BeginsWith(k)
    BY <1>6, <2>4, <2>3 DEF CtrlBegin, BeginsWith
  <2> QED BY <2>4, <2>5 DEF CtrlDoes
<1>7. CASE Claim(k)
  <2> DEFINE obj == [ctrl[k].obj EXCEPT !.managedBy = "us"]
  <2>1. obj \in Release /\ obj.managedBy = "us"
    BY <1>0 DEF Release, Managers
  <2>2. Writes(k, obj, IdleCtrl) \/ WriteRefused(k, IdleCtrl)
    BY <1>7 DEF Claim
  <2> HIDE DEF obj
  <2>3. CASE Writes(k, obj, IdleCtrl)
    <3>1. ctrl'[k] = IdleCtrl /\ \A j \in Keys \ {k} : ctrl'[j] = ctrl[j]
      BY <1>1, <2>3, NothingTyped DEF Writes
    <3>2. WritesTo(k, obj)
      BY <1>7, <2>1, <2>3, <3>1 DEF Claim, Writes, WritesTo, GoesOnWith
    <3> QED BY <2>1, <3>1, <3>2 DEF CtrlDoes
  <2>4. CASE WriteRefused(k, IdleCtrl)
    BY <1>5, <2>4, NothingTyped DEF WriteRefused, ReturnError
  <2> QED BY <2>2, <2>3, <2>4
<1>8. CASE LastNotFound(k)
  <2>1. ctrl' = [ctrl EXCEPT ![k] = At(k, "notfound")] /\ ctrl[k].pc = "last"
        /\ UNCHANGED <<release, cached>>
    BY <1>8 DEF LastNotFound, crVars
  <2> QED BY <1>2, <1>5, <2>1 DEF CtrlPCs
<1>9. CASE LastFound(k)
  <2> DEFINE next == [At(k, "status") EXCEPT !.info = secret[k]]
  <2>1. /\ next \in Ctrl /\ next.pc = "status" /\ next.obj = ctrl[k].obj
        /\ next.fresh = ctrl[k].fresh
    BY <1>0 DEF At, Ctrl, CtrlPCs, HLTypes
  <2>2. ctrl' = [ctrl EXCEPT ![k] = next] /\ ctrl[k].pc = "last" /\ UNCHANGED <<release, cached>>
    BY <1>9 DEF LastFound, crVars
  <2> HIDE DEF next
  <2> QED BY <1>5, <2>1, <2>2
<1>10. CASE LastFails(k)
  <2>1. ctrl' = [ctrl EXCEPT ![k] = Return(k, ctrl[k].obj)] /\ ctrl[k].pc = "last"
        /\ UNCHANGED <<release, cached>>
    BY <1>10 DEF LastFails, ReturnError
  <2> QED BY <1>0, <1>3, <1>5, <2>1
<1>11. ASSUME NEW state \in States, NEW version \in Versions
       PROVE  /\ WithStatus(k, state, version) \in Release
              /\ WithStatus(k, state, version).managedBy = ctrl[k].obj.managedBy
  <2>1. WithStatus(k, state, version).managedBy = ctrl[k].obj.managedBy
    BY <1>0 DEF WithStatus, Release
  <2> QED BY <1>0, <2>1, StatusTyped
<1>12. CASE StatusNotFound(k)
  <2> DEFINE obj == WithStatus(k, "SecretNotFound", 0)
  <2>0. "SecretNotFound" \in States /\ 0 \in Versions
    BY ConstantsAssumption DEF States, Versions
  <2>1. obj \in Release /\ obj.managedBy = ctrl[k].obj.managedBy
    BY <1>11, <2>0
  <2>2. /\ Writes(k, obj, Return(k, obj)) \/ WriteRefused(k, Return(k, ctrl[k].obj))
        /\ ctrl[k].pc = "notfound"
    BY <1>12 DEF StatusNotFound
  <2> HIDE DEF obj
  <2>3. CASE Writes(k, obj, Return(k, obj))
    BY <1>3, <1>4, <2>1, <2>2, <2>3
  <2>4. CASE WriteRefused(k, Return(k, ctrl[k].obj))
    <3>1. ctrl' = [ctrl EXCEPT ![k] = Return(k, ctrl[k].obj)] /\ UNCHANGED <<release, cached>>
      BY <2>4 DEF WriteRefused, ReturnError
    <3> QED BY <1>0, <1>3, <1>5, <2>2, <3>1
  <2> QED BY <2>2, <2>3, <2>4
<1>13. CASE StatusFound(k)
  <2> DEFINE obj == WithStatus(k, StateOf(ctrl[k].info.status), ctrl[k].info.version)
             next == [At(k, "register") EXCEPT !.obj = obj]
  <2>0. ctrl[k].info.version \in Versions
    BY <1>0 DEF Ctrl, Secret
  <2>1. obj \in Release /\ obj.managedBy = ctrl[k].obj.managedBy
    BY <1>11, <2>0, StateTyped
  <2>2. /\ next \in Ctrl /\ next.pc = "register" /\ next.obj = obj
        /\ next.fresh = ctrl[k].fresh
    BY <1>0, <2>1 DEF At, Ctrl, CtrlPCs
  <2>3. /\ Writes(k, obj, next) \/ WriteRefused(k, Return(k, ctrl[k].obj))
        /\ ctrl[k].pc = "status"
    BY <1>13 DEF StatusFound
  <2> HIDE DEF obj, next
  <2>4. CASE Writes(k, obj, next)
    BY <1>4, <2>1, <2>2, <2>3, <2>4
  <2>5. CASE WriteRefused(k, Return(k, ctrl[k].obj))
    <3>1. ctrl' = [ctrl EXCEPT ![k] = Return(k, ctrl[k].obj)] /\ UNCHANGED <<release, cached>>
      BY <2>5 DEF WriteRefused, ReturnError
    <3> QED BY <1>0, <1>3, <1>5, <2>3, <3>1
  <2> QED BY <2>3, <2>4, <2>5
<1>14. CASE Register(k)
  <2>1. ctrl' = [ctrl EXCEPT ![k] = Return(k, ctrl[k].obj)] /\ ctrl[k].pc = "register"
        /\ UNCHANGED <<release, cached>>
    BY <1>14 DEF Register, crVars
  <2> QED BY <1>0, <1>3, <1>5, <2>1
<1>15. CASE AddFinalizer(k)
  <2> DEFINE obj == [ctrl[k].obj EXCEPT !.finalizer = TRUE]
  <2>1. obj \in Release /\ obj.managedBy = ctrl[k].obj.managedBy
    BY <1>0 DEF Release
  <2>2. (Writes(k, obj, IdleCtrl) \/ WriteRefused(k, IdleCtrl)) /\ ctrl[k].pc = "remove"
    BY <1>15 DEF AddFinalizer
  <2> HIDE DEF obj
  <2> QED BY <1>4, <1>5, <2>1, <2>2, NothingTyped DEF WriteRefused, ReturnError
<1>16. CASE OnHelmReleaseRemove(k)
  <2>1. ctrl' = [ctrl EXCEPT ![k] = At(k, "removed")] /\ ctrl[k].pc = "remove"
        /\ UNCHANGED <<release, cached>>
    BY <1>16 DEF OnHelmReleaseRemove, crVars
  <2> QED BY <1>2, <1>5, <2>1 DEF CtrlPCs
<1>17. CASE RemoveFinalizer(k)
  <2>1. NoRelease \in Release /\ ~NoRelease.present
    BY NothingTyped DEF NoRelease
  <2>2. (Writes(k, NoRelease, IdleCtrl) \/ WriteRefused(k, IdleCtrl)) /\ ctrl[k].pc = "removed"
    BY <1>17 DEF RemoveFinalizer
  <2> QED BY <1>4, <1>5, <2>1, <2>2, NothingTyped DEF WriteRefused, ReturnError
<1> QED BY <1>6, <1>7, <1>8, <1>9, <1>10, <1>12, <1>13, <1>14, <1>15, <1>16, <1>17
        DEF CtrlStep

\* A copy that is fresh is the object, and only what nobody manages is claimed.
CopyCurrent(k) ==
  /\ cached[k].fresh => cached[k].obj = release[k]
  /\ ctrl[k].fresh => ctrl[k].obj = release[k]
  /\ ctrl[k].pc = "claim" => ctrl[k].obj.managedBy = "none"

CopiesCurrent == \A k \in Keys : CopyCurrent(k)

\* The step that ClaimedOnce allows.
KeepsManagers ==
  \A k \in Keys :
    /\ release[k].present /\ release[k].managedBy # "none"
    /\ release'[k].present
    => release'[k].managedBy = release[k].managedBy

\* What users, other operators, Helm and the informers do to the HelmRelease of k.
LEMMA OthersEffect ==
  ASSUME HLTypes, NEW k \in Keys,
         \/ CreateRelease(k) \/ DeleteRelease(k) \/ OtherClaims(k)
         \/ SecretDeleted(k) \/ HelmStarts(k) \/ HelmApplies(k) \/ HelmFinishes(k)
         \/ SyncRelease(k) \/ SyncSecret(k)
  PROVE  /\ \A j \in Keys \ {k} : /\ release'[j] = release[j] /\ cached'[j] = cached[j]
                                  /\ ctrl'[j] = ctrl[j]
         /\ \/ UNCHANGED <<release, cached, ctrl>>
            \/ /\ UNCHANGED <<release, ctrl>>
               /\ cached'[k].obj = release[k]
            \/ /\ ~cached'[k].fresh /\ cached'[k].obj = cached[k].obj
               /\ ~ctrl'[k].fresh /\ ctrl'[k].obj = ctrl[k].obj /\ ctrl'[k].pc = ctrl[k].pc
               /\ \/ "create" \in EnvOps /\ ~release[k].present /\ release'[k] = NewRelease
                  \/ ~release'[k].present
                  \/ /\ release[k].present /\ release'[k].present
                     /\ \/ release'[k].managedBy = release[k].managedBy
                        \/ release[k].managedBy = "none" /\ release'[k].managedBy = "other"
<1>0. /\ release \in [Keys -> Release] /\ release[k] \in Release
      /\ cached \in [Keys -> Copy] /\ cached[k] \in Copy
      /\ ctrl \in [Keys -> Ctrl] /\ ctrl[k] \in Ctrl
  BY DEF HLTypes
<1>1. ASSUME NEW obj, UserWrites(k, obj)
      PROVE  /\ \A j \in Keys \ {k} : /\ release'[j] = release[j] /\ cached'[j] = cached[j]
                                      /\ ctrl'[j] = ctrl[j]
             /\ release'[k] = obj
             /\ ~cached'[k].fresh /\ cached'[k].obj = cached[k].obj
             /\ ~ctrl'[k].fresh /\ ctrl'[k].obj = ctrl[k].obj /\ ctrl'[k].pc = ctrl[k].pc
  <2>1. /\ release' = [release EXCEPT ![k] = obj]
        /\ cached' = [cached EXCEPT ![k] = [cached[k] EXCEPT !.fresh = FALSE]]
        /\ ctrl' = [ctrl EXCEPT ![k] = [ctrl[k] EXCEPT !.fresh = FALSE]]
    BY <1>1 DEF UserWrites, Outdate
  <2>2. /\ release'[k] = obj
        /\ cached'[k] = [cached[k] EXCEPT !.fresh = FALSE]
        /\ ctrl'[k] = [ctrl[k] EXCEPT !.fresh = FALSE]
    BY <1>0, <2>1
  <2>3. \A j \in Keys \ {k} : /\ release'[j] = release[j] /\ cached'[j] = cached[j]
                              /\ ctrl'[j] = ctrl[j]
    BY <1>0, <2>1
  <2> QED BY <1>0, <2>2, <2>3 DEF Copy, Ctrl
<1>2. CASE CreateRelease(k)
  BY <1>1, <1>2 DEF CreateRelease
<1>3. CASE DeleteRelease(k)
  <2>1. PICK obj : UserWrites(k, obj) /\ obj \in {[release[k] EXCEPT !.deleting = TRUE], NoRelease}
    BY <1>3 DEF DeleteRelease
  <2>2. /\ [release[k] EXCEPT !.deleting = TRUE].managedBy = release[k].managedBy
        /\ [release[k] EXCEPT !.deleting = TRUE].present = release[k].present
        /\ ~NoRelease.present
    BY <1>0 DEF Release, NoRelease
  <2>3. release[k].present
    BY <1>3 DEF DeleteRelease
  <2> QED BY <1>1, <2>1, <2>2, <2>3
<1>4. CASE OtherClaims(k)
  <2>1. /\ [release[k] EXCEPT !.managedBy = "other"].managedBy = "other"
        /\ [release[k] EXCEPT !.managedBy = "other"].present = release[k].present
    BY <1>0 DEF Release
  <2> QED BY <1>1, <1>4, <2>1 DEF OtherClaims
<1>5. CASE SecretDeleted(k) \/ HelmStarts(k) \/ HelmApplies(k) \/ HelmFinishes(k) \/ SyncSecret(k)
  BY <1>5 DEF SecretDeleted, HelmStarts, HelmApplies, HelmFinishes, SyncSecret, crVars
<1>6. CASE SyncRelease(k)
  <2>1. cached' = [cached EXCEPT ![k] = [obj |-> release[k], fresh |-> TRUE]]
        /\ UNCHANGED <<release, ctrl>>
    BY <1>6 DEF SyncRelease
  <2> QED BY <1>0, <2>1
<1> QED BY <1>2, <1>3, <1>4, <1>5, <1>6

\* Steps of neither kind leave the HelmReleases and their copies alone.
LEMMA OtherSteps ==
  ASSUME [HLNext]_hlVars
  PROVE  \/ \E k \in Keys : CtrlStep(k)
         \/ \E k \in Keys :
              \/ CreateRelease(k) \/ DeleteRelease(k) \/ OtherClaims(k)
              \/ SecretDeleted(k) \/ HelmStarts(k) \/ HelmApplies(k) \/ HelmFinishes(k)
              \/ SyncRelease(k) \/ SyncSecret(k)
         \/ UNCHANGED <<release, cached, ctrl>>
BY DEF HLNext, Environment, QuietResync, ResyncReleases, hlVars, lockerVars, crVars

\* A write makes every other copy stale; the writer goes on with what it wrote.
LEMMA CopiesStep ==
  ASSUME HLTypes, HLTypes', CopiesCurrent, [HLNext]_hlVars
  PROVE  CopiesCurrent' /\ KeepsManagers
<1>0. /\ release \in [Keys -> Release] /\ cached \in [Keys -> Copy]
      /\ IdleCtrl.pc = "idle" /\ ~IdleCtrl.fresh
  BY DEF HLTypes, IdleCtrl
<1>1. ASSUME NEW k \in Keys,
             \A j \in Keys \ {k} : /\ release'[j] = release[j] /\ cached'[j] = cached[j]
                                  /\ ctrl'[j] = ctrl[j],
             CopyCurrent(k)',
             release[k].present /\ release[k].managedBy # "none" /\ release'[k].present
               => release'[k].managedBy = release[k].managedBy
      PROVE  CopiesCurrent' /\ KeepsManagers
  BY <1>1 DEF CopiesCurrent, CopyCurrent, KeepsManagers
<1>2. CASE UNCHANGED <<release, cached, ctrl>>
  BY <1>2 DEF CopiesCurrent, CopyCurrent, KeepsManagers
<1>3. ASSUME NEW k \in Keys, CtrlStep(k)
      PROVE  CopiesCurrent' /\ KeepsManagers
  <2>0. CopyCurrent(k) /\ \A j \in Keys \ {k} : ctrl'[j] = ctrl[j]
    BY <1>3, CtrlEffect DEF CopiesCurrent, CtrlDoes
  <2>1. CASE BeginsWith(k)
    BY <1>0, <1>1, <2>0, <2>1 DEF BeginsWith, CopyCurrent
  <2>2. CASE UNCHANGED <<release, cached>> /\ GoesOnWith(k, ctrl[k].obj)
    BY <1>0, <1>1, <2>0, <2>2 DEF GoesOnWith, CopyCurrent
  <2>3. ASSUME NEW obj \in Release, WritesTo(k, obj)
        PROVE  CopiesCurrent' /\ KeepsManagers
    <3>1. release'[k] = obj /\ \A j \in Keys \ {k} : release'[j] = release[j]
      BY <1>0, <2>3 DEF WritesTo
    <3>2. /\ \A j \in Keys \ {k} : cached'[j] = cached[j]
          /\ cached'[k].fresh => cached'[k].obj = release'[k]
      <4>1. CASE obj = release[k]
        BY <2>0, <2>3, <3>1, <4>1 DEF WritesTo, CopyCurrent
      <4>2. CASE obj # release[k]
        <5>1. cached' = [cached EXCEPT ![k] = [cached[k] EXCEPT !.fresh = FALSE]]
          BY <2>3, <4>2 DEF WritesTo, Outdate
        <5>2. cached'[k] = [cached[k] EXCEPT !.fresh = FALSE]
          BY <1>0, <5>1
        <5>3. ~cached'[k].fresh
          BY <1>0, <5>2 DEF Copy
        <5> QED BY <1>0, <5>1, <5>3
      <4> QED BY <4>1, <4>2
    <3>3. ctrl[k].obj = release[k] /\ GoesOnWith(k, obj)
      BY <2>0, <2>3 DEF WritesTo, CopyCurrent
    <3>4. CopyCurrent(k)'
      BY <1>0, <3>1, <3>2, <3>3 DEF GoesOnWith, CopyCurrent
    <3>5. release[k].present /\ release[k].managedBy # "none" /\ release'[k].present
            => release'[k].managedBy = release[k].managedBy
      BY <2>0, <2>3, <3>1, <3>3 DEF WritesTo, CopyCurrent
    <3> QED BY <1>1, <2>0, <3>1, <3>2, <3>4, <3>5
  <2> QED BY <1>3, <2>1, <2>2, <2>3, CtrlEffect DEF CtrlDoes
<1>4. ASSUME NEW k \in Keys,
             \/ CreateRelease(k) \/ DeleteRelease(k) \/ OtherClaims(k)
             \/ SecretDeleted(k) \/ HelmStarts(k) \/ HelmApplies(k) \/ HelmFinishes(k)
             \/ SyncRelease(k) \/ SyncSecret(k)
      PROVE  CopiesCurrent' /\ KeepsManagers
  <2>0. CopyCurrent(k)
    BY DEF CopiesCurrent
  <2>1. \/ UNCHANGED <<release, cached, ctrl>>
        \/ UNCHANGED <<release, ctrl>> /\ cached'[k].obj = release[k]
        \/ /\ ~cached'[k].fresh /\ ~ctrl'[k].fresh
           /\ ctrl'[k].obj = ctrl[k].obj /\ ctrl'[k].pc = ctrl[k].pc
           /\ \/ ~release[k].present \/ ~release'[k].present
              \/ release'[k].managedBy = release[k].managedBy
              \/ release[k].managedBy = "none"
    BY <1>4, OthersEffect
  <2>2. /\ CopyCurrent(k)'
        /\ release[k].present /\ release[k].managedBy # "none" /\ release'[k].present
             => release'[k].managedBy = release[k].managedBy
    BY <2>0, <2>1 DEF CopyCurrent
  <2>3. \A j \in Keys \ {k} : /\ release'[j] = release[j] /\ cached'[j] = cached[j]
                              /\ ctrl'[j] = ctrl[j]
    BY <1>4, OthersEffect
  <2> QED BY <1>1, <2>2, <2>3
<1> QED BY <1>2, <1>3, <1>4, OtherSteps

\* Fresh copies are the object, in all reachable states.
LEMMA CopiesAlways == HLSpec => []CopiesCurrent
<1>1. HLInit => CopiesCurrent
  <2> SUFFICES ASSUME HLInit, NEW k \in Keys PROVE CopyCurrent(k)
    BY DEF CopiesCurrent
  <2>1. cached[k].obj = release[k] /\ ctrl[k] = IdleCtrl
    BY DEF HLInit
  <2> QED BY <2>1 DEF CopyCurrent, IdleCtrl
<1>2. HLInv /\ HLInv' /\ CopiesCurrent /\ [HLNext]_hlVars => CopiesCurrent'
  BY CopiesStep DEF HLInv
<1> QED BY <1>1, <1>2, HLInvAlways, PTL DEF HLSpec

\* The managed-by annotation is a lock: no HelmRelease that somebody manages gets another
\* manager, for any number of Helm Lockers acting on copies that may be outdated.
THEOREM ClaimedOnceAlways == HLSpec => ClaimedOnce
<1>1. HLInv /\ HLInv' /\ CopiesCurrent /\ [HLNext]_hlVars => [KeepsManagers]_release
  BY CopiesStep DEF HLInv
<1>2. HLSpec => [][KeepsManagers]_release
  BY <1>1, HLInvAlways, CopiesAlways, PTL DEF HLSpec
<1> QED BY <1>2 DEF ClaimedOnce, KeepsManagers

-----------------------------------------------------------------------------
(* The HelmReleases of other managers are left alone.                      *)

\* The register, its goroutines and the cluster know nothing of k.
Untouched(k) ==
  /\ stateByKey[k] = Nil /\ store[k] = Nil
  /\ \A i \in 1..Len(stateChanges) : stateChanges[i].key # k
  /\ client[k].pc = "idle" /\ handler[k].pc = "idle"
  /\ \A r \in Resources : keyByResource[r] # k /\ owner[r] # k /\ watcher[r].key # k

\* An event of another key in the channel.
LEMMA SentElsewhere ==
  ASSUME TypeOK, NEW k \in Keys, NEW e, e.key # k,
         \A i \in 1..Len(stateChanges) : stateChanges[i].key # k,
         stateChanges' = Append(stateChanges, e)
  PROVE  \A i \in 1..Len(stateChanges') : stateChanges'[i].key # k
<1>1. /\ Len(stateChanges) \in Nat
      /\ Len(stateChanges') = Len(stateChanges) + 1
      /\ stateChanges'[Len(stateChanges) + 1] = e
      /\ \A i \in 1..Len(stateChanges) : stateChanges'[i] = stateChanges[i]
  BY DEF TypeOK
<1> QED BY <1>1

\* A state of another key is stored.
LEMMA StoredElsewhere ==
  ASSUME TypeOK, NEW k \in Keys, Untouched(k), NEW j \in Keys \ {k}, NEW s, StoreState(j, s)
  PROVE  /\ stateByKey'[k] = Nil
         /\ \A i \in 1..Len(stateChanges') : stateChanges'[i].key # k
<1> DEFINE e == [key |-> j, ptr |-> FreshPtr, deleted |-> FALSE]
<1>1. stateChanges' = Append(stateChanges, e) /\ stateByKey' = [stateByKey EXCEPT ![j] = FreshPtr]
  BY DEF StoreState
<1>2. e.key # k
  OBVIOUS
<1>3. stateByKey'[k] = Nil
  BY <1>1 DEF TypeOK, Untouched
<1> HIDE DEF e
<1> QED BY <1>1, <1>2, <1>3, SentElsewhere DEF Untouched

\* An apply for another key labels nothing for k.
LEMMA AppliedElsewhere ==
  ASSUME TypeOK, NEW k \in Keys, Untouched(k), NEW j \in Keys \ {k}, NEW os,
         ApplyAll(j, os) \/ ApplyPart(j, os)
  PROVE  \A r \in Resources : owner'[r] # k
<1>1. ASSUME NEW reached, ApplySome(j, os, reached)
      PROVE  \A r \in Resources : owner'[r] # k
  BY <1>1, ConstantsAssumption DEF ApplySome, WriteCluster, Untouched
<1> QED BY <1>1 DEF ApplyAll, ApplyPart

\* Calls for other keys leave k alone.
LEMMA CallsElsewhere ==
  ASSUME TypeOK, NEW k \in Keys, Untouched(k), NEW j \in Keys \ {k}, Calls(j)
  PROVE  Untouched(k)'
<1>1. CASE \E os \in ObjectSets \cup {Nil} : Set(j, os)
  <2>1. PICK os \in ObjectSets \cup {Nil} : Set(j, os)
    BY <1>1
  <2>2. StoreState(j, [os |-> os, locked |-> TRUE])
    BY <2>1 DEF Set
  <2> QED BY <2>1, <2>2, StoredElsewhere DEF Set, Untouched, clusterVars
<1>2. CASE Unlock(j)
  BY <1>2, ConstantsAssumption
     DEF Unlock, RemoveAllEntries, WithoutEntries, Untouched, registerVars, clusterVars
<1>3. CASE \E purge \in BOOLEAN : Delete(j, purge)
  BY <1>3 DEF Delete, Untouched, TypeOK, registerVars, clusterVars
<1> QED BY <1>1, <1>2, <1>3 DEF Calls

\* So do the steps of Delete; those for k itself have not begun.
LEMMA DeleteElsewhere ==
  ASSUME IInv, NEW k \in Keys, Untouched(k), NEW j \in Keys, DeleteStep(j)
  PROVE  Untouched(k)'
<1> USE DEF IInv
<1>0. j # k
  BY DEF Untouched, DeleteStep, DeleteGet, DeleteFromMap, DeleteObjectSet, DeleteLocked,
         DeleteSend, RemoveUnlock, RemovePurge
<1>1. client'[k] = client[k]
  BY <1>0 DEF TypeOK, DeleteStep, DeleteGet, DeleteFromMap, DeleteObjectSet, DeleteLocked,
              DeleteSend, RemoveUnlock, RemovePurge
<1>2. CASE DeleteGet(j) \/ DeleteFromMap(j) \/ DeleteObjectSet(j) \/ DeleteLocked(j)
  <2>1. stateByKey'[k] = Nil
    BY <1>0, <1>2 DEF DeleteGet, DeleteFromMap, DeleteObjectSet, DeleteLocked, Untouched, TypeOK,
                      registerVars
  <2>2. UNCHANGED <<stateChanges, store, handler, keyByResource, owner, watcher>>
    BY <1>2 DEF DeleteGet, DeleteFromMap, DeleteObjectSet, DeleteLocked, registerVars, clusterVars
  <2> QED BY <1>1, <2>1, <2>2 DEF Untouched
<1>3. CASE DeleteSend(j)
  <2> DEFINE e == [key |-> j, ptr |-> client[j].ptr, deleted |-> TRUE]
  <2>1. e.key # k /\ stateChanges' = Append(stateChanges, e)
    BY <1>0, <1>3 DEF DeleteSend
  <2> HIDE DEF e
  <2>2. \A i \in 1..Len(stateChanges') : stateChanges'[i].key # k
    BY <2>1, SentElsewhere DEF Untouched
  <2> QED BY <1>1, <1>3, <2>2 DEF DeleteSend, Untouched, clusterVars
<1>4. CASE RemoveUnlock(j)
  BY <1>1, <1>4, ConstantsAssumption
     DEF RemoveUnlock, RemoveAllEntries, WithoutEntries, Untouched, registerVars, clusterVars
<1>5. CASE RemovePurge(j)
  <2>1. \A r \in Resources : owner'[r] # k
    BY <1>0, <1>5, AppliedElsewhere DEF RemovePurge
  <2> QED BY <1>1, <1>5, <2>1 DEF RemovePurge, Untouched, registerVars
<1> QED BY <1>2, <1>3, <1>4, <1>5 DEF DeleteStep

\* So does OnChange, which returns at once for k.
LEMMA HandlerElsewhere ==
  ASSUME IInv, NEW k \in Keys, Untouched(k), NEW j \in Keys, HandlerStep(j)
  PROVE  Untouched(k)'
<1> USE DEF IInv
<1>1. CASE j = k
  <2>1. HandlerBegin(k) /\ store[k] = Nil
    BY <1>1 DEF Untouched, HandlerStep, HandlerRead, HandlerApply, HandlerLockGet,
                HandlerLockAdd
  <2> QED BY <2>1 DEF HandlerBegin, Untouched, registerVars, clusterVars
<1>2. CASE j # k
  <2>1. handler'[k] = handler[k]
    BY <1>2 DEF TypeOK, HandlerStep, HandlerBegin, HandlerRead, HandlerApply, HandlerLockGet,
                HandlerLockAdd, HandlerReturn
  <2>2. UNCHANGED <<registerVars, store, client, watcher>>
    BY DEF HandlerStep, HandlerBegin, HandlerRead, HandlerApply, HandlerLockGet, HandlerLockAdd
  <2>3. \A r \in Resources : keyByResource'[r] # k
    <3>1. CASE UNCHANGED keyByResource
      BY <3>1 DEF Untouched
    <3>2. CASE RemoveAllEntries(j)
      BY <3>2, ConstantsAssumption DEF RemoveAllEntries, WithoutEntries, Untouched
    <3>3. ASSUME NEW os, LockEntries(j, os)
          PROVE  \A r \in Resources : keyByResource'[r] # k
      <4>1. UNCHANGED keyByResource \/ \E gvks : keyByResource' = WithEntries(j, os, gvks)
        BY <3>3 DEF LockEntries
      <4> QED BY <1>2, <3>1, <4>1, ConstantsAssumption
              DEF WithEntries, WithoutEntries, Untouched
    <3> QED BY <3>1, <3>2, <3>3 DEF HandlerStep, HandlerBegin, HandlerRead, HandlerApply,
                                    HandlerLockGet, HandlerLockAdd
  <2>4. \A r \in Resources : owner'[r] # k
    <3>1. CASE HandlerApply(j)
      BY <1>2, <3>1, AppliedElsewhere DEF HandlerApply
    <3>2. CASE UNCHANGED owner
      BY <3>2 DEF Untouched
    <3> QED BY <3>1, <3>2 DEF HandlerStep, HandlerBegin, HandlerRead, HandlerLockGet,
                              HandlerLockAdd, clusterVars
  <2> QED BY <2>1, <2>2, <2>3, <2>4 DEF Untouched, registerVars
<1> QED BY <1>1, <1>2

\* So do Resolve and Enqueue: no resource is tracked for k.
LEMMA WatcherElsewhere ==
  ASSUME IInv, NEW k \in Keys, Untouched(k), NEW r \in Resources, WatcherStep(r)
  PROVE  Untouched(k)'
<1> USE DEF IInv
<1>0. k # Nil /\ watcher \in [Resources -> Watcher]
  BY ConstantsAssumption DEF TypeOK, Watcher
<1>1. \A q \in Resources \ {r} : watcher'[q] = watcher[q]
  BY <1>0 DEF WatcherStep, Resolve, EnqueueGet, EnqueueCopy, EnqueueSet
<1>2. watcher'[r].key # k
  <2>1. CASE Resolve(r)
    BY <1>0, <2>1 DEF Resolve, IdleWatcher, Untouched
  <2>2. CASE EnqueueGet(r) \/ EnqueueCopy(r)
    <3>1. watcher'[r].key = watcher[r].key
      BY <1>0, <2>2 DEF EnqueueGet, EnqueueCopy, Watcher
    <3> QED BY <3>1 DEF Untouched
  <2>3. CASE EnqueueSet(r)
    BY <1>0, <2>3 DEF EnqueueSet, IdleWatcher
  <2> QED BY <2>1, <2>2, <2>3 DEF WatcherStep
<1>3. \A q \in Resources : watcher'[q].key # k
  BY <1>1, <1>2 DEF Untouched
<1>4. CASE Resolve(r) \/ EnqueueGet(r) \/ EnqueueCopy(r)
  BY <1>3, <1>4 DEF Resolve, EnqueueGet, EnqueueCopy, Untouched, registerVars, clusterVars
<1>5. CASE EnqueueSet(r)
  <2>1. watcher[r].key \in Keys \ {k}
    BY <1>0, <1>5 DEF EnqueueSet, NoNilDereference, Untouched, Watcher
  <2>2. StoreState(watcher[r].key, watcher[r].state)
    BY <1>5 DEF EnqueueSet
  <2>3. /\ stateByKey'[k] = Nil
        /\ \A i \in 1..Len(stateChanges') : stateChanges'[i].key # k
    BY <2>1, <2>2, StoredElsewhere
  <2> QED BY <1>3, <1>5, <2>3 DEF EnqueueSet, Untouched, clusterVars
<1> QED BY <1>4, <1>5 DEF WatcherStep

\* Only the release controller, past the claim of k, touches k.
LEMMA UntouchedStep ==
  ASSUME HLInv, [HLNext]_hlVars, NEW k \in Keys, Untouched(k)
  PROVE  Untouched(k)' \/ ctrl[k].pc \notin {"idle", "claim"}
<1>0. IInv /\ TypeOK
  BY DEF HLInv, IInv
<1>1. ASSUME Deliver
      PROVE  Untouched(k)'
  <2>1. /\ stateChanges \in Seq(Event) /\ stateChanges # <<>>
        /\ stateChanges' = Tail(stateChanges)
        /\ Head(stateChanges) = stateChanges[1] /\ 1 \in 1..Len(stateChanges)
    BY <1>0, <1>1 DEF Deliver, TypeOK
  <2>2. \A i \in 1..Len(stateChanges') : /\ i + 1 \in 1..Len(stateChanges)
                                       /\ stateChanges'[i] = stateChanges[i + 1]
    BY <2>1
  <2>3. \A i \in 1..Len(stateChanges') : stateChanges'[i].key # k
    BY <2>2 DEF Untouched
  <2>4. Head(stateChanges).key # k
    BY <2>1 DEF Untouched
  <2>5. store'[k] = store[k]
    BY <1>0, <1>1, <2>4 DEF Deliver, TypeOK
  <2> QED BY <1>1, <2>3, <2>5 DEF Deliver, Untouched, clusterVars
<1>2. ASSUME Resync
      PROVE  Untouched(k)'
  BY <1>2 DEF Resync, Untouched, registerVars, clusterVars
<1>3. ASSUME NEW r \in Resources, Drift(r)
      PROVE  Untouched(k)'
  <2>1. \A q \in Resources : owner'[q] # k
    BY <1>0, <1>3, ConstantsAssumption DEF Drift, WriteCluster, Untouched, TypeOK
  <2> QED BY <1>3, <2>1 DEF Drift, Untouched, registerVars
<1>4. ASSUME NEW j \in Keys, HelmApplies(j)
      PROVE  Untouched(k)'
  <2>1. \A q \in Resources : owner'[q] # k
    BY <1>4, ConstantsAssumption DEF HelmApplies, WriteCluster, Untouched
  <2> QED BY <1>4, <2>1 DEF HelmApplies, Untouched, registerVars
<1>5. ASSUME Counts
      PROVE  Untouched(k)'
  BY <1>5 DEF Counts, Untouched, registerVars, clusterVars
<1>6. ASSUME Locker
      PROVE  Untouched(k)'
  BY <1>0, <1>1, <1>6, DeleteElsewhere, HandlerElsewhere, WatcherElsewhere DEF Locker
<1>7. ASSUME NEW j \in Keys \ {k}, CtrlCalls(j)
      PROVE  Untouched(k)'
  BY <1>0, <1>7, CallsElsewhere DEF CtrlCalls
<1>8. ASSUME NEW j \in Keys, CtrlStep(j)
      PROVE  Untouched(k)' \/ ctrl[k].pc \notin {"idle", "claim"}
  <2>1. (CtrlCalls(j) /\ ctrl[j].pc \notin {"idle", "claim"}) \/ Counts
    BY <1>0, <1>8, CtrlToRegister DEF HLInv
  <2> QED BY <1>5, <1>7, <2>1
<1> QED BY <1>1, <1>2, <1>3, <1>4, <1>5, <1>6, <1>8, RegisterSteps

\* Nobody else manages the HelmRelease, if there is one.
Ours(k) == release[k].present => release[k].managedBy = "us"

\* A copy that says "us" is right, for ever; a worker acts only on such a copy;
\* and what the own workers have not reached yet is untouched.
OursOnly(k) ==
  /\ cached[k].obj.managedBy = "us" => Ours(k)
  /\ ctrl[k].pc \notin {"idle", "claim"} => Ours(k) /\ ctrl[k].obj.managedBy = "us"
  /\ ~Ours(k) => Untouched(k)

\* No step hands a HelmRelease that is ours to somebody else.
LEMMA OursStep ==
  ASSUME "create" \notin EnvOps, HLInv, [HLNext]_hlVars, NEW k \in Keys, OursOnly(k)
  PROVE  OursOnly(k)'
<1>0. /\ HLTypes /\ release \in [Keys -> Release] /\ cached \in [Keys -> Copy]
      /\ IdleCtrl.pc = "idle"
  BY DEF HLInv, HLTypes, IdleCtrl
<1>1. ASSUME Ours(k) => Ours(k)',
             cached'[k].obj.managedBy = "us" => Ours(k)',
             ctrl'[k].pc \notin {"idle", "claim"} => Ours(k)' /\ ctrl'[k].obj.managedBy = "us"
      PROVE  OursOnly(k)'
  <2>1. ~Ours(k)' => Untouched(k)'
    BY <1>1, UntouchedStep DEF OursOnly
  <2> QED BY <1>1, <2>1 DEF OursOnly
<1>2. ASSUME UNCHANGED <<release[k], cached[k], ctrl[k]>>
      PROVE  OursOnly(k)'
  BY <1>1, <1>2 DEF OursOnly, Ours
<1>3. CASE CtrlStep(k)
  <2>1. CASE BeginsWith(k)
    BY <1>0, <1>1, <2>1 DEF BeginsWith, OursOnly, Ours
  <2>2. CASE UNCHANGED <<release, cached>> /\ GoesOnWith(k, ctrl[k].obj)
    BY <1>0, <1>1, <2>2 DEF GoesOnWith, OursOnly, Ours
  <2>3. ASSUME NEW obj \in Release, WritesTo(k, obj)
        PROVE  OursOnly(k)'
    <3>1. release'[k] = obj
      BY <1>0, <2>3 DEF WritesTo
    <3>2. cached'[k].obj = cached[k].obj
      BY <1>0, <2>3 DEF WritesTo, Outdate, Copy
    <3>3. Ours(k)'
      BY <2>3, <3>1 DEF WritesTo, OursOnly, Ours
    <3>4. ctrl'[k].pc \notin {"idle", "claim"} => ctrl'[k].obj.managedBy = "us"
      BY <1>0, <2>3 DEF WritesTo, GoesOnWith, OursOnly
    <3> QED BY <1>1, <3>3, <3>4
  <2> QED BY <1>0, <1>3, <2>1, <2>2, <2>3, CtrlEffect DEF CtrlDoes
<1>4. ASSUME \/ CreateRelease(k) \/ DeleteRelease(k) \/ OtherClaims(k)
             \/ SecretDeleted(k) \/ HelmStarts(k) \/ HelmApplies(k) \/ HelmFinishes(k)
             \/ SyncRelease(k) \/ SyncSecret(k)
      PROVE  OursOnly(k)'
  <2>1. \/ UNCHANGED <<release, cached, ctrl>>
        \/ /\ UNCHANGED <<release, ctrl>>
           /\ cached'[k].obj = release[k]
        \/ /\ cached'[k].obj = cached[k].obj
           /\ ctrl'[k].obj = ctrl[k].obj /\ ctrl'[k].pc = ctrl[k].pc
           /\ \/ ~release'[k].present
              \/ /\ release[k].present /\ release'[k].present
                 /\ \/ release'[k].managedBy = release[k].managedBy
                    \/ release[k].managedBy = "none" /\ release'[k].managedBy = "other"
    BY <1>0, <1>4, OthersEffect
  <2>2. \/ UNCHANGED <<release[k], cached[k], ctrl[k]>>
        \/ /\ UNCHANGED <<release[k], ctrl[k]>>
           /\ cached'[k].obj = release[k]
        \/ /\ cached'[k].obj = cached[k].obj
           /\ ctrl'[k].obj = ctrl[k].obj /\ ctrl'[k].pc = ctrl[k].pc
           /\ (Ours(k) => Ours(k)')
    BY <2>1 DEF Ours
  <2> QED BY <1>1, <2>2 DEF OursOnly, Ours
<1>5. ASSUME NEW j \in Keys \ {k},
             \/ CtrlStep(j)
             \/ CreateRelease(j) \/ DeleteRelease(j) \/ OtherClaims(j)
             \/ SecretDeleted(j) \/ HelmStarts(j) \/ HelmApplies(j) \/ HelmFinishes(j)
             \/ SyncRelease(j) \/ SyncSecret(j)
      PROVE  OursOnly(k)'
  <2>1. CASE CtrlStep(j)
    <3>1. ctrl'[k] = ctrl[k] /\ \/ UNCHANGED <<release, cached>>
                                \/ \E obj \in Release : WritesTo(j, obj)
      BY <1>0, <2>1, CtrlEffect DEF CtrlDoes, BeginsWith
    <3>2. UNCHANGED <<release[k], cached[k]>>
      BY <1>0, <3>1 DEF WritesTo, Outdate
    <3> QED BY <1>2, <3>1, <3>2
  <2>2. CASE ~CtrlStep(j)
    <3>1. release'[k] = release[k] /\ cached'[k] = cached[k] /\ ctrl'[k] = ctrl[k]
      BY <1>0, <1>5, <2>2, OthersEffect
    <3> QED BY <1>2, <3>1
  <2> QED BY <2>1, <2>2
<1> QED BY <1>2, <1>3, <1>4, <1>5, OtherSteps

\* At the start the copies are the objects and the register is empty.
LEMMA OursInit ==
  ASSUME HLInit, NEW k \in Keys
  PROVE  OursOnly(k)
<1>1. cached[k].obj = release[k] /\ ctrl[k].pc = "idle"
  BY DEF HLInit, IdleCtrl
<1>2. Untouched(k)
  <2>1. RegisterInit /\ k # Nil
    BY ConstantsAssumption DEF HLInit
  <2>2. \A i \in 1..Len(stateChanges) : FALSE
    BY <2>1 DEF RegisterInit
  <2>3. /\ stateByKey[k] = Nil /\ store[k] = Nil
        /\ client[k] = IdleClient /\ handler[k] = IdleHandler
    BY <2>1 DEF RegisterInit
  <2>4. ASSUME NEW r \in Resources
        PROVE  keyByResource[r] = Nil /\ owner[r] = Nil /\ watcher[r] = IdleWatcher
    BY <2>1 DEF RegisterInit
  <2> QED BY <2>1, <2>2, <2>3, <2>4 DEF Untouched, IdleClient, IdleHandler, IdleWatcher
<1> QED BY <1>1, <1>2 DEF OursOnly, Ours

\* A HelmRelease that another controller manages is never touched, for any number of
\* releases, resources and manifests, whatever its users and Helm do; when HelmReleases
\* are not created anew under the name of an earlier one.
THEOREM OthersLeftAlone ==
  ASSUME "create" \notin EnvOps
  PROVE  HLSpec => []OthersAreLeftAlone
<1> DEFINE I == \A k \in Keys : OursOnly(k)
<1>1. HLInit => I
  BY OursInit
<1>2. HLInv /\ I /\ [HLNext]_hlVars => I'
  BY OursStep
<1>3. I => OthersAreLeftAlone
  BY DEF OursOnly, Ours, Untouched, OthersAreLeftAlone
<1> HIDE DEF I
<1> QED BY <1>1, <1>2, <1>3, HLInvAlways, PTL DEF HLSpec

-----------------------------------------------------------------------------
(* What the register promises holds in the composed system too, where the  *)
(* release controller calls it and Helm writes what it enforces.           *)

\* To the register a step of the whole is one of its own, a call, or a write by others.
LEMMA HLIsStep ==
  ASSUME HLInv, [HLNext]_hlVars
  PROVE  Steps
<1>1. ASSUME NEW r \in Resources, Drift(r)
      PROVE  OthersWrite
  BY <1>1 DEF Drift, OthersWrite, RegisterRests
<1>2. ASSUME NEW k \in Keys, HelmApplies(k)
      PROVE  OthersWrite
  BY <1>2 DEF HelmApplies, OthersWrite, RegisterRests
<1>3. ASSUME NEW k \in Keys, CtrlCalls(k)
      PROVE  Calls(k)
  BY <1>3 DEF CtrlCalls
<1>4. Counts => Rests
  BY DEF Counts, Rests, RegisterRests
<1> QED BY <1>1, <1>2, <1>3, <1>4, RegisterSteps DEF Steps

\* Neither the release controller's calls nor Helm's writes lead a goroutine of the
\* register to a pointer, or a key, that it did not find.
THEOREM HLNoNilDereference == HLSpec => []NoNilDereference
BY HLInvAlways, PTL DEF HLInv, IInv

\* Two releases whose manifests overlap do not take a tracked resource from each other
\* (canLock, cache.go:339), whatever their revisions are.
THEOREM HLNoStealing == HLSpec => NoStealing
<1>1. HLInv /\ [HLNext]_hlVars => [KeepsHands]_keyByResource
  BY HLIsStep, HandsStep
<1>2. HLSpec => [][KeepsHands]_keyByResource
  BY <1>1, HLInvAlways, PTL DEF HLSpec
<1> QED BY <1>2 DEF NoStealing, KeepsHands

\* The informer ends up with what the release controller registered last, or with
\* nothing, unless a Delete is about to send its event.
THEOREM HLInformerFollows == HLSpec => []InformerFollowsRegister
<1>1. HLInit => InformerFollowsRegister
  <2> SUFFICES ASSUME HLInit, NEW k \in Keys
               PROVE  Follows(k)
    BY DEF InformerFollowsRegister, Follows
  <2>1. RegisterInit
    BY DEF HLInit
  <2>2. stateChanges = <<>> /\ store[k] = Nil
    BY <2>1 DEF RegisterInit
  <2>3. 1..Len(stateChanges) = {}
    BY <2>2
  <2> QED BY <2>2, <2>3 DEF Follows
<1>2. HLInv /\ InformerFollowsRegister /\ [HLNext]_hlVars => InformerFollowsRegister'
  BY HLIsStep, FollowsStep DEF HLInv
<1> QED BY <1>1, <1>2, HLInvAlways, PTL DEF HLSpec

\* The composed system with the history of RegisterHistory.
HLHistSpec ==
  /\ HLInit /\ missed = [k \in Keys |-> {}]
  /\ [][HLNext /\ Remembers]_<<hlVars, missed>>

\* A change of a tracked and watched resource is never lost, be it a user's or Helm's:
\* also while the release is upgraded, rolled back, deleted or claimed, the resource has
\* the contents of the registered set, or it or its release is still to be handled.
THEOREM HLTrackedAlwaysReverted == HLHistSpec => []TrackedChangesAreReverted
<1> DEFINE I == \A k \in Keys : HistInv(k)
<1>1. HLInit => I
  BY HistInvInit DEF HLInit
<1>2. HLInv /\ I /\ [HLNext /\ Remembers]_<<hlVars, missed>> => I'
  <2> SUFFICES ASSUME HLInv, I, [HLNext /\ Remembers]_<<hlVars, missed>>
               PROVE  I'
    OBVIOUS
  <2>1. UNCHANGED <<hlVars, missed>> => Rests /\ UNCHANGED missed
    BY DEF hlVars, vars, Rests, RegisterRests
  <2>2. [HLNext]_hlVars /\ HistSteps
    BY <2>1, HLIsStep DEF HistSteps
  <2> QED BY <2>2, HistStep DEF HLInv, HistIInv
<1>3. HLHistSpec => HLSpec
  <2>1. [HLNext /\ Remembers]_<<hlVars, missed>> => [HLNext]_hlVars
    OBVIOUS
  <2> QED BY <2>1, PTL DEF HLHistSpec, HLSpec
<1>4. HLInv /\ I => TrackedChangesAreReverted
  BY HistInvSays DEF HLInv, HistIInv
<1> HIDE DEF I
<1> QED BY <1>1, <1>2, <1>3, <1>4, HLInvAlways, PTL DEF HLHistSpec

=============================================================================
