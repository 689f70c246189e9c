----------------------------- MODULE HelmLocker -----------------------------
(***************************************************************************)
(* Helm Locker: the release controller                                     *)
(* (internal/helm-locker/controllers/release/controller.go) composed with  *)
(* the object set register.  For every release key there is at most one    *)
(* HelmRelease; its controller is the client of the register.  The API     *)
(* server, Helm and the users are the environment.                         *)
(*                                                                         *)
(* A write of a HelmRelease succeeds only when it was computed from the    *)
(* current object (resourceVersion); "fresh" says whether a copy still is. *)
(***************************************************************************)
EXTENDS ObjectSetRegister

CONSTANTS
  EnvOps,       \* bound: what users, other operators and Helm do in a run
  InitReleases, \* bound: the HelmReleases an operator can find when it starts
  InitManifests \* bound: what is installed then, if anything

ASSUME EnvOpsAssumption == EnvOps \subseteq {"create", "delete", "claim", "upgrade", "uninstall",
                                            "keep-history", "secret"}
ASSUME InitManifestsAssumption == InitManifests \subseteq ObjectSets

VARIABLES
  release,     \* release[k]: the HelmRelease in the API server
  cached,      \* cached[k]: the copy in the controller's informer, and whether it is fresh
  relDirty,    \* work queue of the release controller
  secret,      \* secret[k]: the latest Helm release secret
  secretDirty, \* secrets whose change the secret controller did not see yet
  ctrl         \* ctrl[k]: the worker on HelmRelease k

crVars     == <<release, cached, relDirty>>
helmVars   == <<secret, secretDirty>>
lockerVars == <<crVars, helmVars, ctrl>>
hlVars     == <<vars, lockerVars>>

Managers == {"none", "us", "other"}
States   == {"", "SecretNotFound", "Deployed", "Uninstalled", "Failed", "Transitioning"}
\* "written" is "pending" for everybody but Helm.
Statuses == {"none", "deployed", "uninstalled", "failed", "pending", "written"}
CtrlPCs  == {"idle", "claim", "last", "notfound", "status", "register", "remove", "removed"}

\* Bound: the revisions of a release, the first of which may have been installed
\* before; every Helm operation within MaxOps makes at most one more.
Versions == 0..(MaxOps + 1)

Release == [present : BOOLEAN, managedBy : Managers, deleting : BOOLEAN,
            finalizer : BOOLEAN, state : States, version : Versions]
Secret  == [status : Statuses, os : ObjectSets \cup {Nil}, version : Versions]

ASSUME InitReleasesAssumption == InitReleases \subseteq Release

NoRelease == [present |-> FALSE, managedBy |-> "none", deleting |-> FALSE,
              finalizer |-> FALSE, state |-> "", version |-> 0]
NewRelease == [NoRelease EXCEPT !.present = TRUE]
OldRelease == [NewRelease EXCEPT !.managedBy = "us", !.finalizer = TRUE, !.state = "Deployed",
                              !.version = 1]
NoSecret  == [status |-> "none", os |-> Nil, version |-> 0]
IdleCtrl  == [pc |-> "idle", obj |-> NoRelease, fresh |-> FALSE, info |-> NoSecret]

HLTypeOK ==
  /\ TypeOK
  /\ release \in [Keys -> Release]
  /\ cached \in [Keys -> [obj : Release, fresh : BOOLEAN]]
  /\ relDirty \subseteq Keys
  /\ secret \in [Keys -> Secret]
  /\ secretDirty \subseteq Keys
  /\ ctrl \in [Keys -> [pc : CtrlPCs, obj : Release, fresh : BOOLEAN, info : Secret]]

\* A release is installed or not; its HelmRelease may have been created; the
\* operator starts with full queues and an empty register.
HLInit ==
  /\ RegisterInit
  /\ secret \in [Keys -> {NoSecret} \cup [status : {"deployed"}, os : InitManifests,
                                         version : {1}]]
  /\ cluster = [r \in Resources |->
       IF \E k \in Keys : r \in Desired(secret[k].os)
       THEN secret[CHOOSE k \in Keys : r \in Desired(secret[k].os)].os ELSE Nil]
  /\ release \in [Keys -> InitReleases]
  /\ cached = [k \in Keys |-> [obj |-> release[k], fresh |-> TRUE]]
  /\ relDirty = Keys
  /\ secretDirty = {}
  /\ ctrl = [k \in Keys |-> IdleCtrl]

-----------------------------------------------------------------------------
(* The API server and the informers (external).                            *)

\* Every copy of the object made so far is outdated by a write.
Outdate(k) == cached' = [cached EXCEPT ![k].fresh = FALSE]

\* The controller writes the object obj it computed from its copy.  It succeeds
\* and the controller goes on with the result, or it is refused for a conflict
\* (always, when the copy is outdated; the budget of failures covers the rest).
Writes(k, obj, next) ==
  /\ ctrl[k].fresh
  /\ release' = [release EXCEPT ![k] = obj]
  /\ IF obj = release[k] THEN UNCHANGED cached ELSE Outdate(k)
  /\ ctrl' = [ctrl EXCEPT ![k] = next]
  /\ UNCHANGED <<relDirty, fails>>

\* The handler returns the error: the key is queued again.
ReturnError(k, next) ==
  /\ ctrl' = [ctrl EXCEPT ![k] = next]
  /\ relDirty' = relDirty \cup {k}
  /\ UNCHANGED <<release, cached>>

WriteRefused(k, next) ==
  /\ IF ctrl[k].fresh THEN fails < MaxFail /\ fails' = fails + 1 ELSE UNCHANGED fails
  /\ ReturnError(k, next)

\* The informer of HelmReleases catches up and the controller is told.
SyncRelease(k) ==
  /\ ~cached[k].fresh
  /\ cached' = [cached EXCEPT ![k] = [obj |-> release[k], fresh |-> TRUE]]
  /\ relDirty' = relDirty \cup {k}
  /\ UNCHANGED <<vars, release, helmVars, ctrl>>

\* resolveHelmRelease: a changed secret enqueues the HelmRelease that is cached.
SyncSecret(k) ==
  /\ k \in secretDirty
  /\ secretDirty' = secretDirty \ {k}
  /\ relDirty' = IF cached[k].obj.present THEN relDirty \cup {k} ELSE relDirty
  /\ UNCHANGED <<vars, release, cached, secret, ctrl>>

\* Bound: the resync periods (ten hours) end when nothing else is going on, not
\* while a handler is running.
Quiet ==
  /\ dirtyKeys = {} /\ dirtyResources = {} /\ stateChanges = <<>>
  /\ relDirty = {} /\ secretDirty = {}
  /\ \A k \in Keys : /\ client[k].pc = "idle" /\ handler[k].pc = "idle"
                     /\ ctrl[k].pc = "idle" /\ cached[k].fresh
  /\ \A r \in Resources : watcher[r].pc = "idle"

QuietResync == Quiet /\ Resync /\ UNCHANGED lockerVars

\* The resync period of the HelmRelease informer ended.
ResyncReleases ==
  /\ Quiet
  /\ relDirty' = relDirty \cup {k \in Keys : cached[k].obj.present}
  /\ UNCHANGED <<vars, release, cached, helmVars, ctrl>>

-----------------------------------------------------------------------------
(* Users and Helm (external), within the bound MaxOps.                     *)

UseOp == ops < MaxOps /\ ops' = ops + 1

UserWrites(k, obj) ==
  /\ UseOp
  /\ release' = [release EXCEPT ![k] = obj]
  /\ Outdate(k)
  /\ ctrl' = [ctrl EXCEPT ![k].fresh = FALSE]
  /\ UNCHANGED <<registerVars, keyByResource, store, dirtyKeys, client, handler, watcher,
                 watched, clusterVars, drifts, fails, relDirty, helmVars>>

CreateRelease(k) == "create" \in EnvOps /\ ~release[k].present /\ UserWrites(k, NewRelease)

\* Without a finalizer the object is gone at once.
DeleteRelease(k) ==
  /\ "delete" \in EnvOps
  /\ release[k].present /\ ~release[k].deleting
  /\ UserWrites(k, IF release[k].finalizer THEN [release[k] EXCEPT !.deleting = TRUE]
                                           ELSE NoRelease)

\* Another Helm Locker with another controller name claims the HelmRelease.
OtherClaims(k) ==
  /\ "claim" \in EnvOps
  /\ release[k].present /\ release[k].managedBy = "none"
  /\ UserWrites(k, [release[k] EXCEPT !.managedBy = "other"])

HelmWrites(k, s) ==
  /\ secret' = [secret EXCEPT ![k] = s]
  /\ secretDirty' = secretDirty \cup {k}

\* Helm marks the latest revision before it touches a resource: an upgrade, or an
\* installation, makes a new one, an uninstall takes the last.
HelmStarts(k) ==
  /\ UseOp
  /\ secret[k].status \notin {"pending", "written"}
  /\ \/ /\ "upgrade" \in EnvOps
        /\ \E os \in ObjectSets :
             HelmWrites(k, [status |-> "pending", os |-> os, version |-> secret[k].version + 1])
     \/ /\ "uninstall" \in EnvOps
        /\ secret[k].status # "none"
        /\ HelmWrites(k, [secret[k] EXCEPT !.status = "pending", !.os = Nil])
  /\ UNCHANGED <<registerVars, keyByResource, store, dirtyKeys, client, handler, watcher,
                 watched, clusterVars, drifts, fails, crVars, ctrl>>

\* A user deletes the secret, "to delete the contents of a Helm release
\* automatically" (controller.go:211).
SecretDeleted(k) ==
  /\ "secret" \in EnvOps
  /\ UseOp
  /\ secret[k].status \in {"deployed", "failed"}
  /\ HelmWrites(k, NoSecret)
  /\ UNCHANGED <<registerVars, keyByResource, store, dirtyKeys, client, handler, watcher,
                 watched, clusterVars, drifts, fails, crVars, ctrl>>

\* Helm writes the resources of the release and removes those that are not in
\* the manifest any more.  (One release owns all the resources.)
HelmApplies(k) ==
  /\ secret[k].status = "pending"
  /\ LET os == secret[k].os
     IN  WriteCluster([r \in Resources |-> IF r \in Desired(os) THEN os ELSE Nil],
                      [r \in Resources |-> IF r \in Desired(os) THEN owner[r] ELSE Nil])
  /\ secret' = [secret EXCEPT ![k].status = "written"]
  /\ UNCHANGED <<registerVars, keyByResource, store, dirtyKeys, client, handler, watcher,
                 watched, bounds, crVars, secretDirty, ctrl>>

\* An operation succeeds or fails; an uninstall deletes the secret or, with
\* --keep-history, leaves it.
HelmFinishes(k) ==
  /\ \/ /\ secret[k].status = "written"
        /\ IF secret[k].os = Nil
           THEN \/ HelmWrites(k, NoSecret)
                \/ /\ "keep-history" \in EnvOps
                   /\ HelmWrites(k, [secret[k] EXCEPT !.status = "uninstalled"])
           ELSE HelmWrites(k, [secret[k] EXCEPT !.status = "deployed"])
     \/ /\ secret[k].status \in {"pending", "written"}
        /\ HelmWrites(k, [secret[k] EXCEPT !.status = "failed"])
  /\ UNCHANGED <<vars, crVars, ctrl>>

-----------------------------------------------------------------------------
(* The release controller.                                                 *)

\* The worker goes on at pc with its copy of the object.
At(k, pc) == [ctrl[k] EXCEPT !.pc = pc]

\* OnHelmRelease returned.  The remove handler has nothing to do for an object
\* that has the finalizer and is not being deleted.
Return(k, obj) ==
  IF obj.finalizer /\ ~obj.deleting THEN IdleCtrl
  ELSE [ctrl[k] EXCEPT !.pc = "remove", !.obj = obj, !.info = NoSecret]

\* Mutants of shouldManage: the annotation is not compared with the own name;
\* every HelmRelease that is not the own one is claimed.
ManagesAnnotated(obj) == obj.present /\ obj.managedBy # "none"
ClaimsOthers(obj) == obj.present /\ obj.managedBy # "us"

\* shouldManage: the managed-by annotation is this controller's, or it is missing
\* and the HelmRelease is to be claimed.
ShouldManage(obj) == obj.present /\ obj.managedBy = "us"
ShouldClaim(obj) == obj.present /\ obj.managedBy = "none"

\* A worker takes the key.  OnHelmRelease and the remove handler return for nil
\* and for a HelmRelease another controller manages, and OnHelmRelease returns
\* for one that is being deleted.
CtrlBegin(k) ==
  /\ ctrl[k].pc = "idle"
  /\ k \in relDirty
  /\ relDirty' = relDirty \ {k}
  /\ LET obj   == cached[k].obj
         go(pc) == [IdleCtrl EXCEPT !.pc = pc, !.obj = obj, !.fresh = cached[k].fresh]
     IN  ctrl' = [ctrl EXCEPT ![k] =
                    IF ShouldManage(obj) THEN go(IF obj.deleting THEN "remove" ELSE "last")
                    ELSE IF ShouldClaim(obj) THEN go("claim")
                    ELSE IdleCtrl]
  /\ UNCHANGED <<vars, release, cached, helmVars>>

\* shouldManage, for OnHelmRelease and for the scope of the remove handler: the
\* claim is written and the handlers return, the write brings the key back.
Claim(k) ==
  /\ ctrl[k].pc = "claim"
  /\ \/ Writes(k, [ctrl[k].obj EXCEPT !.managedBy = "us"], IdleCtrl)
     \/ WriteRefused(k, IdleCtrl)
  /\ UNCHANGED <<registerVars, keyByResource, store, dirtyKeys, client, handler, watcher,
                 watched, clusterVars, ops, drifts, helmVars>>

\* OnHelmRelease: releases.Last reads the latest secret.  It is not there: the
\* object set is deleted and its resources are purged.
LastNotFound(k) ==
  /\ ctrl[k].pc = "last"
  /\ secret[k].status = "none"
  /\ Delete(k, TRUE)
  /\ ctrl' = [ctrl EXCEPT ![k] = At(k, "notfound")]
  /\ UNCHANGED <<crVars, helmVars, ops>>

LastFound(k) ==
  /\ ctrl[k].pc = "last"
  /\ secret[k].status # "none"
  /\ ctrl' = [ctrl EXCEPT ![k] = [At(k, "status") EXCEPT !.info = secret[k]]]
  /\ UNCHANGED <<vars, crVars, helmVars>>

\* The read fails for another reason: the error is returned.
LastFails(k) ==
  /\ ctrl[k].pc = "last"
  /\ fails < MaxFail
  /\ fails' = fails + 1
  /\ ReturnError(k, Return(k, ctrl[k].obj))
  /\ UNCHANGED <<registerVars, keyByResource, store, dirtyKeys, client, handler, watcher,
                 watched, clusterVars, ops, drifts, helmVars>>

\* A mutant of newReleaseInfo that takes the status over as it is.
StateVerbatim(status) == status

\* newReleaseInfo
StateOf(status) ==
  CASE status = "deployed"    -> "Deployed"
    [] status = "uninstalled" -> "Uninstalled"
    [] status = "failed"      -> "Failed"
    [] OTHER                  -> "Transitioning"

\* GetUpdatedStatus: the version stands for the description and the notes, too.
WithStatus(k, state, version) ==
  [ctrl[k].obj EXCEPT !.state = state, !.version = version]

\* UpdateStatus after Delete returned.
StatusNotFound(k) ==
  /\ ctrl[k].pc = "notfound"
  /\ client[k].pc = "idle"
  /\ LET obj == WithStatus(k, "SecretNotFound", 0)
     IN  Writes(k, obj, Return(k, obj)) \/ WriteRefused(k, Return(k, ctrl[k].obj))
  /\ UNCHANGED <<registerVars, keyByResource, store, dirtyKeys, client, handler, watcher,
                 watched, clusterVars, ops, drifts, helmVars>>

\* UpdateStatus for the secret that was read; an error skips the register.
StatusFound(k) ==
  /\ ctrl[k].pc = "status"
  /\ LET obj == WithStatus(k, StateOf(ctrl[k].info.status), ctrl[k].info.version)
     IN  \/ Writes(k, obj, [At(k, "register") EXCEPT !.obj = obj])
         \/ WriteRefused(k, Return(k, ctrl[k].obj))
  /\ UNCHANGED <<registerVars, keyByResource, store, dirtyKeys, client, handler, watcher,
                 watched, clusterVars, ops, drifts, helmVars>>

\* releaseInfo.Locked: only a deployed release is set and locked.
Register(k) ==
  /\ ctrl[k].pc = "register"
  /\ IF StateOf(ctrl[k].info.status) = "Deployed" THEN Set(k, ctrl[k].info.os) ELSE Unlock(k)
  /\ ctrl' = [ctrl EXCEPT ![k] = Return(k, ctrl[k].obj)]
  /\ UNCHANGED <<crVars, helmVars, ops>>

\* NewRemoveHandler, not deleting: the missing finalizer is added.
AddFinalizer(k) ==
  /\ ctrl[k].pc = "remove"
  /\ ~ctrl[k].obj.deleting
  /\ \/ Writes(k, [ctrl[k].obj EXCEPT !.finalizer = TRUE], IdleCtrl)
     \/ WriteRefused(k, IdleCtrl)
  /\ UNCHANGED <<registerVars, keyByResource, store, dirtyKeys, client, handler, watcher,
                 watched, clusterVars, ops, drifts, helmVars>>

\* OnHelmReleaseRemove: nothing is deleted for a release that was not found or
\* is uninstalled; otherwise the object set is deleted without a purge.
OnHelmReleaseRemove(k) ==
  /\ ctrl[k].pc = "remove"
  /\ ctrl[k].obj.deleting
  /\ IF ctrl[k].obj.state \in {"SecretNotFound", "Uninstalled"}
     THEN UNCHANGED vars
     ELSE Delete(k, FALSE) /\ UNCHANGED ops
  /\ ctrl' = [ctrl EXCEPT ![k] = At(k, "removed")]
  /\ UNCHANGED <<crVars, helmVars>>

\* The finalizer is removed, and the object with it.
RemoveFinalizer(k) ==
  /\ ctrl[k].pc = "removed"
  /\ client[k].pc = "idle"
  /\ \/ Writes(k, NoRelease, IdleCtrl)
     \/ WriteRefused(k, IdleCtrl)
  /\ UNCHANGED <<registerVars, keyByResource, store, dirtyKeys, client, handler, watcher,
                 watched, clusterVars, ops, drifts, helmVars>>

CtrlStep(k) ==
  \/ CtrlBegin(k) \/ Claim(k)
  \/ LastNotFound(k) \/ LastFound(k) \/ LastFails(k)
  \/ StatusNotFound(k) \/ StatusFound(k) \/ Register(k)
  \/ AddFinalizer(k) \/ OnHelmReleaseRemove(k) \/ RemoveFinalizer(k)

-----------------------------------------------------------------------------
Environment ==
  \E k \in Keys :
    \/ CreateRelease(k) \/ DeleteRelease(k) \/ OtherClaims(k)
    \/ SecretDeleted(k) \/ HelmStarts(k) \/ HelmApplies(k) \/ HelmFinishes(k)

HLNext ==
  \/ Environment
  \/ \E r \in Resources : Drift(r) /\ UNCHANGED lockerVars
  \/ Locker /\ UNCHANGED lockerVars
  \/ QuietResync
  \/ \E k \in Keys : CtrlStep(k) \/ SyncRelease(k) \/ SyncSecret(k)
  \/ ResyncReleases

HLSpec == HLInit /\ [][HLNext]_hlVars

\* As in the register; the workers of the release controller and the informers
\* run, both resync periods end again and again whatever else goes on (strong
\* fairness, because Quiet only lets them end in between), and a Helm operation
\* ends, with success or not.
HLFairness ==
  /\ \A k \in Keys : /\ WF_hlVars(DeleteStep(k) /\ UNCHANGED lockerVars)
                     /\ WF_hlVars(HandlerStep(k) /\ UNCHANGED lockerVars)
                     /\ WF_hlVars(CtrlStep(k))
                     /\ WF_hlVars(SyncRelease(k)) /\ WF_hlVars(SyncSecret(k))
                     /\ WF_hlVars(HelmFinishes(k))
  /\ \A r \in Resources : WF_hlVars(WatcherStep(r) /\ UNCHANGED lockerVars)
  /\ WF_hlVars(Deliver /\ UNCHANGED lockerVars)
  /\ SF_hlVars(QuietResync)
  /\ SF_hlVars(ResyncReleases)

HLFairSpec == HLSpec /\ HLFairness

-----------------------------------------------------------------------------
(* Properties.                                                             *)

Managed(k) == release[k].present /\ release[k].managedBy = "us" /\ ~release[k].deleting

\* The managed-by annotation is a lock (controller.go:171-197): a HelmRelease that
\* one controller claimed is never claimed by another, whatever outdated copies
\* the two act on.
ClaimedOnce ==
  [][\A k \in Keys :
       /\ release[k].present /\ release[k].managedBy # "none"
       /\ release'[k].present
       => release'[k].managedBy = release[k].managedBy]_release

\* A HelmRelease another controller manages (controller.go:179-183) is not touched:
\* whatever its users and Helm do, nothing is registered for its release and no
\* resource is labelled for it.  (For a HelmRelease that is not created anew: what
\* one deleted before it got its finalizer leaves in the register stays there.)
OthersAreLeftAlone ==
  \A k \in Keys : release[k].present /\ release[k].managedBy = "other" =>
    /\ stateByKey[k] = Nil
    /\ client[k].pc = "idle"
    /\ \A r \in Resources : owner[r] # k

\* "Once a release is deployed, if what is tracked in the Helm secret is different
\* than what is currently installed onto the cluster, Helm Locker will revert all
\* resources back" (cmd/helm-locker/README.md:38): whatever was enqueued, missed,
\* overwritten or refused on the way, a managed and deployed release ends up, and
\* stays, as its latest secret says.
DeployedIsEnforced ==
  <>[](\A k \in Keys : Managed(k) /\ secret[k].status = "deployed" =>
         \A r \in Desired(secret[k].os) : cluster[r] = secret[k].os)

\* "Remove the objectset and purge any untracked resources" (controller.go:238):
\* when the secret of a managed release is gone, no resource labelled for the
\* release is left in the end, although applies of older states may be running.
OrphansArePurged ==
  <>[](\A k \in Keys : Managed(k) /\ secret[k].status = "none" =>
         \A r \in Resources : owner[r] # k)

-----------------------------------------------------------------------------
(* What the documentation and comments say and the code does not do.       *)

\* cmd/helm-locker/README.md:38: once a release is deployed and its secret differs
\* from the cluster, "Helm Locker will revert all resources back to what was
\* tracked by the Helm release".  When nothing is left to do until a resync period
\* of ten hours ends, a managed and deployed release is as its secret says.
SettledIsEnforced ==
  \A k \in Keys : Quiet /\ Managed(k) /\ secret[k].status = "deployed" =>
    \A r \in Desired(secret[k].os) : cluster[r] = secret[k].os

\* controllers/release/controller.go:213 on Delete(key, false): "remove the
\* objectset, but don't purge the underlying resources".  (For runs in which
\* nobody else deletes a resource and every set has all of them.)
OnlyAPurgeDeletes ==
  [][\A r \in Resources :
       cluster[r] # Nil /\ cluster'[r] = Nil => \E k \in Keys : client[k].purge]_cluster
=============================================================================
