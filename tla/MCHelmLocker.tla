---------------------------- MODULE MCHelmLocker ----------------------------
(* One release with one resource and up to two manifests.                    *)
EXTENDS HelmLocker, TLC

CONSTANTS r1, os1, os2, g1

MCGVKOf == [r \in Resources |-> g1]

MCResourcesOf == [os \in ObjectSets |-> Resources]

\* None, or one that may have to be claimed.
AnyRelease == {NoRelease, NewRelease}

\* One from an earlier run.
ManagedRelease == {OldRelease}

\* One that another Helm Locker claimed.
ForeignRelease == {[NewRelease EXCEPT !.managedBy = "other"]}

=============================================================================
