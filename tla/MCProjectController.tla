------------------------ MODULE MCProjectController ------------------------
(* ProjectHelmCharts that share one release.                                 *)
EXTENDS ProjectController, TLC

CONSTANTS r1

MCReleaseOf == [p \in Charts |-> r1]

ChartSymmetry == Permutations(Charts)
=============================================================================
