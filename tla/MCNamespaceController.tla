----------------------- MODULE MCNamespaceController -----------------------
(* Up to two projects and one namespace that is in one of them, or in none.  *)
EXTENDS NamespaceController, TLC

CONSTANTS p1, p2, n1
=============================================================================
