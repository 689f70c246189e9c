------------------------- MODULE MCObjectSetRegister -------------------------
(* Up to two resources of different kinds; one manifest tracks both, the     *)
(* other only the first, so two keys can disagree about a resource and an    *)
(* upgrade can drop one.                                                     *)
EXTENDS RegisterHistory, TLC

CONSTANTS r1, r2, os1, os2, g1, g2

MCGVKOf == [r \in Resources |-> IF r = r1 THEN g1 ELSE g2]

MCResourcesOf == [os \in ObjectSets |-> IF os = os1 THEN Resources ELSE {r1}]

KeySymmetry == Permutations(Keys)
=============================================================================
