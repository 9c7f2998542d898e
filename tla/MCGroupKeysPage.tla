--------------------------- MODULE MCGroupKeysPage ---------------------------
(* GroupKeysPage on small instances. *)
EXTENDS GroupKeysPage, TLC

CONSTANTS k1, k2, k3

ThreeKeys == <<k1, k2, k3>>

\* Only the slots of the calls are alike: the keys have their place in the list.
Symmetry == Permutations(Call)
=============================================================================
