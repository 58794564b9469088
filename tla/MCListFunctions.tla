--------------------------- MODULE MCListFunctions ---------------------------
(***************************************************************************)
(* Instances of ListFunctions for TLC.                                     *)
(***************************************************************************)
EXTENDS ListFunctions, TLC

Symmetry == Permutations(Repos) \cup Permutations(Namespaces)

=============================================================================
