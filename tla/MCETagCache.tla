----------------------------- MODULE MCETagCache -----------------------------
(***************************************************************************)
(* Instances of ETagCache for TLC: calls and contents are interchangeable. *)
(***************************************************************************)
EXTENDS ETagCache, TLC

Symmetry == Permutations(Calls) \cup Permutations(Contents)

=============================================================================
