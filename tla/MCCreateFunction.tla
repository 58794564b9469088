-------------------------- MODULE MCCreateFunction --------------------------
(***************************************************************************)
(* Two concurrent creates in one namespace, of functions with one name     *)
(* under two accounts: every combination of the token's account and the    *)
(* owner the request names.                                                *)
(***************************************************************************)
EXTENDS CreateFunction, TLC

CONSTANTS h1, h2, n1, a1, a2, f1

MCHandlers == {h1, h2}
MCNamespaces == {n1}
MCAccounts == {a1, a2}
MCNames == {f1}

Symmetry == Permutations(MCHandlers) \cup Permutations(MCAccounts)

=============================================================================
