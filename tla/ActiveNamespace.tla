-------------------------- MODULE ActiveNamespace --------------------------
(***************************************************************************)
(* The namespace picker of the console (useActiveNamespace), which every   *)
(* page of the plugin follows.                                             *)
(***************************************************************************)
CONSTANT Namespaces

VARIABLE namespace  \* the active namespace

=============================================================================
