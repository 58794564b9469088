------------------------------ MODULE MCPages ------------------------------
(***************************************************************************)
(* Instances of Pages for TLC.                                             *)
(***************************************************************************)
EXTENDS Pages, TLC

\* Both files are in one folder.
MCFolders == {Paths}

\* The resource has another key in each namespace, as long as it is there.
MCKeysOf == [ns \in Namespaces |-> [r \in Resources |-> {ns}]]

Symmetry == Permutations(Contents)

=============================================================================
