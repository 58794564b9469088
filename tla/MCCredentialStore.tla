--------------------------- MODULE MCCredentialStore ---------------------------
(***************************************************************************)
(* Instances of CredentialStore for TLC.                                   *)
(***************************************************************************)
EXTENDS CredentialStore, TLC

\* An account, the account of the same name created after it was deleted, and a
\* cluster administrator of that name, who has no uid.
MCUsers == {[name |-> "alice", uid |-> "u1"],
            [name |-> "alice", uid |-> "u2"],
            [name |-> "alice", uid |-> ""]}

Symmetry == Permutations(Requests)

=============================================================================
