-------------------------- MODULE MCKubeconfigRefresh --------------------------
(***************************************************************************)
(* Instances of KubeconfigRefresh for TLC.                                 *)
(***************************************************************************)
EXTENDS KubeconfigRefresh, TLC

Flag(days, rest) == [days |-> days, rest |-> rest]

\* With a day of six seconds and durations of one byte: half a second, a negative
\* duration, a day given as such and not, less than a day, more days than fit, which
\* wrap around to a negative or to a positive duration.
MCFlags == {Empty, Malformed, Flag(0, 1), Flag(1, -14), Flag(1, 0), Flag(0, 12),
            Flag(1, -3), Flag(11, 0), Flag(22, 4)}

Symmetry == Permutations(Edits)

=============================================================================
