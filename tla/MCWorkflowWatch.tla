---------------------------- MODULE MCWorkflowWatch ----------------------------
(***************************************************************************)
(* Instances of WorkflowWatch for TLC.                                     *)
(***************************************************************************)
EXTENDS WorkflowWatch

\* The repositories' runs start in the same state; a move makes them differ.
\* Symmetry among repositories is not sound for the liveness properties, so the
\* initial states are cut down by hand instead.
StartAlike == WatchInit /\ \A r, s \in Repos : run[r] = run[s]

MCSpec == StartAlike /\ [][WatchNext]_watchVars /\ WatchFairness

=============================================================================
