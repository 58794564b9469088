--------------------------- MODULE MCFunctionRows ----------------------------
(***************************************************************************)
(* Instances of FunctionRows for TLC.  The owner "a" is also the name of a *)
(* namespace, and one of her repositories that of a function.              *)
(***************************************************************************)
EXTENDS FunctionRows

R1 == <<"a", "f">>
R2 == <<"a", "g">>
MCRepos == {R1, R2}
Of(repo, fn) == [repo |-> repo, fn |-> fn, broken |-> FALSE, error |-> FALSE]
Broken(repo) == [repo |-> repo, fn |-> <<>>, broken |-> TRUE, error |-> TRUE]
Nameless(repo) == [Broken(repo) EXCEPT !.error = FALSE]
Unchecked(repo, fn) == [Of(repo, fn) EXCEPT !.error = TRUE]
OnCluster(fn) == Of(NoRepo, fn)

MCListings ==
    {<<Of(R2, <<"a", "f">>)>>,
     <<Broken(R1), Of(R2, <<"a", "f">>)>>,
     <<Of(R1, <<"a", "f">>), Of(R2, <<"a", "f">>)>>,
     <<Unchecked(R1, <<"b", "f">>), Nameless(R2), OnCluster(<<"a", "f">>)>>}

\* The page is opened while the function in one of the namespaces is deployed, idle and
\* perhaps being deleted.
OneDeployed == RowsInit /\ rested = {<<<<"a", "f">>, 1>>} /\ ~services[<<"b", "f">>].exists

MCSpec == OneDeployed /\ [][RowsNext]_rowsVars /\ RowsFairness

=============================================================================
