----------------------------- MODULE StatusFeed -----------------------------
(***************************************************************************)
(* What WatchWorkflowRuns promises the stream handler, whatever its loop,  *)
(* its tickers and its channel do: a feed of snapshots of every function   *)
(* repository's workflow run that                                          *)
(*   - never goes back: a clean status is the one shown already or one the *)
(*     repository had since the previous event;                            *)
(*   - never flickers: a repository that could not be polled keeps the     *)
(*     status shown last and is marked with the error;                     *)
(*   - never repeats itself, except for failures that cannot be recognised *)
(*     as the same one (network errors).                                   *)
(***************************************************************************)
CONSTANTS Repos, Statuses, Errors, NoRuns

VARIABLES
    current,   \* current[r]: the status of r's latest run at the SCM
    recent,    \* recent[r]: statuses r had since the last event (history)
    view,      \* the snapshot of the last event, NoRuns before the first
    fault      \* the failure the last event reported for the whole watch

feedVars == <<current, recent, view, fault>>

WorkflowRun == [status: Statuses, error: Errors]
Snapshots == UNION {[known -> WorkflowRun] : known \in SUBSET Repos}

\* The status shown for r, "None" for a repository not shown yet.
Shown(r) ==
    IF view # NoRuns /\ r \in DOMAIN view THEN view[r].status ELSE "None"

Faithful(runs) ==
    \A r \in DOMAIN runs :
        \/ runs[r].error = "none" /\ runs[r].status \in recent[r] \cup {Shown(r)}
        \/ runs[r].error # "none" /\ runs[r].status = Shown(r)

Unrecognisable(runs, err) ==
    err = "net" \/ \E r \in DOMAIN runs : runs[r].error = "net"

FeedInit ==
    /\ current \in [Repos -> Statuses]
    /\ recent = [r \in Repos |-> {current[r]}]
    /\ view = NoRuns
    /\ fault = "none"

RunMoves ==
    /\ \E r \in Repos, status \in Statuses :
           /\ current' = [current EXCEPT ![r] = status]
           /\ recent' = [recent EXCEPT ![r] = @ \cup {status}]
    /\ UNCHANGED <<view, fault>>

Publish ==
    /\ \E runs \in Snapshots, err \in Errors :
           /\ Faithful(runs)
           /\ <<runs, err>> # <<view, fault>> \/ Unrecognisable(runs, err)
           /\ view' = runs
           /\ fault' = err
    /\ recent' = [r \in Repos |-> {current[r]}]
    /\ UNCHANGED current

FeedNext == RunMoves \/ Publish

FeedSpec == FeedInit /\ [][FeedNext]_feedVars

=============================================================================
