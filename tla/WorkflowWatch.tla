---------------------------- MODULE WorkflowWatch ----------------------------
(***************************************************************************)
(* GET /api/v1/functions/watch: one Server-Sent Events stream.  The stream *)
(* handler (handler/workflow.go) and the polling loop of WatchWorkflowRuns *)
(* (scm/github/workflow.go) are two goroutines that meet on an unbuffered  *)
(* channel; Stop cancels the loop's own context.  GitHub moves on between  *)
(* any two calls, calls fail, the token may be revoked and the browser may *)
(* leave at any moment.                                                    *)
(***************************************************************************)
EXTENDS Naturals

CONSTANTS
    Repos,        \* repositories the user may have
    RunStates,    \* states GitHub reports of a run, a subset of GhRunStates
    NoRuns,       \* the nil snapshot before the first event
    NoEvent,      \* nothing in the loop's or the handler's hands
    MaxChanges,   \* bound: moves of GitHub
    MaxFaults     \* bound: calls that fail while the token is valid

GhRunStates == {"no_run", "queued", "in_progress", "success", "failure", "skipped"}

ASSUME WorkflowWatchAssumption ==
    /\ RunStates \subseteq GhRunStates
    /\ "no_run" \in RunStates
    /\ MaxChanges \in Nat /\ MaxFaults \in Nat

VARIABLES
    run,        \* run[r]: GitHub's state of r's latest workflow run
    listed,     \* repositories the user's search returns
    revoked,    \* the user's GitHub token is no longer accepted
    changes,    \* moves of GitHub so far
    faults,     \* failed calls so far
    lpc,        \* the loop's position
    repos,      \* the repositories the loop polls
    snapshot,   \* the poll in progress: what it has put so far
    prevRuns,   \* snapshot of the last event sent
    prevErr,    \* error of the last event sent
    outbox,     \* the event emit is blocked on
    cancelled,  \* Stop was called
    hpc,        \* the handler's position
    inHand,     \* the event the handler received and has not written
    gone,       \* the browser has left: the request context is done
    heard,      \* what the browser holds: last snapshot, and a later error
    recent      \* statuses of each repository since the last event (history)

github == <<run, listed, revoked, changes>>
loopVars == <<lpc, repos, snapshot, prevRuns, prevErr, outbox, recent>>
handlerVars == <<hpc, inHand, gone, heard, cancelled>>
watchVars == <<run, listed, revoked, changes, faults, lpc, repos, snapshot, prevRuns,
          prevErr, outbox, cancelled, hpc, inHand, gone, heard, recent>>

Statuses == {"None", "InProgress", "Succeeded", "Failed"}
Errors == {"none", "api", "auth", "net"}
WorkflowRun == [status: Statuses, error: Errors]
Snapshots == UNION {[known -> WorkflowRun] : known \in SUBSET Repos}
Events == [runs: Snapshots \cup {NoRuns}, err: Errors]
Tickers == {"poll", "rediscover"}

\* The nil map is deeply equal to no snapshot, not even to the empty one.
ASSUME NoRunsAssumption == NoRuns \notin Snapshots

WatchTypeOK ==
    /\ run \in [Repos -> RunStates]
    /\ listed \in SUBSET Repos
    /\ revoked \in BOOLEAN
    /\ changes \in 0..MaxChanges
    /\ faults \in 0..MaxFaults
    /\ lpc \in {"off", "poll", "emit", "idle", "rediscover", "done"}
    /\ repos \in SUBSET Repos
    /\ snapshot \in Snapshots
    /\ prevRuns \in Snapshots \cup {NoRuns}
    /\ prevErr \in Errors
    /\ outbox \in Events \cup {NoEvent}
    /\ cancelled \in BOOLEAN
    /\ hpc \in {"connect", "select", "write", "ended"}
    /\ inHand \in Events \cup {NoEvent}
    /\ gone \in BOOLEAN
    /\ heard \in [runs: Snapshots \cup {NoRuns}, err: Errors \cup {"store"}]
    /\ recent \in [Repos -> SUBSET Statuses]

-----------------------------------------------------------------------------
\* Mutant: a state the switch does not name is passed through.
DeriveRaw(state) ==
    CASE state \in {"queued", "in_progress"} -> "InProgress"
      [] state = "success" -> "Succeeded"
      [] state = "failure" -> "Failed"
      [] OTHER -> state

\* deriveWorkflowRunStatus, and the empty run of a repository without one.
DeriveStatus(state) ==
    CASE state \in {"queued", "in_progress"} -> "InProgress"
      [] state = "success" -> "Succeeded"
      [] state = "failure" -> "Failed"
      [] OTHER -> "None"

Clean(r) == [status |-> DeriveStatus(run[r]), error |-> "none"]
NothingPolled == [r \in {} |-> Clean(r)]

WatchInit ==
    /\ run \in [Repos -> RunStates]
    /\ listed \in SUBSET Repos
    /\ revoked = FALSE
    /\ changes = 0
    /\ faults = 0
    /\ lpc = "off"
    /\ repos = {}
    /\ snapshot = NothingPolled
    /\ prevRuns = NoRuns
    /\ prevErr = "none"
    /\ outbox = NoEvent
    /\ cancelled = FALSE
    /\ hpc = "connect"
    /\ inHand = NoEvent
    /\ gone = FALSE
    /\ heard = [runs |-> NoRuns, err |-> "none"]
    /\ recent = [r \in Repos |-> {DeriveStatus(run[r])}]

-----------------------------------------------------------------------------
(***************************************************************************)
(* GitHub and the browser.                                                 *)
(***************************************************************************)
\* What GitHub does after the stream has ended is nobody's concern.
Moves ==
    /\ hpc # "ended"
    /\ changes < MaxChanges
    /\ changes' = changes + 1

RunMoves(r) ==
    /\ Moves
    /\ \E state \in RunStates \ {run[r]} :
           /\ run' = [run EXCEPT ![r] = state]
           /\ recent' = [recent EXCEPT ![r] = @ \cup {DeriveStatus(state)}]
    /\ UNCHANGED <<listed, revoked, faults, lpc, repos, snapshot, prevRuns, prevErr,
                   outbox, handlerVars>>

\* A function is created or deleted.
ListMoves(r) ==
    /\ Moves
    /\ listed' = IF r \in listed THEN listed \ {r} ELSE listed \cup {r}
    /\ UNCHANGED <<run, revoked, faults, loopVars, handlerVars>>

TokenRevoked ==
    /\ Moves
    /\ ~revoked
    /\ revoked' = TRUE
    /\ UNCHANGED <<run, listed, faults, loopVars, handlerVars>>

BrowserLeaves ==
    /\ hpc # "ended" /\ ~gone
    /\ gone' = TRUE
    /\ UNCHANGED <<github, faults, loopVars, hpc, inHand, heard, cancelled>>

\* How a call to GitHub on behalf of this stream may end.
CallFails(err) ==
    \/ revoked /\ err = "auth" /\ UNCHANGED faults
    \/ /\ cancelled \/ (gone /\ hpc = "connect")
       /\ err = "net"
       /\ UNCHANGED faults
    \/ /\ faults < MaxFaults /\ err \in {"api", "net"}
       /\ faults' = faults + 1
CallSucceeds == ~revoked /\ ~cancelled /\ UNCHANGED faults

-----------------------------------------------------------------------------
(***************************************************************************)
(* The handler up to its loop.                                             *)
(***************************************************************************)
\* The caller's OpenShift token or SCM credential is missing ("auth"), or the
\* credential store fails ("store"): an error frame, and the stream ends.
Refuse ==
    /\ hpc = "connect"
    /\ hpc' = "ended"
    /\ \E err \in {"auth", "store"} : heard' = [heard EXCEPT !.err = err]
    /\ UNCHANGED <<github, faults, loopVars, inHand, gone, cancelled>>

\* The initial ListRepos runs on the caller's context; its failure ends the stream.
DiscoveryFails ==
    /\ hpc = "connect"
    /\ hpc' = "ended"
    /\ \E err \in Errors : CallFails(err) /\ heard' = [heard EXCEPT !.err = err]
    /\ UNCHANGED <<github, loopVars, inHand, gone, cancelled>>

StartWatch ==
    /\ hpc = "connect"
    /\ CallSucceeds
    /\ hpc' = "select"
    /\ repos' = listed
    /\ lpc' = "poll"
    /\ UNCHANGED <<github, snapshot, prevRuns, prevErr, outbox, recent, inHand, gone, heard, cancelled>>

-----------------------------------------------------------------------------
(***************************************************************************)
(* The polling loop.                                                       *)
(***************************************************************************)
\* Mutant: a failed repository restarts from the empty run.
CarryNothing(r, err) == [status |-> "None", error |-> err]

\* The last-known run of a repository that could not be polled.
CarryForward(r, err) ==
    [status |-> IF prevRuns # NoRuns /\ r \in DOMAIN prevRuns
                  THEN prevRuns[r].status ELSE "None",
     error |-> err]

Put(r, result) ==
    snapshot' = [known \in DOMAIN snapshot \cup {r} |->
                    IF known = r THEN result ELSE snapshot[known]]

\* One of pollRuns' concurrent calls, each at its own moment.
PollRepo(r) ==
    /\ lpc = "poll"
    /\ r \in repos \ DOMAIN snapshot
    /\ \/ CallSucceeds /\ Put(r, Clean(r))
       \/ \E err \in Errors : CallFails(err) /\ Put(r, CarryForward(r, err))
    /\ UNCHANGED <<github, lpc, repos, prevRuns, prevErr, outbox, recent, handlerVars>>

\* errors.Is: an error that never passed through the library does not match itself.
ErrEqual(x, y) == x = y /\ x # "net"

\* Mutant: an event that reports no error and no change is always suppressed.
SuppressedClean(err, sameRuns) == sameRuns /\ err = "none"
\* Mutant: only a changed snapshot is worth an event.
SuppressedRuns(err, sameRuns) == sameRuns

Suppressed(err, sameRuns) == sameRuns /\ ErrEqual(err, prevErr)

\* emit up to its select: either nothing to say, or blocked on the channel.
Emit(runs, err, sameRuns) ==
    IF Suppressed(err, sameRuns)
      THEN lpc' = "idle" /\ UNCHANGED outbox
      ELSE lpc' = "emit" /\ outbox' = [runs |-> runs, err |-> err]

\* reflect.DeepEqual on snapshots whose network errors are fresh instances may
\* find them equal or not.
MayEqual(runs) ==
    IF runs # prevRuns THEN {FALSE}
    ELSE IF \E r \in DOMAIN runs : runs[r].error = "net" THEN BOOLEAN
    ELSE {TRUE}

PollDone ==
    /\ lpc = "poll"
    /\ DOMAIN snapshot = repos
    /\ \E sameRuns \in MayEqual(snapshot) : Emit(snapshot, "none", sameRuns)
    /\ snapshot' = NothingPolled
    /\ UNCHANGED <<github, faults, repos, prevRuns, prevErr, recent, handlerVars>>

\* The select of the loop takes a ready ticker; a tick may be ready at any time,
\* and at most one of each is buffered.
TakeTick(ticker) ==
    /\ lpc = "idle"
    /\ lpc' = ticker
    /\ UNCHANGED <<github, faults, repos, snapshot, prevRuns, prevErr, outbox, recent,
                   handlerVars>>

Rediscover ==
    /\ lpc = "rediscover"
    /\ \/ /\ CallSucceeds
          /\ repos' = listed
          /\ Emit(prevRuns, "none", TRUE)
       \/ /\ \E err \in Errors : CallFails(err) /\ Emit(prevRuns, err, TRUE)
          /\ UNCHANGED repos
    /\ UNCHANGED <<github, snapshot, prevRuns, prevErr, recent, handlerVars>>

\* The event is sent: the loop remembers it, and the handler holds it.
SendEvent ==
    /\ lpc = "emit"
    /\ hpc = "select"
    /\ prevRuns' = outbox.runs
    /\ prevErr' = outbox.err
    /\ recent' = [r \in Repos |-> {DeriveStatus(run[r])}]
    /\ inHand' = outbox
    /\ outbox' = NoEvent
    /\ lpc' = "idle"
    /\ hpc' = "write"
    /\ UNCHANGED <<github, faults, repos, snapshot, gone, heard, cancelled>>

\* Mutant: emit sends without looking at the loop's context.
AbandonNever ==
    /\ lpc = "emit" /\ cancelled /\ FALSE
    /\ UNCHANGED watchVars

AbandonSend ==
    /\ lpc = "emit" /\ cancelled
    /\ lpc' = "idle"
    /\ outbox' = NoEvent
    /\ UNCHANGED <<github, faults, repos, snapshot, prevRuns, prevErr, recent, handlerVars>>

\* The loop ends, and closes the channel behind it; nobody listens any more.
LoopEnds ==
    /\ lpc = "idle" /\ cancelled
    /\ lpc' = "done"
    /\ UNCHANGED <<github, faults, repos, snapshot, prevRuns, prevErr, outbox, recent,
                   handlerVars>>

-----------------------------------------------------------------------------
(***************************************************************************)
(* The handler's loop.                                                     *)
(***************************************************************************)
\* An error event overlays what the browser shows, a snapshot replaces it.
Written(event) ==
    IF event.err # "none" THEN [heard EXCEPT !.err = event.err]
                          ELSE [runs |-> event.runs, err |-> "none"]

Write ==
    /\ hpc = "write"
    /\ ~gone
    /\ heard' = Written(inHand)
    /\ inHand' = NoEvent
    /\ hpc' = "select"
    /\ UNCHANGED <<github, faults, loopVars, gone, cancelled>>

\* workflowWatch.Stop
Stop == cancelled' = TRUE

\* ctx.Done, a heartbeat or an event that can no longer be written: the
\* deferred Stop cancels the loop's context.  Writes to a connection that is
\* being torn down may still seem to succeed.
HandlerEnds ==
    /\ gone
    /\ hpc \in {"select", "write"}
    /\ hpc' = "ended"
    /\ Stop
    /\ inHand' = NoEvent
    /\ UNCHANGED <<github, faults, loopVars, gone, heard>>

WriteLost ==
    /\ hpc = "write"
    /\ gone
    /\ hpc' = "select"
    /\ inHand' = NoEvent
    /\ UNCHANGED <<github, faults, loopVars, gone, heard, cancelled>>

WatchNext ==
    \/ \E r \in Repos : RunMoves(r) \/ ListMoves(r) \/ PollRepo(r)
    \/ TokenRevoked
    \/ BrowserLeaves
    \/ Refuse \/ DiscoveryFails \/ StartWatch
    \/ PollDone
    \/ \E t \in Tickers : TakeTick(t)
    \/ Rediscover
    \/ SendEvent
    \/ AbandonSend
    \/ LoopEnds
    \/ Write \/ HandlerEnds \/ WriteLost

WatchSpec == WatchInit /\ [][WatchNext]_watchVars

(***************************************************************************)
(* Calls return and runnable goroutines run.  The selects choose at random *)
(* among the ready cases, so none of them is passed over for ever.         *)
(***************************************************************************)
LoopRuns == (\E r \in Repos : PollRepo(r)) \/ PollDone \/ Rediscover \/ AbandonSend
HandlerRuns == StartWatch \/ DiscoveryFails \/ Write

WatchFairness ==
    /\ WF_watchVars(LoopRuns) /\ WF_watchVars(HandlerRuns)
    /\ \A t \in Tickers : SF_watchVars(TakeTick(t))
    /\ SF_watchVars(SendEvent) /\ SF_watchVars(LoopEnds) /\ SF_watchVars(HandlerEnds)

WatchFairSpec == WatchSpec /\ WatchFairness

-----------------------------------------------------------------------------
(***************************************************************************)
(* Properties                                                              *)
(***************************************************************************)

\* The loop's events are a StatusFeed: through partial failures, rediscovery and
\* repositories read at different moments, statuses never go back, never
\* flicker, and no event repeats the one before it.
Feed == INSTANCE StatusFeed WITH
            current <- [r \in Repos |-> DeriveStatus(run[r])],
            view <- prevRuns,
            fault <- prevErr

ImplementsFeed == Feed!FeedSpec

\* Once GitHub stands still and answers, a stream that stays open ends up showing
\* exactly the user's repositories with their statuses, and no error.
Settled ==
    heard = [runs |-> [r \in listed |-> Clean(r)], err |-> "none"]

Converges == <>[](hpc = "ended" \/ revoked \/ Settled)

\* A revoked token fails every poll as an error of one repository only; it still
\* reaches the browser as the failure of the whole watch.
RevocationReported == revoked ~> (hpc = "ended" \/ heard.err = "auth")

\* The polling loop never outlives its stream: wherever the browser leaves it,
\* blocked on the channel included, it ends.
LoopStops == gone ~> lpc \in {"off", "done"}

=============================================================================
