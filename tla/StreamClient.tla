---------------------------- MODULE StreamClient ----------------------------
(***************************************************************************)
(* The browser's end of the workflow run stream: the reconnecting          *)
(* transport (sseEventSource.ts), the client that gives its events a       *)
(* meaning (functionsClient.ts), the effect of the functions page that     *)
(* opens and closes it (FunctionsListPage.tsx), and the part of            *)
(* AuthProvider.tsx that decides who is connected.  JavaScript runs one    *)
(* callback at a time; between any two of them a stream may receive, fail, *)
(* end or time out, and the user may log in, log out, refresh or leave.    *)
(***************************************************************************)
EXTENDS Naturals, Sequences

CONSTANTS
    MaxStreams,    \* bound: event sources the page creates
    MaxVersions,   \* bound: snapshots the backend has to tell
    MaxTroubles    \* bound: failed connections, lost connections, error frames

ASSUME StreamClientAssumption ==
    /\ MaxStreams \in Nat \ {0}
    /\ MaxVersions \in Nat \ {0}
    /\ MaxTroubles \in Nat

VARIABLES
    connected,   \* AuthProvider: there is an authenticated user
    mounted,     \* the functions page is shown
    deps,        \* the effect is due: its dependencies changed since it ran
    current,     \* the event source the effect opened last, 0 if it closed it
    opened,      \* event sources created so far
    phase,       \* phase[s]: where the run() of event source s stands
    receiving,   \* receiving[s]: isReceiving
    aborted,     \* aborted[s]: the controller's signal
    listening,   \* listening[s]: the listeners are registered
    buffer,      \* buffer[s]: frames sent by the backend and not handled yet
    told,        \* told[s]: the last version the backend sent on s
    latest,      \* the version of the newest snapshot
    page,        \* what the page shows: workflowRuns and receiveError
    troubles     \* troubles so far

vars == <<connected, mounted, deps, current, opened, phase, receiving, aborted,
          listening, buffer, told, latest, page, troubles>>

Streams == 1..MaxStreams
Versions == 0..MaxVersions
Frames == [event: {"status", "appError", "unauthorized"}, version: Versions]
Problems == {"none", "http", "lost", "app", "auth"}
Running == {"fetching", "reading", "waiting"}

TypeOK ==
    /\ connected \in BOOLEAN
    /\ mounted \in BOOLEAN
    /\ deps \in BOOLEAN
    /\ current \in 0..MaxStreams
    /\ opened \in 0..MaxStreams
    /\ phase \in [Streams -> Running \cup {"unused", "done"}]
    /\ receiving \in [Streams -> BOOLEAN]
    /\ aborted \in [Streams -> BOOLEAN]
    /\ listening \in [Streams -> BOOLEAN]
    /\ buffer \in [Streams -> Seq(Frames)]
    /\ told \in [Streams -> Versions]
    /\ latest \in 1..MaxVersions
    /\ page \in [runs: Versions, problem: Problems]
    /\ troubles \in 0..MaxTroubles

Init ==
    /\ connected \in BOOLEAN
    /\ mounted = TRUE
    /\ deps = TRUE
    /\ current = 0
    /\ opened = 0
    /\ phase = [s \in Streams |-> "unused"]
    /\ receiving = [s \in Streams |-> FALSE]
    /\ aborted = [s \in Streams |-> FALSE]
    /\ listening = [s \in Streams |-> FALSE]
    /\ buffer = [s \in Streams |-> <<>>]
    /\ told = [s \in Streams |-> 0]
    /\ latest = 1
    /\ page = [runs |-> 0, problem |-> "none"]
    /\ troubles = 0

switches == <<receiving, aborted, listening>>
session == <<connected, mounted, deps>>
backend == <<told, latest>>

Trouble == troubles < MaxTroubles /\ troubles' = troubles + 1

-----------------------------------------------------------------------------
(***************************************************************************)
(* The transport.                                                          *)
(***************************************************************************)
\* Mutant: close() aborts the connection and forgets isReceiving.
ToggleAborts(closing, opening) ==
    /\ receiving' = [s \in Streams |-> receiving[s] \/ s \in opening]
    /\ aborted' = [s \in Streams |-> aborted[s] \/ s \in closing]
    /\ listening' = [s \in Streams |-> (listening[s] /\ s \notin closing) \/ s \in opening]

\* Mutant: close() aborts the connection and drops nothing else.
ToggleSignal(closing, opening) ==
    /\ receiving' = [s \in Streams |-> receiving[s] \/ s \in opening]
    /\ aborted' = [s \in Streams |-> aborted[s] \/ s \in closing]
    /\ listening' = [s \in Streams |-> listening[s] \/ s \in opening]

\* close() of some event sources (safe to call again, and from inside a
\* listener), and the creation of others.
Toggle(closing, opening) ==
    /\ receiving' = [s \in Streams |-> (receiving[s] /\ s \notin closing) \/ s \in opening]
    /\ aborted' = [s \in Streams |-> aborted[s] \/ s \in closing]
    /\ listening' = [s \in Streams |-> (listening[s] /\ s \notin closing) \/ s \in opening]

Close(s) == Toggle({s}, {})

Goto(s, where) == phase' = [phase EXCEPT ![s] = where]

\* notify(browserErrorListeners, ...): functionsClient turns it into a message.
Shows(s, problem) ==
    IF receiving[s] /\ listening[s]
      THEN page' = [page EXCEPT !.problem = problem]
      ELSE UNCHANGED page

\* The attempt rejects: catch returns when closed, else tells and waits.
Attempted(s, problem) ==
    /\ Shows(s, problem)
    /\ buffer' = [buffer EXCEPT ![s] = <<>>]
    /\ Goto(s, IF receiving[s] THEN "waiting" ELSE "done")

\* fetchFn resolved: open, or a body-less answer that is tried again at once.
FetchOk(s) ==
    /\ phase[s] = "fetching" /\ ~aborted[s]
    /\ \/ /\ Goto(s, IF receiving[s] THEN "reading" ELSE "done")
          /\ UNCHANGED troubles
       \/ /\ Trouble
          /\ Goto(s, IF receiving[s] THEN "fetching" ELSE "done")
    /\ told' = [told EXCEPT ![s] = 0]
    /\ UNCHANGED <<session, current, opened, switches, buffer, latest, page>>

\* fetchFn rejected: the backend is unreachable or answers with an error.
FetchFails(s) ==
    /\ phase[s] = "fetching" /\ ~aborted[s]
    /\ Trouble
    /\ \E problem \in {"http", "lost"} : Attempted(s, problem)
    /\ UNCHANGED <<session, current, opened, switches, backend>>

\* HTTP 401 is announced on the window before it is thrown: AuthProvider, which
\* listens while connected, drops the user.
FetchUnauthorized(s) ==
    /\ phase[s] = "fetching" /\ ~aborted[s]
    /\ Trouble
    /\ Attempted(s, "http")
    /\ connected' = FALSE
    /\ deps' = (deps \/ connected)
    /\ UNCHANGED <<mounted, current, opened, switches, backend>>

\* An aborted fetch or read rejects with an AbortError.
Aborted(s) ==
    /\ phase[s] \in {"fetching", "reading"} /\ aborted[s]
    /\ Attempted(s, "lost")
    /\ UNCHANGED <<session, current, opened, switches, backend, troubles>>

\* The connection breaks (the read rejects) or ends cleanly (nobody is told).
ConnectionEnds(s) ==
    /\ phase[s] = "reading" /\ ~aborted[s]
    /\ Trouble
    /\ \/ Attempted(s, "lost")
       \/ /\ Goto(s, IF receiving[s] THEN "waiting" ELSE "done")
          /\ buffer' = [buffer EXCEPT ![s] = <<>>]
          /\ UNCHANGED page
    /\ UNCHANGED <<session, current, opened, switches, backend>>

\* delay() resolves after reconnectDelayMs, or at once when aborted.
DelayOver(s) ==
    /\ phase[s] = "waiting"
    /\ Goto(s, IF receiving[s] THEN "fetching" ELSE "done")
    /\ UNCHANGED <<session, current, opened, switches, buffer, backend, page, troubles>>

\* Mutant: a status frame leaves an earlier problem on the page.
HandledKeepsProblem(s, frame) ==
    CASE frame.event = "appError" ->
             page' = [page EXCEPT !.problem = "app"] /\ UNCHANGED switches
      [] frame.event = "unauthorized" ->
             page' = [page EXCEPT !.problem = "auth"] /\ Close(s)
      [] OTHER ->
             page' = [page EXCEPT !.runs = frame.version] /\ UNCHANGED switches

\* A status frame replaces the runs and clears the problem; a 401 app-error is
\* shown and closes the stream; any other app-error is shown.
Handled(s, frame) ==
    CASE frame.event = "appError" ->
             page' = [page EXCEPT !.problem = "app"] /\ UNCHANGED switches
      [] frame.event = "unauthorized" ->
             page' = [page EXCEPT !.problem = "auth"] /\ Close(s)
      [] OTHER ->
             page' = [runs |-> frame.version, problem |-> "none"] /\ UNCHANGED switches

\* The next frame of the body; a closed stream leaves the loop instead.
Receive(s) ==
    /\ phase[s] = "reading"
    /\ buffer[s] # <<>>
    /\ buffer' = [buffer EXCEPT ![s] = Tail(@)]
    /\ IF receiving[s]
         THEN /\ IF listening[s] THEN Handled(s, Head(buffer[s]))
                                 ELSE UNCHANGED <<page, switches>>
              /\ UNCHANGED phase
         ELSE /\ Goto(s, "done")
              /\ UNCHANGED <<page, switches>>
    /\ UNCHANGED <<session, current, opened, backend, troubles>>

-----------------------------------------------------------------------------
(***************************************************************************)
(* The backend, as far as the stream shows it (module WorkflowWatch).      *)
(***************************************************************************)
Send(s, event) ==
    buffer' = [buffer EXCEPT ![s] = Append(@, [event |-> event, version |-> latest])]
untouched == <<session, current, opened, phase, switches, page>>

SendStatus(s) ==
    /\ phase[s] = "reading"
    /\ told[s] < latest
    /\ Send(s, "status")
    /\ told' = [told EXCEPT ![s] = latest]
    /\ UNCHANGED <<untouched, latest, troubles>>

\* An error of the whole watch; the next poll that succeeds is told anew.
SendError(s) ==
    /\ phase[s] = "reading"
    /\ Trouble
    /\ \E event \in {"appError", "unauthorized"} : Send(s, event)
    /\ told' = [told EXCEPT ![s] = 0]
    /\ UNCHANGED <<untouched, latest>>

StatusChanges ==
    /\ latest < MaxVersions
    /\ latest' = latest + 1
    /\ UNCHANGED <<untouched, buffer, told, troubles>>

-----------------------------------------------------------------------------
(***************************************************************************)
(* The page and its user.                                                  *)
(***************************************************************************)
others == <<current, opened, phase, switches, buffer, backend, page, troubles>>

\* onLogin, onLogout: the effect depends on the user.  The effects of one render
\* have run before the next one.
LogInOrOut ==
    /\ ~deps /\ opened < MaxStreams
    /\ connected' = ~connected
    /\ deps' = mounted
    /\ UNCHANGED <<mounted, others>>

\* The refresh key is bumped, by an authenticated user only.
Refresh ==
    /\ ~deps /\ opened < MaxStreams
    /\ mounted /\ connected
    /\ deps' = TRUE
    /\ UNCHANGED <<connected, mounted, others>>

\* Mutant: the effect has no clean-up.
CleanedUpNothing == {}

\* What the effect's clean-up closes: the stream it opened last.
CleanedUp == {current} \ {0}

\* The effect after its dependencies changed cleans up and, with a user, opens a
\* new event source, whose first attempt starts at once.
RunEffect ==
    /\ deps
    /\ deps' = FALSE
    /\ IF connected
         THEN /\ opened' = opened + 1
              /\ current' = opened'
              /\ Toggle(CleanedUp, {opened'})
              /\ Goto(opened', "fetching")
         ELSE /\ current' = 0
              /\ Toggle(CleanedUp, {})
              /\ UNCHANGED <<opened, phase>>
    /\ UNCHANGED <<connected, mounted, buffer, backend, page, troubles>>

\* The page is left: the clean-up runs, the effect does not.
Leave ==
    /\ mounted
    /\ mounted' = FALSE
    /\ deps' = FALSE
    /\ Toggle(CleanedUp, {})
    /\ current' = 0
    /\ UNCHANGED <<connected, opened, phase, buffer, backend, page, troubles>>

Transport(s) ==
    \/ FetchOk(s)
    \/ FetchFails(s)
    \/ FetchUnauthorized(s)
    \/ Aborted(s)
    \/ ConnectionEnds(s)
    \/ DelayOver(s)
    \/ Receive(s)

Next ==
    \/ \E s \in Streams : Transport(s) \/ SendStatus(s) \/ SendError(s)
    \/ StatusChanges
    \/ LogInOrOut
    \/ Refresh
    \/ RunEffect
    \/ Leave

Spec == Init /\ [][Next]_vars

(***************************************************************************)
(* Promises settle, timers fire, effects run, and a backend that has       *)
(* something to tell tells it.  Nothing makes the user or the network act. *)
(***************************************************************************)
Fairness ==
    /\ WF_vars(RunEffect)
    /\ \A s \in Streams :
           /\ WF_vars(FetchOk(s) \/ FetchFails(s) \/ FetchUnauthorized(s))
           /\ WF_vars(Aborted(s)) /\ WF_vars(DelayOver(s))
           /\ WF_vars(Receive(s)) /\ WF_vars(SendStatus(s))

FairSpec == Spec /\ Fairness

-----------------------------------------------------------------------------
(***************************************************************************)
(* Properties                                                              *)
(***************************************************************************)

\* The page changes only at the hands of the stream its effect opened last, while
\* that one is open: frames, rejections and timers of closed streams that are
\* still under way never reach it.
Acts(s) == phase'[s] # phase[s] \/ buffer'[s] # buffer[s]

OnlyCurrentSpeaks ==
    [][page' # page => current # 0 /\ receiving[current] /\ Acts(current)]_vars

\* The runs shown never go back to an older snapshot, though every stream and every
\* reconnection starts over and frames of the one before may be under way.
RunsNeverGoBack == [][page'.runs >= page.runs]_vars

\* A closed stream stops: whatever it was doing, its run() returns and it never
\* connects again.
ClosedStreamsStop == \A s \in Streams : aborted[s] ~> phase[s] = "done"

\* While a user stays, every failure is recovered from: the page ends up with the
\* newest snapshot and no problem, unless the backend refused the credential and
\* the client closed the stream for that.
Refused == page.problem = "auth" /\ current # 0 /\ aborted[current]

Recovers ==
    <>[](\/ ~connected \/ ~mounted
         \/ Refused
         \/ page = [runs |-> latest, problem |-> "none"])

=============================================================================
