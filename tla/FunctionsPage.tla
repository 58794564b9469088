---------------------------- MODULE FunctionsPage ----------------------------
(***************************************************************************)
(* The list page and the session it runs in (AuthProvider.tsx,             *)
(* UserAvatar.tsx, authClient.ts, httpClient.ts, the list effect of        *)
(* FunctionsListPage.tsx).  The user connects, disconnects, refreshes and  *)
(* switches namespaces while answers to earlier requests are on their way; *)
(* the stored credential dies at GitHub, or other tabs remove or replace   *)
(* it.                                                                     *)
(***************************************************************************)
EXTENDS Naturals, ActiveNamespace

CONSTANTS
    Accounts,    \* GitHub accounts, one token each
    Unknown,     \* authUser before the backend has answered
    None,        \* no account, no rows
    MaxActions,  \* bound: connects, refreshes, namespace switches
    MaxDeletes   \* bound: clicks on "Disconnect"

ASSUME FunctionsPageAssumption ==
    /\ Unknown \notin Accounts /\ None \notin Accounts \cup {Unknown}
    /\ Accounts \cap {"idle", "sent", "settled", "unauthorized", "failed", "missing"} = {}
    /\ MaxActions \in Nat /\ MaxDeletes \in Nat

VARIABLES
    stored,      \* the account of the stored credential
    alive,       \* whether GitHub still takes its token
    elsewhere,   \* another tab stored a credential (history)
    fetch,       \* GET of the credential at mount
    connect,     \* POST of a token: the account of the token, and how far it is
    deletes,     \* clicks on "Disconnect"; DELETEs the backend has done, and answered
    authUser,    \* Unknown, None or the account
    alert,       \* showExpiredAlert
    connected,   \* some session has begun (history)
    call,        \* call[l]: the list request of the l-th run of the effect
    runs,        \* list requests so far
    current,     \* the request not ignored, 0 if the effect made none
    rows,        \* whose functions the list holds, and of which namespace
    loaded, listError, refreshing,
    actions      \* bound: what the user has done

backend == <<stored, alive, elsewhere>>
session == <<fetch, connect, deletes, authUser, alert, connected>>
list == <<call, runs, current, rows, loaded, listError, refreshing>>
vars == <<backend, session, namespace, list, actions>>

Calls == 1..(MaxActions + 1)
RowsOf == [account: Accounts, ns: Namespaces]
CallSteps == {"idle", "sent", "settled", "unauthorized", "failed"} \cup Accounts

TypeOK ==
    /\ stored \in Accounts \cup {None} /\ alive \in BOOLEAN /\ elsewhere \in BOOLEAN
    /\ fetch \in {"sent", "settled", "missing", "failed"} \cup Accounts
    /\ connect \in [of: Accounts, at: {"idle", "sent", "stored", "failed", "unauthorized"}]
    /\ deletes \in [clicked: 0..MaxDeletes, done: 0..MaxDeletes, answered: 0..MaxDeletes]
    /\ deletes.answered <= deletes.done /\ deletes.done <= deletes.clicked
    /\ authUser \in Accounts \cup {Unknown, None}
    /\ alert \in BOOLEAN /\ connected \in BOOLEAN
    /\ namespace \in Namespaces
    /\ call \in [Calls -> [ns: Namespaces, at: CallSteps]]
    /\ runs \in 0..(MaxActions + 1) /\ current \in 0..runs
    /\ rows \in RowsOf \cup {None}
    /\ {loaded, listError, refreshing} \subseteq BOOLEAN
    /\ actions \in 0..MaxActions

Init ==
    /\ stored \in Accounts \cup {None} /\ alive = TRUE /\ elsewhere = FALSE
    /\ fetch = "sent"
    /\ connect \in [of: Accounts, at: {"idle"}]
    /\ deletes = [clicked |-> 0, done |-> 0, answered |-> 0]
    /\ authUser = Unknown
    /\ alert = FALSE /\ connected = FALSE
    /\ namespace \in Namespaces
    /\ call = [l \in Calls |-> [ns |-> namespace, at |-> "idle"]]
    /\ runs = 0 /\ current = 0
    /\ rows = None
    /\ loaded = FALSE /\ listError = FALSE /\ refreshing = FALSE
    /\ actions = 0

-----------------------------------------------------------------------------
(***************************************************************************)
(* The list effect                                                         *)
(***************************************************************************)

\* The effect runs for this user and namespace; the run before is ignored now.
RunEffect(user, ns) ==
    IF user \in Accounts
    THEN /\ runs' = runs + 1
         /\ current' = runs + 1
         /\ call' = [call EXCEPT ![runs + 1] = [ns |-> ns, at |-> "sent"]]
    ELSE /\ current' = 0
         /\ UNCHANGED <<runs, call>>

\* Mutant: a refresh under way is not taken back.
ResetKeepsRefreshing(user) ==
    /\ rows' = None /\ listError' = FALSE /\ loaded' = (user \notin Accounts)
    /\ UNCHANGED refreshing

\* What rendering with another user or namespace resets; without a user the effect
\* has loaded nothing at once.
Reset(user) ==
    /\ rows' = None /\ listError' = FALSE /\ refreshing' = FALSE
    /\ loaded' = (user \notin Accounts)

SetAuthUser(user) ==
    /\ authUser' = user
    /\ IF user # authUser THEN Reset(user) /\ RunEffect(user, namespace) ELSE UNCHANGED list

SwitchNamespace ==
    /\ authUser # Unknown
    /\ actions < MaxActions
    /\ actions' = actions + 1
    /\ \E ns \in Namespaces \ {namespace} : namespace' = ns /\ RunEffect(authUser, ns)
    /\ Reset(authUser)
    /\ UNCHANGED <<backend, session>>

\* The button shows above rows, and is disabled while refreshing.
Refresh ==
    /\ authUser \in Accounts /\ rows # None /\ ~refreshing
    /\ actions < MaxActions
    /\ actions' = actions + 1
    /\ loaded' = FALSE /\ refreshing' = TRUE
    /\ RunEffect(authUser, namespace)
    /\ UNCHANGED <<backend, session, namespace, rows, listError>>

\* The backend lists the functions of the stored account, or the call fails; a 401 can
\* also be about the OpenShift identity (writeAuthError).
ServeList(l) ==
    /\ call[l].at = "sent"
    /\ \E answer \in {"failed", "unauthorized"} \cup (IF alive THEN {stored} \ {None} ELSE {}) :
           call' = [call EXCEPT ![l].at = answer]
    /\ UNCHANGED <<backend, session, namespace, runs, current, rows, loaded, listError,
                   refreshing, actions>>

\* Mutant: no ignore flag.
IgnoredNever(l) == FALSE

Ignored(l) == l # current

Settle(l) == call' = [call EXCEPT ![l].at = "settled"]

\* The functions arrive; there may be none.
ListArrives(l) ==
    /\ call[l].at \in Accounts
    /\ Settle(l)
    /\ IF Ignored(l)
       THEN UNCHANGED <<rows, loaded, listError, refreshing>>
       ELSE /\ rows' \in {None, [account |-> call[l].at, ns |-> call[l].ns]}
            /\ loaded' = TRUE /\ listError' = FALSE /\ refreshing' = FALSE
    /\ UNCHANGED <<backend, session, namespace, runs, current, actions>>

ListFails(l) ==
    /\ call[l].at = "failed"
    /\ Settle(l)
    /\ IF Ignored(l)
       THEN UNCHANGED <<loaded, listError, refreshing>>
       ELSE loaded' = TRUE /\ listError' = TRUE /\ refreshing' = FALSE
    /\ UNCHANGED <<backend, session, namespace, runs, current, rows, actions>>

-----------------------------------------------------------------------------
(***************************************************************************)
(* The session                                                             *)
(***************************************************************************)

\* Mutant: the listener is never taken off.
AlwaysListening == authUser # Unknown

\* The listener is on the window only while a user is connected.
Listening == authUser \in Accounts

\* announcingAuthExpired: a 401 of any request, ignored or not, ends the session.
\* Without one the request is of an earlier run of the effect, and ignored.
Unauthorized(l) ==
    /\ call[l].at = "unauthorized"
    /\ IF Listening
       THEN /\ authUser' = None /\ alert' = TRUE
            /\ current' = 0
            /\ Reset(None)
       ELSE UNCHANGED <<authUser, alert, current, rows, loaded, listError, refreshing>>
    /\ Settle(l)
    /\ UNCHANGED <<backend, fetch, connect, deletes, connected, namespace, runs, actions>>

onLogin(account) ==
    /\ SetAuthUser(account)
    /\ alert' = FALSE
    /\ connected' = TRUE

\* HandleGetSCMCredential tells what is stored, dead or not.
ServeFetch ==
    /\ fetch = "sent"
    /\ fetch' \in {"failed", IF stored = None THEN "missing" ELSE stored}
    /\ UNCHANGED <<backend, connect, deletes, authUser, alert, connected, namespace, list,
                   actions>>

\* fetchGithubUser turns a 404 into null; any other failure does the same here.
Fetched ==
    IF fetch \in Accounts
    THEN onLogin(fetch)
    ELSE SetAuthUser(None) /\ UNCHANGED <<alert, connected>>

FetchEnds ==
    /\ fetch \notin {"sent", "settled"}
    /\ fetch' = "settled"
    /\ Fetched
    /\ UNCHANGED <<backend, connect, deletes, namespace, actions>>

Connect ==
    /\ authUser = None /\ connect.at = "idle"
    /\ actions < MaxActions
    /\ actions' = actions + 1
    /\ connect' \in [of: Accounts, at: {"sent"}]
    /\ UNCHANGED <<backend, fetch, deletes, authUser, alert, connected, namespace, list>>

\* HandleSaveSCMCredential stores the token if GitHub takes it; the answer may be lost.
ServeConnect ==
    /\ connect.at = "sent"
    /\ \/ /\ \E at \in {"stored", "failed"} : connect' = [connect EXCEPT !.at = at]
          /\ stored' = connect.of /\ alive' = TRUE
       \/ /\ \E at \in {"unauthorized", "failed"} : connect' = [connect EXCEPT !.at = at]
          /\ UNCHANGED <<stored, alive>>
    /\ UNCHANGED <<elsewhere, fetch, deletes, authUser, alert, connected, namespace, list,
                   actions>>

\* A refused token is a 401 as well, which nobody listens to without a session.
ConnectEnds ==
    /\ connect.at \in {"stored", "unauthorized", "failed"}
    /\ connect' = [connect EXCEPT !.at = "idle"]
    /\ \/ connect.at = "stored" /\ onLogin(connect.of)
       \/ /\ connect.at # "stored"
          /\ alert' = (alert \/ (connect.at = "unauthorized" /\ Listening))
          /\ UNCHANGED <<authUser, connected, list>>
    /\ UNCHANGED <<backend, fetch, deletes, namespace, actions>>

\* onLogout: the menu stays as long as the DELETE runs, and can be used again.
Disconnect ==
    /\ authUser \in Accounts
    /\ deletes.clicked < MaxDeletes
    /\ deletes' = [deletes EXCEPT !.clicked = @ + 1]
    /\ UNCHANGED <<backend, fetch, connect, authUser, alert, connected, namespace, list, actions>>

\* HandleDeleteSCMCredential; a request that fails leaves the credential.
ServeDelete ==
    /\ deletes.done < deletes.clicked
    /\ deletes' = [deletes EXCEPT !.done = @ + 1]
    /\ stored' \in {None, stored}
    /\ UNCHANGED <<alive, elsewhere, fetch, connect, authUser, alert, connected, namespace, list,
                   actions>>

\* Mutant: the session ends only if the credential is gone.
LoggedOutIfRevoked == SetAuthUser(IF stored = None THEN None ELSE authUser)

\* disconnectGithubUser catches every error.
LoggedOut == SetAuthUser(None)

\* A 401 (of the OpenShift identity) is announced before it is caught.
DeleteEnds ==
    /\ deletes.answered < deletes.done
    /\ deletes' = [deletes EXCEPT !.answered = @ + 1]
    /\ alert' \in {alert, alert \/ Listening}
    /\ LoggedOut
    /\ UNCHANGED <<backend, fetch, connect, connected, namespace, actions>>

-----------------------------------------------------------------------------
(***************************************************************************)
(* The environment                                                         *)
(***************************************************************************)

\* The token expires or is revoked at GitHub.
TokenDies ==
    /\ stored # None /\ alive
    /\ alive' = FALSE
    /\ UNCHANGED <<stored, elsewhere, session, namespace, list, actions>>

\* Another tab of the user disconnects, or connects another account.
OtherTab ==
    /\ ~elsewhere
    /\ stored' \in (Accounts \cup {None}) \ {stored}
    /\ elsewhere' = TRUE
    /\ alive' = TRUE
    /\ UNCHANGED <<session, namespace, list, actions>>

Serve == ServeFetch \/ ServeConnect \/ ServeDelete \/ \E l \in Calls : ServeList(l)

Answer ==
    \/ FetchEnds
    \/ ConnectEnds
    \/ DeleteEnds
    \/ \E l \in Calls : ListArrives(l) \/ ListFails(l) \/ Unauthorized(l)

Next ==
    \/ Connect
    \/ Disconnect
    \/ SwitchNamespace
    \/ Refresh
    \/ Serve
    \/ Answer
    \/ TokenDies
    \/ OtherTab

Spec == Init /\ [][Next]_vars

\* Every request ends: consoleFetch gives up after its timeout.
FairSpec == Spec /\ WF_vars(Serve) /\ WF_vars(Answer)

-----------------------------------------------------------------------------
(***************************************************************************)
(* Properties                                                              *)
(***************************************************************************)

\* The functions shown are those of the namespace selected and of the account
\* connected, however late answers to earlier requests come; only another tab that
\* changes the account behind the page's back can mix accounts.
RowsAreOwn ==
    rows # None => rows.ns = namespace /\ (elsewhere \/ rows.account = authUser)

\* A 401 is an expiry only for a user who was connected: the warning never shows
\* to one who never was, nor beside a session that has begun since.  (A late 401 of
\* an earlier session does end, and warn of, the session of the moment.)
WarnsOnlyExpired == alert => connected /\ authUser = None

\* Neither spinner stays: whatever is switched, refreshed and logged out while
\* lists are under way, the page ends up loaded and not refreshing.
ListSettles == <>[](loaded /\ ~refreshing)

\* "Disconnect" ends the session even if the backend cannot revoke the credential.
DisconnectEnds == deletes.answered < deletes.clicked ~> authUser = None

=============================================================================
