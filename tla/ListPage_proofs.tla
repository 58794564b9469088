--------------------------- MODULE ListPage_proofs ---------------------------
(***************************************************************************)
(* Proofs for the list page, for any accounts, namespaces, repositories,   *)
(* lists and bounds.  FunctionsPage, its session: the functions shown are  *)
(* of the namespace and the account on display, and the warning of an      *)
(* expiry shows only to a user who was connected.  FunctionRows, its rows: *)
(* each item has its own, and none is said to be idle that is not.         *)
(***************************************************************************)
EXTENDS FunctionsPage, FunctionRows, WellFoundedInduction, TLAPS

-----------------------------------------------------------------------------
(***************************************************************************)
(* The page and its session                                                *)
(***************************************************************************)

USE FunctionsPageAssumption

\* The answer to the GET at mount decides the first session; only without one does
\* the user connect; what a session was told of the store is still true there,
\* unless a credential was removed, or changed by another tab.
SessionInv ==
    /\ authUser = Unknown <=> fetch # "settled"
    /\ fetch # "settled" => deletes.clicked = 0
    /\ connect.at # "idle" => authUser = None
    /\ ~elsewhere /\ fetch \in Accounts => stored = fetch
    /\ ~elsewhere /\ connect.at = "stored" => stored \in {None, connect.of}
    /\ ~elsewhere /\ authUser \in Accounts => stored \in {None, authUser}
    /\ authUser \in Accounts => connected

\* The call not ignored was made by this session for this namespace, and answered for
\* its account.
CallInv ==
    current # 0 =>
        /\ authUser \in Accounts
        /\ call[current].ns = namespace
        /\ call[current].at \in Accounts => elsewhere \/ call[current].at = authUser

\* The bound on the calls: one for the first session, one for each action.
Budget ==
    /\ runs <= actions + 1
    /\ connect.at # "idle" \/ fetch # "settled" => runs <= actions

IInv == TypeOK /\ SessionInv /\ CallInv /\ Budget /\ RowsAreOwn /\ WarnsOnlyExpired

-----------------------------------------------------------------------------
(***************************************************************************)
(* Lemmas about the helpers                                                *)
(***************************************************************************)

\* What no account is.
LEMMA Apart ==
    /\ None \notin Accounts /\ Unknown \notin Accounts /\ None # Unknown
    /\ {"idle", "sent", "settled", "unauthorized", "failed", "missing"} \cap Accounts = {}
OBVIOUS

\* A run of the effect makes the one call that is not ignored, or none.
LEMMA RunStep ==
    ASSUME NEW user, NEW ns \in Namespaces, TypeOK, RunEffect(user, ns),
           user \in Accounts => runs < MaxActions + 1
    PROVE  /\ runs' \in 0..(MaxActions + 1) /\ current' \in 0..runs'
           /\ call' \in [Calls -> [ns: Namespaces, at: CallSteps]]
           /\ user \in Accounts =>
                  /\ runs' = runs + 1
                  /\ call'[current'].ns = ns /\ call'[current'].at = "sent"
           /\ user \notin Accounts => runs' = runs /\ current' = 0
<1>1. CASE user \in Accounts
    <2>1. /\ runs' = runs + 1 /\ current' = runs + 1
          /\ call' = [call EXCEPT ![runs + 1] = [ns |-> ns, at |-> "sent"]]
        BY <1>1 DEF RunEffect
    <2>2. runs + 1 \in Calls
        BY <1>1 DEF TypeOK, Calls
    <2>3. [ns |-> ns, at |-> "sent"] \in [ns: Namespaces, at: CallSteps]
        BY DEF CallSteps
    <2>4. call' \in [Calls -> [ns: Namespaces, at: CallSteps]]
        BY <2>1, <2>2, <2>3 DEF TypeOK
    <2>5. call'[current'] = [ns |-> ns, at |-> "sent"]
        BY <2>1, <2>2 DEF TypeOK
    <2> QED BY <1>1, <2>1, <2>2, <2>4, <2>5 DEF TypeOK, Calls
<1>2. CASE user \notin Accounts
    BY <1>2 DEF RunEffect, TypeOK
<1> QED BY <1>1, <1>2

\* A call that is answered for, or settled, keeps its namespace.
LEMMA AnswerStep ==
    ASSUME NEW l \in Calls, NEW at \in CallSteps, TypeOK, call' = [call EXCEPT ![l].at = at]
    PROVE  /\ call' \in [Calls -> [ns: Namespaces, at: CallSteps]]
           /\ \A m \in Calls : call'[m].ns = call[m].ns
           /\ \A m \in Calls \ {l} : call'[m].at = call[m].at
           /\ call'[l].at = at
BY DEF TypeOK

\* A session that begins or ends lists anew.
LEMMA UserStep ==
    ASSUME NEW user \in Accounts \cup {None}, TypeOK, CallInv, RowsAreOwn, SetAuthUser(user),
           UNCHANGED <<elsewhere, namespace>>,
           user # authUser /\ user \in Accounts => runs < MaxActions + 1
    PROVE  /\ authUser' = user
           /\ runs' \in 0..(MaxActions + 1) /\ current' \in 0..runs'
           /\ call' \in [Calls -> [ns: Namespaces, at: CallSteps]]
           /\ rows' \in RowsOf \cup {None}
           /\ {loaded', listError', refreshing'} \subseteq BOOLEAN
           /\ CallInv' /\ RowsAreOwn'
           /\ user \in Accounts => runs' <= runs + 1
           /\ user \notin Accounts => runs' = runs
<1>1. CASE user = authUser
    <2>1. authUser' = authUser
          /\ UNCHANGED <<call, runs, current, rows, loaded, listError, refreshing>>
        BY <1>1 DEF SetAuthUser, list
    <2> QED BY <1>1, <2>1 DEF TypeOK, CallInv, RowsAreOwn
<1>2. CASE user # authUser
    <2>1. authUser' = user /\ Reset(user) /\ RunEffect(user, namespace)
        BY <1>2 DEF SetAuthUser
    <2>2. rows' = None /\ {loaded', listError', refreshing'} \subseteq BOOLEAN
        BY <2>1 DEF Reset
    <2>3. namespace \in Namespaces
        BY DEF TypeOK
    <2>4. /\ runs' \in 0..(MaxActions + 1) /\ current' \in 0..runs'
          /\ call' \in [Calls -> [ns: Namespaces, at: CallSteps]]
          /\ user \in Accounts =>
                 /\ runs' = runs + 1
                 /\ call'[current'].ns = namespace /\ call'[current'].at = "sent"
          /\ user \notin Accounts => runs' = runs /\ current' = 0
        BY <1>2, <2>1, <2>3, RunStep
    <2>5. CallInv'
        BY <2>1, <2>4, Apart DEF CallInv
    <2>6. RowsAreOwn'
        BY <2>2 DEF RowsAreOwn
    <2> QED BY <2>1, <2>2, <2>4, <2>5, <2>6 DEF TypeOK
<1> QED BY <1>1, <1>2

-----------------------------------------------------------------------------
(***************************************************************************)
(* The invariant                                                           *)
(***************************************************************************)

\* The page as it mounts.
LEMMA Initially == Init => IInv
<1> SUFFICES ASSUME Init PROVE IInv
    OBVIOUS
<1>1. TypeOK
    <2>1. connect \in [of: Accounts, at: {"idle", "sent", "stored", "failed", "unauthorized"}]
        <3>1. connect \in [of: Accounts, at: {"idle"}]
            BY DEF Init
        <3> QED BY <3>1
    <2>2. call \in [Calls -> [ns: Namespaces, at: CallSteps]]
        <3>1. namespace \in Namespaces /\ "idle" \in CallSteps
            BY DEF Init, CallSteps
        <3> QED BY <3>1 DEF Init
    <2>3. deletes \in [clicked: 0..MaxDeletes, done: 0..MaxDeletes, answered: 0..MaxDeletes]
          /\ deletes.answered <= deletes.done /\ deletes.done <= deletes.clicked
        BY DEF Init
    <2>4. runs \in 0..(MaxActions + 1) /\ current \in 0..runs /\ actions \in 0..MaxActions
        BY DEF Init
    <2> QED BY <2>1, <2>2, <2>3, <2>4, Apart DEF Init, TypeOK
<1>2. SessionInv /\ CallInv /\ Budget
    BY Apart DEF Init, SessionInv, CallInv, Budget
<1> QED BY <1>1, <1>2 DEF Init, IInv, RowsAreOwn, WarnsOnlyExpired

\* Switching namespaces and refreshing list anew within the session.
LEMMA ActionStep ==
    ASSUME IInv, SwitchNamespace \/ Refresh
    PROVE  IInv'
<1>1. actions' \in 0..MaxActions /\ actions' = actions + 1
    BY DEF SwitchNamespace, Refresh, IInv, TypeOK
<1>2. authUser \in Accounts => runs < MaxActions + 1
    BY Apart DEF SwitchNamespace, Refresh, IInv, TypeOK, SessionInv, Budget
<1>3. /\ UNCHANGED <<stored, alive, elsewhere, fetch, connect, deletes, authUser, alert, connected>>
      /\ namespace' \in Namespaces
      /\ RunEffect(authUser, namespace')
    BY DEF SwitchNamespace, Refresh, backend, session, IInv, TypeOK
<1>4. /\ runs' \in 0..(MaxActions + 1) /\ current' \in 0..runs'
      /\ call' \in [Calls -> [ns: Namespaces, at: CallSteps]]
      /\ authUser \in Accounts =>
             /\ runs' = runs + 1
             /\ call'[current'].ns = namespace' /\ call'[current'].at = "sent"
      /\ authUser \notin Accounts => runs' = runs /\ current' = 0
    BY <1>2, <1>3, RunStep DEF IInv
<1>5. /\ {loaded', listError', refreshing'} \subseteq BOOLEAN
      /\ rows' = None \/ (rows' = rows /\ namespace' = namespace)
    BY DEF SwitchNamespace, Refresh, Reset, IInv, TypeOK
<1>6. TypeOK'
    BY <1>1, <1>3, <1>4, <1>5 DEF IInv, TypeOK
<1>7. SessionInv'
    BY <1>3 DEF IInv, SessionInv
<1>8. CallInv'
    BY <1>3, <1>4, Apart DEF CallInv
<1>9. Budget'
    <2>1. runs' <= runs + 1 /\ runs \in Nat /\ runs' \in Nat /\ actions \in Nat
        BY <1>4 DEF IInv, TypeOK
    <2>2. authUser \in Accounts => connect.at = "idle" /\ fetch = "settled"
        BY Apart DEF IInv, SessionInv
    <2> QED BY <1>1, <1>3, <1>4, <2>1, <2>2 DEF IInv, Budget
<1>10. RowsAreOwn' /\ WarnsOnlyExpired'
    BY <1>3, <1>5 DEF IInv, RowsAreOwn, WarnsOnlyExpired
<1> QED BY <1>6, <1>7, <1>8, <1>9, <1>10 DEF IInv

\* The backend answers a list request for the account it holds the credential of.
LEMMA ServeListStep ==
    ASSUME IInv, NEW l \in Calls, ServeList(l)
    PROVE  IInv'
<1>1. PICK answer \in {"failed", "unauthorized"} \cup (IF alive THEN {stored} \ {None} ELSE {}) :
          call' = [call EXCEPT ![l].at = answer]
    BY DEF ServeList
<1>2. answer \in CallSteps /\ (answer \in Accounts => stored = answer)
    BY <1>1, Apart DEF CallSteps, IInv, TypeOK
<1>3. UNCHANGED <<stored, alive, elsewhere, fetch, connect, deletes, authUser, alert, connected,
                  namespace, runs, current, rows, loaded, listError, refreshing, actions>>
    BY DEF ServeList, backend, session
<1>4. /\ call' \in [Calls -> [ns: Namespaces, at: CallSteps]]
      /\ \A m \in Calls : call'[m].ns = call[m].ns
      /\ \A m \in Calls \ {l} : call'[m].at = call[m].at
      /\ call'[l].at = answer
    BY <1>1, <1>2, AnswerStep DEF IInv
<1>5. CallInv'
    <2> SUFFICES ASSUME current # 0
                 PROVE  /\ authUser \in Accounts
                        /\ call'[current].ns = namespace
                        /\ call'[current].at \in Accounts =>
                               elsewhere \/ call'[current].at = authUser
        BY <1>3 DEF CallInv
    <2>1. current \in Calls
        BY DEF IInv, TypeOK, Calls
    <2>2. /\ authUser \in Accounts /\ call[current].ns = namespace
          /\ call[current].at \in Accounts => elsewhere \/ call[current].at = authUser
        BY DEF IInv, CallInv
    <2>3. CASE current = l
        BY <1>2, <1>4, <2>1, <2>2, <2>3, Apart DEF IInv, SessionInv
    <2>4. CASE current # l
        BY <1>4, <2>1, <2>2, <2>4
    <2> QED BY <2>3, <2>4
<1> QED BY <1>3, <1>4, <1>5 DEF IInv, TypeOK, SessionInv, Budget, RowsAreOwn, WarnsOnlyExpired

\* An answer to a list request settles it, and is shown unless it is ignored.
LEMMA ListAnswered ==
    ASSUME IInv, NEW l \in Calls, ListArrives(l) \/ ListFails(l)
    PROVE  IInv'
<1>1. call' = [call EXCEPT ![l].at = "settled"] /\ "settled" \in CallSteps
    BY DEF ListArrives, ListFails, Settle, CallSteps
<1>2. /\ call' \in [Calls -> [ns: Namespaces, at: CallSteps]]
      /\ \A m \in Calls : call'[m].ns = call[m].ns
      /\ \A m \in Calls \ {l} : call'[m].at = call[m].at
      /\ call'[l].at = "settled"
    BY <1>1, AnswerStep DEF IInv
<1>3. UNCHANGED <<stored, alive, elsewhere, fetch, connect, deletes, authUser, alert, connected,
                  namespace, runs, current, actions>>
    BY DEF ListArrives, ListFails, backend, session
<1>4. /\ {loaded', listError', refreshing'} \subseteq BOOLEAN
      /\ \/ rows' \in {rows, None}
         \/ /\ l = current /\ call[l].at \in Accounts
            /\ rows' = [account |-> call[l].at, ns |-> call[l].ns]
    <2>1. CASE ListArrives(l)
        <3>1. CASE Ignored(l)
            BY <2>1, <3>1 DEF ListArrives, IInv, TypeOK
        <3>2. CASE ~Ignored(l)
            BY <2>1, <3>2 DEF ListArrives, Ignored
        <3> QED BY <3>1, <3>2
    <2>2. CASE ListFails(l)
        BY <2>2 DEF ListFails, IInv, TypeOK
    <2> QED BY <2>1, <2>2
<1>5. CallInv'
    <2>1. current # 0 => current \in Calls
        BY DEF IInv, TypeOK, Calls
    <2> QED BY <1>2, <1>3, <2>1, Apart DEF IInv, CallInv
<1>6. rows' \in RowsOf \cup {None} /\ RowsAreOwn'
    <2>1. CASE rows' \in {rows, None}
        BY <1>3, <2>1 DEF IInv, TypeOK, RowsAreOwn
    <2>2. CASE /\ l = current /\ call[l].at \in Accounts
               /\ rows' = [account |-> call[l].at, ns |-> call[l].ns]
        <3>1. l # 0 /\ call[l].ns \in Namespaces
            BY DEF IInv, TypeOK, Calls
        <3>2. call[l].ns = namespace /\ (elsewhere \/ call[l].at = authUser)
            BY <2>2, <3>1 DEF IInv, CallInv
        <3> QED BY <1>3, <2>2, <3>1, <3>2 DEF RowsOf, RowsAreOwn
    <2> QED BY <1>4, <2>1, <2>2
<1> QED BY <1>2, <1>3, <1>4, <1>5, <1>6 DEF IInv, TypeOK, SessionInv, Budget, WarnsOnlyExpired

\* A 401 ends the session it finds.
LEMMA UnauthorizedStep ==
    ASSUME IInv, NEW l \in Calls, Unauthorized(l)
    PROVE  IInv'
<1>1. call' = [call EXCEPT ![l].at = "settled"] /\ "settled" \in CallSteps
    BY DEF Unauthorized, Settle, CallSteps
<1>2. /\ call' \in [Calls -> [ns: Namespaces, at: CallSteps]]
      /\ \A m \in Calls : call'[m].ns = call[m].ns
      /\ \A m \in Calls \ {l} : call'[m].at = call[m].at
      /\ call'[l].at = "settled"
    BY <1>1, AnswerStep DEF IInv
<1>3. UNCHANGED <<stored, alive, elsewhere, fetch, connect, deletes, connected, namespace, runs,
                  actions>>
    BY DEF Unauthorized, backend
<1>4. CASE Listening
    <2>1. authUser' = None /\ alert' = TRUE /\ current' = 0 /\ Reset(None)
        BY <1>4 DEF Unauthorized
    <2>2. rows' = None /\ {loaded', listError', refreshing'} \subseteq BOOLEAN
        BY <2>1 DEF Reset
    <2>3. fetch = "settled" /\ connected
        BY <1>4, Apart DEF Listening, IInv, SessionInv
    <2>4. TypeOK'
        BY <1>2, <1>3, <2>1, <2>2 DEF IInv, TypeOK
    <2>5. SessionInv'
        BY <1>3, <1>4, <2>1, <2>3, Apart DEF IInv, SessionInv, Listening
    <2> QED BY <1>3, <2>1, <2>2, <2>3, <2>4, <2>5
            DEF IInv, CallInv, Budget, RowsAreOwn, WarnsOnlyExpired
<1>5. CASE ~Listening
    <2>1. UNCHANGED <<authUser, alert, current, rows, loaded, listError, refreshing>>
        BY <1>5 DEF Unauthorized
    <2>2. CallInv'
        <3>1. current # 0 => current \in Calls
            BY DEF IInv, TypeOK, Calls
        <3> QED BY <1>2, <1>3, <2>1, <3>1, Apart DEF IInv, CallInv
    <2> QED BY <1>2, <1>3, <2>1, <2>2
            DEF IInv, TypeOK, SessionInv, Budget, RowsAreOwn, WarnsOnlyExpired
<1> QED BY <1>4, <1>5

\* The answer to the GET at mount begins the first session, or none.
LEMMA FetchStep ==
    ASSUME IInv, FetchEnds
    PROVE  IInv'
<1>1. /\ fetch # "settled" /\ fetch' = "settled"
      /\ UNCHANGED <<stored, alive, elsewhere, connect, deletes, namespace, actions>>
    BY DEF FetchEnds, backend
<1>2. authUser = Unknown /\ runs < MaxActions + 1
    BY <1>1 DEF IInv, TypeOK, SessionInv, Budget
<1>3. PICK user \in Accounts \cup {None} :
          /\ SetAuthUser(user)
          /\ user \in Accounts =>
                 user = fetch /\ alert' = FALSE /\ connected' = TRUE
          /\ user \notin Accounts => UNCHANGED <<alert, connected>>
    <2>1. CASE fetch \in Accounts
        BY <2>1 DEF FetchEnds, Fetched, onLogin
    <2>2. CASE fetch \notin Accounts
        BY <2>2, Apart DEF FetchEnds, Fetched
    <2> QED BY <2>1, <2>2
<1>4. UNCHANGED <<elsewhere, namespace>>
    BY <1>1
<1>5. /\ authUser' = user
      /\ runs' \in 0..(MaxActions + 1) /\ current' \in 0..runs'
      /\ call' \in [Calls -> [ns: Namespaces, at: CallSteps]]
      /\ rows' \in RowsOf \cup {None}
      /\ {loaded', listError', refreshing'} \subseteq BOOLEAN
      /\ CallInv' /\ RowsAreOwn'
      /\ user \in Accounts => runs' <= runs + 1
      /\ user \notin Accounts => runs' = runs
    BY <1>2, <1>3, <1>4, UserStep DEF IInv
<1>6. alert' \in BOOLEAN /\ connected' \in BOOLEAN /\ WarnsOnlyExpired'
    <2>1. ~alert
        BY <1>2, Apart DEF IInv, WarnsOnlyExpired
    <2>2. ~alert'
        BY <1>3, <2>1
    <2>3. alert' \in BOOLEAN /\ connected' \in BOOLEAN
        BY <1>3 DEF IInv, TypeOK
    <2> QED BY <2>2, <2>3 DEF WarnsOnlyExpired
<1>7. TypeOK'
    BY <1>1, <1>5, <1>6 DEF IInv, TypeOK
<1>8. SessionInv'
    BY <1>1, <1>2, <1>3, <1>5, Apart DEF IInv, SessionInv
<1>9. Budget'
    <2>1. runs' <= runs + 1 /\ runs \in Nat /\ runs' \in Nat /\ actions \in Nat
        BY <1>5 DEF IInv, TypeOK
    <2>2. connect.at = "idle"
        BY <1>2, Apart DEF IInv, SessionInv
    <2> QED BY <1>1, <2>1, <2>2 DEF IInv, Budget
<1> QED BY <1>5, <1>6, <1>7, <1>8, <1>9 DEF IInv

\* The answer to a POST begins a session, or leaves the user without one.
LEMMA ConnectStep ==
    ASSUME IInv, ConnectEnds
    PROVE  IInv'
<1>1. /\ connect.at \in {"stored", "unauthorized", "failed"}
      /\ connect' = [connect EXCEPT !.at = "idle"]
      /\ UNCHANGED <<stored, alive, elsewhere, fetch, deletes, namespace, actions>>
    BY DEF ConnectEnds, backend
<1>2. /\ connect'.at = "idle" /\ connect.of \in Accounts
      /\ connect' \in [of: Accounts, at: {"idle", "sent", "stored", "failed", "unauthorized"}]
    BY <1>1 DEF IInv, TypeOK
<1>3. authUser = None /\ fetch = "settled" /\ ~Listening /\ runs < MaxActions + 1
    BY <1>1, Apart DEF IInv, TypeOK, SessionInv, Budget, Listening
<1>4. CASE connect.at = "stored" /\ onLogin(connect.of)
    <2>1. SetAuthUser(connect.of) /\ alert' = FALSE /\ connected' = TRUE
        BY <1>4 DEF onLogin
    <2>2. /\ authUser' = connect.of
          /\ runs' \in 0..(MaxActions + 1) /\ current' \in 0..runs'
          /\ call' \in [Calls -> [ns: Namespaces, at: CallSteps]]
          /\ rows' \in RowsOf \cup {None}
          /\ {loaded', listError', refreshing'} \subseteq BOOLEAN
          /\ CallInv' /\ RowsAreOwn'
          /\ runs' <= runs + 1
        BY <1>1, <1>2, <1>3, <2>1, UserStep DEF IInv
    <2>3. TypeOK'
        BY <1>1, <1>2, <2>1, <2>2 DEF IInv, TypeOK
    <2>4. SessionInv'
        BY <1>1, <1>2, <1>3, <1>4, <2>1, <2>2, Apart DEF IInv, SessionInv
    <2>5. Budget'
        BY <1>1, <1>2, <1>3, <2>2, <2>3 DEF IInv, TypeOK, Budget
    <2> QED BY <2>1, <2>2, <2>3, <2>4, <2>5 DEF IInv, WarnsOnlyExpired
<1>5. CASE connect.at # "stored" /\ UNCHANGED <<authUser, connected, list>>
           /\ alert' = (alert \/ (connect.at = "unauthorized" /\ Listening))
    <2>1. alert' = alert
          /\ UNCHANGED <<authUser, connected, call, runs, current, rows, loaded, listError,
                         refreshing>>
        BY <1>3, <1>5 DEF list, IInv, TypeOK
    <2>2. TypeOK'
        BY <1>1, <1>2, <2>1 DEF IInv, TypeOK
    <2>3. Budget'
        BY <1>1, <1>2, <1>3, <2>1, <2>2 DEF IInv, TypeOK, Budget
    <2>4. SessionInv'
        BY <1>1, <1>2, <1>3, <2>1, Apart DEF IInv, SessionInv
    <2> QED BY <1>1, <2>1, <2>2, <2>3, <2>4 DEF IInv, CallInv, RowsAreOwn, WarnsOnlyExpired
<1> QED BY <1>4, <1>5 DEF ConnectEnds

\* The answer to a DELETE ends the session there is.
LEMMA DeleteStep ==
    ASSUME IInv, DeleteEnds
    PROVE  IInv'
<1>1. /\ deletes.answered < deletes.done
      /\ deletes' = [deletes EXCEPT !.answered = @ + 1]
      /\ SetAuthUser(None)
      /\ alert' \in {alert, alert \/ Listening}
      /\ UNCHANGED <<stored, alive, elsewhere, fetch, connect, connected, namespace, actions>>
    BY DEF DeleteEnds, LoggedOut, backend
<1>2. /\ deletes' \in [clicked: 0..MaxDeletes, done: 0..MaxDeletes, answered: 0..MaxDeletes]
      /\ deletes'.answered <= deletes'.done /\ deletes'.done <= deletes'.clicked
      /\ deletes'.clicked = deletes.clicked /\ fetch = "settled"
    BY <1>1 DEF IInv, TypeOK, SessionInv
<1>3. /\ authUser' = None
      /\ runs' \in 0..(MaxActions + 1) /\ current' \in 0..runs'
      /\ call' \in [Calls -> [ns: Namespaces, at: CallSteps]]
      /\ rows' \in RowsOf \cup {None}
      /\ {loaded', listError', refreshing'} \subseteq BOOLEAN
      /\ CallInv' /\ RowsAreOwn'
      /\ runs' = runs
    BY <1>1, Apart, UserStep DEF IInv
<1>4. alert' \in BOOLEAN /\ (alert' => connected)
    <2>1. alert \in BOOLEAN /\ (alert => connected) /\ (Listening => connected)
        BY DEF IInv, TypeOK, SessionInv, WarnsOnlyExpired, Listening
    <2> QED BY <1>1, <2>1, Zenon
<1>7. TypeOK'
    BY <1>1, <1>2, <1>3, <1>4 DEF IInv, TypeOK
<1>5. SessionInv'
    BY <1>1, <1>2, <1>3, Apart DEF IInv, SessionInv
<1>6. Budget' /\ WarnsOnlyExpired'
    BY <1>1, <1>3, <1>4 DEF IInv, Budget, WarnsOnlyExpired
<1> QED BY <1>3, <1>5, <1>6, <1>7 DEF IInv

\* The store, the environment and the clicks leave the page as it is.
LEMMA OutsideStep ==
    ASSUME IInv,
           \/ ServeFetch \/ ServeConnect \/ ServeDelete
           \/ Connect \/ Disconnect
           \/ TokenDies \/ OtherTab
    PROVE  IInv'
<1>1. /\ UNCHANGED <<authUser, alert, connected, namespace, call, runs, current, rows, loaded,
                     listError, refreshing>>
      /\ elsewhere' = elsewhere \/ elsewhere' = TRUE
    BY DEF ServeFetch, ServeConnect, ServeDelete, Connect, Disconnect, TokenDies, OtherTab,
           session, list, backend
<1>2. CallInv' /\ RowsAreOwn' /\ WarnsOnlyExpired'
    BY <1>1 DEF IInv, CallInv, RowsAreOwn, WarnsOnlyExpired
<1>3. CASE ServeFetch
    <2>1. /\ fetch = "sent"
          /\ fetch' \in {"failed", IF stored = None THEN "missing" ELSE stored}
          /\ UNCHANGED <<stored, alive, elsewhere, connect, deletes, actions>>
        BY <1>3 DEF ServeFetch, backend
    <2>2. fetch' \in {"missing", "failed"} \cup Accounts /\ (fetch' \in Accounts => stored = fetch')
        BY <2>1, Apart DEF IInv, TypeOK
    <2>3. TypeOK'
        BY <1>1, <2>1, <2>2 DEF IInv, TypeOK
    <2>4. fetch # "settled" /\ fetch' # "settled"
        BY <2>1, <2>2, Apart
    <2>5. SessionInv'
        BY <1>1, <2>1, <2>2, <2>4, Apart DEF IInv, SessionInv
    <2> QED BY <1>1, <1>2, <2>1, <2>3, <2>4, <2>5 DEF IInv, Budget
<1>4. CASE ServeConnect
    <2>1. /\ connect.at = "sent"
          /\ UNCHANGED <<elsewhere, fetch, deletes, actions>>
          /\ stored' \in Accounts \cup {None} /\ alive' \in BOOLEAN
        BY <1>4 DEF ServeConnect, IInv, TypeOK
    <2>2. PICK at \in {"stored", "unauthorized", "failed"} :
              /\ connect' = [connect EXCEPT !.at = at]
              /\ at = "stored" => stored' = connect.of
        BY <1>4 DEF ServeConnect
    <2>3. connect'.at = at /\ connect'.of = connect.of
          /\ connect' \in [of: Accounts, at: {"idle", "sent", "stored", "failed", "unauthorized"}]
        BY <2>2 DEF IInv, TypeOK
    <2>4. TypeOK'
        BY <1>1, <2>1, <2>3 DEF IInv, TypeOK
    <2>5. authUser = None /\ fetch = "settled"
        BY <2>1, Apart DEF IInv, SessionInv
    <2>6. SessionInv'
        BY <1>1, <2>1, <2>2, <2>3, <2>5, Apart DEF IInv, SessionInv
    <2>7. Budget'
        BY <1>1, <2>1, <2>2, <2>3 DEF IInv, Budget
    <2> QED BY <1>2, <2>4, <2>6, <2>7 DEF IInv
<1>5. CASE ServeDelete
    <2>1. /\ deletes.done < deletes.clicked /\ deletes' = [deletes EXCEPT !.done = @ + 1]
          /\ stored' \in {None, stored}
          /\ UNCHANGED <<alive, elsewhere, fetch, connect, actions>>
        BY <1>5 DEF ServeDelete
    <2>2. /\ deletes' \in [clicked: 0..MaxDeletes, done: 0..MaxDeletes, answered: 0..MaxDeletes]
          /\ deletes'.answered <= deletes'.done /\ deletes'.done <= deletes'.clicked
          /\ deletes'.clicked = deletes.clicked /\ fetch = "settled"
        BY <2>1 DEF IInv, TypeOK, SessionInv
    <2>3. TypeOK'
        BY <1>1, <2>1, <2>2 DEF IInv, TypeOK
    <2>4. SessionInv'
        BY <1>1, <2>1, <2>2, Apart DEF IInv, SessionInv
    <2> QED BY <1>1, <1>2, <2>1, <2>3, <2>4 DEF IInv, Budget
<1>6. CASE Connect
    <2>1. /\ authUser = None /\ connect.at = "idle"
          /\ actions < MaxActions /\ actions' = actions + 1
          /\ connect' \in [of: Accounts, at: {"sent"}]
          /\ UNCHANGED <<stored, alive, elsewhere, fetch, deletes>>
        BY <1>6 DEF Connect, backend
    <2>2. TypeOK'
        BY <1>1, <2>1 DEF IInv, TypeOK
    <2>3. connect'.at = "sent"
        BY <2>1
    <2>4. SessionInv'
        BY <1>1, <2>1, <2>3 DEF IInv, SessionInv
    <2>5. Budget'
        BY <1>1, <2>1, <2>2, <2>3 DEF IInv, TypeOK, Budget
    <2> QED BY <1>2, <2>2, <2>4, <2>5 DEF IInv
<1>7. CASE Disconnect
    <2>1. /\ authUser \in Accounts
          /\ deletes.clicked < MaxDeletes /\ deletes' = [deletes EXCEPT !.clicked = @ + 1]
          /\ UNCHANGED <<stored, alive, elsewhere, fetch, connect, actions>>
        BY <1>7 DEF Disconnect, backend
    <2>2. /\ deletes' \in [clicked: 0..MaxDeletes, done: 0..MaxDeletes, answered: 0..MaxDeletes]
          /\ deletes'.answered <= deletes'.done /\ deletes'.done <= deletes'.clicked
        BY <2>1 DEF IInv, TypeOK
    <2>3. fetch = "settled"
        BY <2>1, Apart DEF IInv, SessionInv
    <2>4. TypeOK'
        BY <1>1, <2>1, <2>2 DEF IInv, TypeOK
    <2>5. SessionInv'
        BY <1>1, <2>1, <2>3 DEF IInv, SessionInv
    <2> QED BY <1>1, <1>2, <2>1, <2>4, <2>5 DEF IInv, Budget
<1>8. CASE TokenDies
    <2>1. alive' = FALSE /\ UNCHANGED <<stored, elsewhere, fetch, connect, deletes, actions>>
        BY <1>8 DEF TokenDies, session
    <2>2. elsewhere' = elsewhere
        BY <1>8 DEF TokenDies
    <2>3. TypeOK'
        BY ZenonT(30), <1>1, <2>1, <2>2 DEF IInv, TypeOK
    <2>4. SessionInv' /\ Budget'
        BY <1>1, <2>1, <2>2 DEF IInv, SessionInv, Budget
    <2> QED BY <1>2, <2>3, <2>4 DEF IInv
<1>9. CASE OtherTab
    <2>1. /\ stored' \in Accounts \cup {None} /\ elsewhere' = TRUE /\ alive' = TRUE
          /\ UNCHANGED <<fetch, connect, deletes, actions>>
        BY <1>9 DEF OtherTab, session
    <2>2. TypeOK'
        BY <1>1, <2>1 DEF IInv, TypeOK
    <2>3. SessionInv' /\ Budget'
        BY <1>1, <2>1 DEF IInv, SessionInv, Budget
    <2> QED BY <1>2, <2>2, <2>3 DEF IInv
<1> QED BY <1>3, <1>4, <1>5, <1>6, <1>7, <1>8, <1>9

\* Every step keeps the invariant.
LEMMA Stepwise == IInv /\ [Next]_vars => IInv'
<1> SUFFICES ASSUME IInv, [Next]_vars PROVE IInv'
    OBVIOUS
<1>1. CASE UNCHANGED vars
    BY <1>1 DEF vars, backend, session, list, IInv, TypeOK, SessionInv, CallInv, Budget,
                RowsAreOwn, WarnsOnlyExpired
<1>2. CASE Serve
    BY <1>2, OutsideStep, ServeListStep DEF Serve
<1>3. CASE Answer
    BY <1>3, FetchStep, ConnectStep, DeleteStep, ListAnswered, UnauthorizedStep DEF Answer
<1>4. CASE Connect \/ Disconnect \/ TokenDies \/ OtherTab
    BY <1>4, OutsideStep
<1>5. CASE SwitchNamespace \/ Refresh
    BY <1>5, ActionStep
<1> QED BY <1>1, <1>2, <1>3, <1>4, <1>5 DEF Next

-----------------------------------------------------------------------------
(***************************************************************************)
(* Theorems                                                                *)
(***************************************************************************)

\* The variables keep their types; the calls stay within their bound, because every
\* session but the first and every listing anew is an action of the user.
THEOREM TypeCorrect == Spec => []TypeOK
<1>1. Init => IInv
    BY Initially
<1>2. IInv /\ [Next]_vars => IInv'
    BY Stepwise
<1>3. IInv => TypeOK
    BY DEF IInv
<1> QED BY <1>1, <1>2, <1>3, PTL DEF Spec

\* The functions shown are of the namespace selected and, unless another tab changed
\* the account, of the account connected.
THEOREM OwnRows == Spec => []RowsAreOwn
<1>1. Init => IInv
    BY Initially
<1>2. IInv /\ [Next]_vars => IInv'
    BY Stepwise
<1>3. IInv => RowsAreOwn
    BY DEF IInv
<1> QED BY <1>1, <1>2, <1>3, PTL DEF Spec

\* The warning of an expiry shows only to a user who was connected and is not now.
THEOREM OnlyExpiredWarned == Spec => []WarnsOnlyExpired
<1>1. Init => IInv
    BY Initially
<1>2. IInv /\ [Next]_vars => IInv'
    BY Stepwise
<1>3. IInv => WarnsOnlyExpired
    BY DEF IInv
<1> QED BY <1>1, <1>2, <1>3, PTL DEF Spec

HIDE FunctionsPageAssumption


-----------------------------------------------------------------------------
(***************************************************************************)
(* The rows: what useFunctions derives                                     *)
(***************************************************************************)

LEMMA ItemsTyped ==
    ASSUME RowsTypeOK
    PROVE  items \in Seq(Item) /\ \A i \in 1..Len(items) : items[i] \in Item
<1>1. items \in Seq(Item)
    <2>1. <<>> \in Seq(Item)
        OBVIOUS
    <2> QED BY <2>1, FunctionRowsAssumption DEF RowsTypeOK
<1> QED BY <1>1

\* A repository has one item.
LEMMA OneOfRepo ==
    ASSUME RowsTypeOK, NEW i \in 1..Len(items), NEW j \in 1..Len(items),
           items[i].repo = items[j].repo, items[i].repo \in Repos
    PROVE  i = j
<1>1. items # <<>>
    OBVIOUS
<1>2. items \in Listings
    BY <1>1 DEF RowsTypeOK
<1> QED BY <1>2, FunctionRowsAssumption

\* Marked keys are no functions, and each one names one repository.
LEMMA MarkedKeys ==
    ASSUME NEW a \in Item, a.broken
    PROVE  /\ FunctionKey(a) \notin Fns
           /\ a.repo \in Repos
           /\ \A b \in Item : FunctionKey(b) = FunctionKey(a) => b.broken /\ b.repo = a.repo
<1>1. a.repo \in Repos /\ FunctionKey(a) = <<"~", a.repo[1], a.repo[2]>>
    BY DEF Item, FunctionKey
<1>2. FunctionKey(a) \notin Fns
    <2>1. SUFFICES ASSUME FunctionKey(a) \in Fns PROVE FALSE
        OBVIOUS
    <2>2. PICK u, v : FunctionKey(a) = <<u, v>>
        BY <2>1 DEF Fns
    <2>3. Len(FunctionKey(a)) = 3
        BY <1>1
    <2>4. Len(FunctionKey(a)) = 2
        BY <2>2
    <2> QED BY <2>3, <2>4
<1>3. ASSUME NEW b \in Item, FunctionKey(b) = FunctionKey(a)
      PROVE  b.broken /\ b.repo = a.repo
    <2>1. b.broken
        <3>1. ~b.broken => FunctionKey(b) \in Fns
            BY DEF Item, FunctionKey
        <3> QED BY <1>1, <1>2, <1>3, <3>1
    <2>2. b.repo \in Repos /\ FunctionKey(b) = <<"~", b.repo[1], b.repo[2]>>
        BY <2>1 DEF Item, FunctionKey
    <2>3. a.repo[1] = b.repo[1] /\ a.repo[2] = b.repo[2]
        BY <1>1, <1>3, <2>2
    <2>4. a.repo = <<a.repo[1], a.repo[2]>> /\ b.repo = <<b.repo[1], b.repo[2]>>
        BY <1>1, <2>2, FunctionRowsAssumption
    <2> QED BY <2>1, <2>2, <2>3, <2>4
<1> QED BY <1>1, <1>2, <1>3

\* Indices of a list have a last one.
LEMMA LastIndex ==
    ASSUME NEW n \in Nat, NEW S \in SUBSET (1..n), S # {}
    PROVE  \E i \in S : \A j \in S : j <= i
<1> DEFINE D == {n - i : i \in S}
<1>1. D \subseteq Nat /\ D # {}
    BY FunctionRowsAssumption
<1>2. PICK x \in D : \A y \in D : <<y, x>> \notin OpToRel(<, Nat)
    <2> HIDE DEF D
    <2> QED BY <1>1, NatLessThanWellFounded, WFMin, Zenon
<1>3. \A y \in D : x <= y
    <2> HIDE DEF D
    <2>1. \A y \in Nat : y < x => <<y, x>> \in OpToRel(<, Nat)
        BY <1>1, Zenon DEF OpToRel
    <2>2. \A y \in D : ~(y < x)
        BY <1>1, <1>2, <2>1, Zenon
    <2> QED BY <1>1, <2>2
<1>4. PICK i \in S : x = n - i
    OBVIOUS
<1>5. \A j \in S : n - i <= n - j
    BY <1>3, <1>4
<1>6. \A j \in S : j \in Nat
    OBVIOUS
<1> QED BY <1>4, <1>5, <1>6

\* Of the items with the key of an item, the last one makes the row.
LEMMA ItemOfKey ==
    ASSUME RowsTypeOK, NEW i \in 1..Len(items)
    PROVE  \E m \in 1..Len(items) :
               /\ i <= m /\ FunctionKey(items[m]) = FunctionKey(items[i])
               /\ ItemOf(FunctionKey(items[i])) = items[m]
<1> DEFINE key == FunctionKey(items[i])
           at == {j \in 1..Len(items) : FunctionKey(items[j]) = key}
<1>1. Len(items) \in Nat
    BY ItemsTyped
<1>2. i \in at /\ at \in SUBSET (1..Len(items))
    OBVIOUS
<1>3. \E m \in at : \A j \in at : j <= m
    BY <1>1, <1>2, LastIndex
<1> DEFINE m == CHOOSE k \in at : \A j \in at : j <= k
<1>4. m \in at /\ \A j \in at : j <= m
    BY <1>3
<1>5. ItemOf(key) = items[m]
    BY DEF ItemOf
<1> HIDE DEF m
<1> QED BY <1>2, <1>4, <1>5

\* The row of an item, and that only services have a cluster status.
LEMMA RowOfItem ==
    ASSUME RowsTypeOK, NEW i \in 1..Len(items)
    PROVE  LET key == FunctionKey(items[i]) IN
           /\ key \in DOMAIN Rows
           /\ Rows[key].repo = ItemOf(key).repo /\ Rows[key].error = ItemOf(key).error
           /\ key \notin DOMAIN knSvcs => Rows[key].cluster = "NotDeployed"
<1> DEFINE key == FunctionKey(items[i])
           Row0 == [repo |-> ItemOf(key).repo, error |-> ItemOf(key).error,
                    cluster |-> "NotDeployed", run |-> "None"]
<1>1. key \in DOMAIN InitialFunctions /\ InitialFunctions[key] = Row0
    BY DEF InitialFunctions
<1>2. ItemOf(key).error \in BOOLEAN
    <2>1. PICK m \in 1..Len(items) : ItemOf(key) = items[m]
        BY ItemOfKey
    <2>2. items[m] \in Item
        BY ItemsTyped
    <2> QED BY <2>1, <2>2 DEF Item
<1> DEFINE W == WithClusterData(InitialFunctions)
<1>3. /\ key \in DOMAIN W
      /\ W[key].repo = Row0.repo /\ W[key].error = (TRUE /\ Row0.error)
      /\ key \notin DOMAIN knSvcs => W[key].cluster = Row0.cluster
    <2> HIDE DEF key, Row0
    <2> QED BY <1>1 DEF WithClusterData
<1>4. /\ key \in DOMAIN W
      /\ W[key].repo = ItemOf(key).repo /\ W[key].error = ItemOf(key).error
      /\ key \notin DOMAIN knSvcs => W[key].cluster = "NotDeployed"
    BY <1>2, <1>3
<1> HIDE DEF key, W
<1>5. Rows = WithWorkflowRunData(W)
    BY DEF Rows, W
<1> QED BY <1>4, <1>5 DEF WithWorkflowRunData, key

\* Whatever the views hold, a row's status is one of the six.
LEMMA RowsTyped == \A key \in DOMAIN Rows : Rows[key].cluster \in Statuses
<1>1. \A service, found : DeriveClusterStatus(service, found) \in Statuses
    BY DEF DeriveClusterStatus, Statuses
<1> DEFINE I == InitialFunctions
           W == WithClusterData(I)
<1>2. \A key \in DOMAIN I : I[key].cluster \in Statuses
    BY DEF InitialFunctions, Statuses
<1>3. \A key \in DOMAIN W : W[key].cluster \in Statuses
    <2> HIDE DEF I
    <2> QED BY <1>1, <1>2 DEF WithClusterData
<1>4. \A key \in DOMAIN W : W[key].repo = NoRepo \/ DOMAIN W[key] = {"repo", "error", "cluster", "run"}
    <2> HIDE DEF I
    <2> QED BY DEF WithClusterData
<1>5. Rows = WithWorkflowRunData(W)
    BY DEF Rows
<1> HIDE DEF W
<1> QED BY <1>3, <1>4, <1>5 DEF WithWorkflowRunData

\* What a row says "scaled to zero" of.
LEMMA RowScaledToZero ==
    ASSUME NEW key \in DOMAIN Rows, Rows[key].cluster = "ScaledToZero",
           RowsTypeOK
    PROVE  /\ key \in DOMAIN knSvcs /\ knSvcs[key].ready = "True"
           /\ \E d \in deps : /\ d.fn = key /\ ~d.up
                              /\ knSvcs[key].latest > 0 =>
                                     RevisionName(d.rev, d.born) =
                                         RevisionName(knSvcs[key].latest, knSvcs[key].born)
<1> DEFINE I == InitialFunctions
           W == WithClusterData(I)
           found == Matching(key, knSvcs[key], IF depLoaded THEN deps ELSE {})
<1>1. \A k \in DOMAIN I : I[k].cluster = "NotDeployed"
    BY DEF InitialFunctions
<1>2. key \in DOMAIN W /\ W[key].cluster = "ScaledToZero"
    <2>1. Rows = WithWorkflowRunData(W)
        BY DEF Rows
    <2>2. \A k \in DOMAIN W : DOMAIN W[k] = {"repo", "error", "cluster", "run"}
        <3> HIDE DEF I
        <3> QED BY DEF WithClusterData
    <2> HIDE DEF W
    <2> QED BY <2>1, <2>2 DEF WithWorkflowRunData
<1>3. key \in DOMAIN knSvcs /\ DeriveClusterStatus(knSvcs[key], found) = "ScaledToZero"
    <2> HIDE DEF I
    <2> QED BY <1>1, <1>2 DEF WithClusterData
<1>4. knSvcs[key] \in Service
    BY <1>3 DEF RowsTypeOK
<1> HIDE DEF found
<1>5. knSvcs[key].ready = "True" /\ found # {} /\ \A d \in found : ~d.up
    BY <1>3, <1>4 DEF DeriveClusterStatus, Service
<1> QED BY <1>3, <1>5 DEF found, Matching

-----------------------------------------------------------------------------
(***************************************************************************)
(* The invariant of the views                                              *)
(***************************************************************************)

\* A ready service serves the revision created last.
ServiceInv(service) ==
    service.ready = "True" => service.latest = service.created /\ service.created >= 1

\* The views lag behind: they know no revision that is not there yet.
VersionInv ==
    /\ \A fn \in Fns :
           ServiceInv(services[fn]) /\ (services[fn].exists => services[fn].created >= 1)
    /\ \A fn \in DOMAIN knSvcs :
           ServiceInv(knSvcs[fn]) /\ knSvcs[fn].created <= services[fn].created
    /\ \A d \in deployments \cup deps : d.rev <= services[d.fn].created

\* The page takes the newest revision of fn for ready.
SeenReady(fn) ==
    fn \in DOMAIN knSvcs /\ knSvcs[fn].created = services[fn].created
        /\ knSvcs[fn].ready = "True"

\* A rollout of fn is not under way: if its outcome is open, fn was deleted since.
NotRolling(fn) == services[fn].ready = "Unknown" => ~services[fn].exists

\* A revision that was seen ready has not failed, and is only deleted since.
ReadyInv == \A fn \in Fns : SeenReady(fn) => services[fn].ready # "False" /\ NotRolling(fn)

\* The newest revision is at zero only after it was idle while it served, or if it
\* failed before the page saw it ready, and the rollout that failed is over.
IdleInv ==
    \A d \in deployments \cup deps :
        ~d.up /\ d.rev = services[d.fn].created =>
            \/ <<d.fn, d.rev>> \in rested
            \/ services[d.fn].ready # "True" /\ ~SeenReady(d.fn) /\ NotRolling(d.fn)

RowsInv == RowsTypeOK /\ VersionInv /\ ReadyInv /\ IdleInv

-----------------------------------------------------------------------------
(***************************************************************************)
(* Its steps                                                               *)
(***************************************************************************)

\* The watches change with the names listed, and with nothing else of the list.
LEMMA SameWatched ==
    ASSUME FunctionNames(items') = FunctionNames(items)
    PROVE  Watched' = Watched
BY DEF Watched

\* What an operation on the cluster leaves alone.
LEMMA ClusterOnly ==
    ASSUME RowsInv, ClusterChanges,
           services' \in [Fns -> Service], deployments' \subseteq Deployment,
           VersionInv', ReadyInv', IdleInv'
    PROVE  RowsInv'
<1>1. /\ UNCHANGED <<page, views, workflowRuns, builds, lists>>
      /\ events' \in 0..MaxEvents
    BY FunctionRowsAssumption DEF ClusterChanges, RowsInv, RowsTypeOK
<1>2. Watched' = Watched
    BY <1>1, SameWatched DEF page
<1>3. (\A key \in DOMAIN Rows : Rows[key].cluster \in Statuses)'
    BY RowsTyped, PTL
<1>4. RowsTypeOK'
    BY <1>1, <1>2, <1>3 DEF RowsInv, RowsTypeOK, page, views, builds
<1> QED BY <1>4 DEF RowsInv

LEMMA RowsStart ==
    ASSUME RowsInit
    PROVE  RowsInv
<1>1. PICK deployed \in SUBSET Fns, idle \in SUBSET Fns, ending \in SUBSET Fns :
          /\ services = [fn \in Fns |-> Serving(fn \in deployed, fn \in ending)]
          /\ deployments = {[fn |-> fn, rev |-> 1, born |-> 0, up |-> fn \notin idle] : fn \in deployed}
          /\ rested = idle \X {1}
    <2>1. PICK deployed \in SUBSET Fns : \E idle \in SUBSET deployed, ending \in SUBSET deployed :
              /\ services = [fn \in Fns |-> Serving(fn \in deployed, fn \in ending)]
              /\ deployments = {[fn |-> fn, rev |-> 1, born |-> 0, up |-> fn \notin idle] : fn \in deployed}
              /\ rested = idle \X {1}
        BY DEF RowsInit
    <2> QED BY <2>1
<1>2. \A fn \in Fns :
          /\ services[fn] \in Service
          /\ ServiceInv(services[fn]) /\ (services[fn].exists => services[fn].created >= 1)
          /\ fn \in deployed => services[fn].created = 1
    <2>1. ASSUME NEW fn \in Fns
          PROVE  /\ services[fn] \in Service
                 /\ ServiceInv(services[fn]) /\ (services[fn].exists => services[fn].created >= 1)
                 /\ fn \in deployed => services[fn].created = 1
        <3>1. services[fn] = Serving(fn \in deployed, fn \in ending)
            BY <1>1
        <3>2. CASE fn \in deployed
            <4>1. services[fn] = [exists |-> TRUE, deleting |-> fn \in ending, ready |-> "True",
                                  created |-> 1, latest |-> 1, born |-> 0]
                BY <3>1, <3>2 DEF Serving
            <4> QED BY <4>1, FunctionRowsAssumption DEF Service, ServiceInv
        <3>3. CASE fn \notin deployed
            <4>1. services[fn] = [exists |-> FALSE, deleting |-> fn \in ending, ready |-> "Unknown",
                                  created |-> 0, latest |-> 0, born |-> 0]
                BY <3>1, <3>3 DEF Serving
            <4> QED BY <3>3, <4>1, FunctionRowsAssumption DEF Service, ServiceInv
        <3> QED BY <3>2, <3>3
    <2> QED BY <2>1
<1>3. services \in [Fns -> Service]
    BY <1>1, <1>2
<1>4. \A d \in deployments :
          d \in Deployment /\ d.fn \in deployed /\ d.rev = 1 /\ (~d.up => <<d.fn, d.rev>> \in rested)
    <2>1. ASSUME NEW d \in deployments
          PROVE  d \in Deployment /\ d.fn \in deployed /\ d.rev = 1
                 /\ (~d.up => <<d.fn, d.rev>> \in rested)
        <3>1. PICK fn \in deployed : d = [fn |-> fn, rev |-> 1, born |-> 0, up |-> fn \notin idle]
            BY <1>1
        <3>2. 1 \in 1..MaxRevision /\ 0 \in 0..MaxRevision
            BY FunctionRowsAssumption
        <3>3. d.fn = fn /\ d.rev = 1 /\ d.up = (fn \notin idle)
            BY <3>1
        <3>4. d \in Deployment
            BY <3>1, <3>2 DEF Deployment
        <3>5. ~d.up => <<d.fn, d.rev>> \in rested
            BY <1>1, <3>3
        <3> QED BY <3>3, <3>4, <3>5
    <2> QED BY <2>1
<1>5. DOMAIN knSvcs = {} /\ deps = {}
    BY DEF RowsInit
<1>6. \A key \in DOMAIN Rows : Rows[key].cluster \in Statuses
    BY RowsTyped
<1>7. RowsTypeOK
    <2>1. /\ namespace \in Namespaces \cup {AllNamespaces} /\ items \in Listings \cup {<<>>}
          /\ knLoaded \in BOOLEAN /\ depLoaded \in BOOLEAN
          /\ workflowRuns \in [Repos -> Runs] /\ repoRuns \in [Repos -> Runs]
        BY FunctionRowsAssumption DEF RowsInit
    <2>2. events \in 0..MaxEvents /\ lists \in 0..MaxLists /\ runChanges \in 0..MaxRuns
        BY FunctionRowsAssumption DEF RowsInit
    <2> QED BY <1>3, <1>4, <1>5, <1>6, <2>1, <2>2 DEF RowsTypeOK
<1>8. VersionInv
    <2>1. \A d \in deployments \cup deps : d.fn \in Fns /\ d.rev = 1 /\ services[d.fn].created = 1
        BY <1>2, <1>4, <1>5
    <2> QED BY <1>2, <1>5, <2>1 DEF VersionInv
<1>9. ReadyInv /\ IdleInv
    BY <1>4, <1>5 DEF ReadyInv, IdleInv, SeenReady
<1> QED BY <1>7, <1>8, <1>9 DEF RowsInv

\* Steps of the page: the views are emptied, kept, or brought up to date.
LEMMA ViewStep ==
    ASSUME RowsInv,
           UNCHANGED <<services, deployments, rested>>,
           namespace' \in Namespaces \cup {AllNamespaces},
           items' \in Listings \cup {<<>>},
           knLoaded' \in BOOLEAN, depLoaded' \in BOOLEAN,
           workflowRuns' \in [Repos -> Runs], repoRuns' \in [Repos -> Runs],
           events' \in 0..MaxEvents, lists' \in 0..MaxLists, runChanges' \in 0..MaxRuns,
           \A fn \in DOMAIN knSvcs' :
               /\ fn \in Fns /\ namespace' \in {AllNamespaces, fn[1]} /\ fn[2] \in Watched'
               /\ \/ knSvcs'[fn] = services[fn]
                  \/ fn \in DOMAIN knSvcs /\ knSvcs'[fn] = knSvcs[fn],
           deps' \subseteq deployments \cup deps
    PROVE  RowsInv'
<1>1. (\A key \in DOMAIN Rows : Rows[key].cluster \in Statuses)'
    BY RowsTyped, PTL
<1>2. RowsTypeOK'
    BY <1>1 DEF RowsInv, RowsTypeOK
<1>3. VersionInv'
    <2>1. /\ services \in [Fns -> Service] /\ VersionInv
          /\ \A fn \in DOMAIN knSvcs : fn \in Fns /\ knSvcs[fn] \in Service
        BY DEF RowsInv, RowsTypeOK
    <2>2. \A fn \in Fns : services[fn] \in Service
        BY <2>1
    <2>3. \A fn \in DOMAIN knSvcs' :
              ServiceInv(knSvcs'[fn]) /\ knSvcs'[fn].created <= services[fn].created
        BY <2>1, <2>2 DEF VersionInv, Service
    <2>4. \A d \in deployments' \cup deps' : d.rev <= services'[d.fn].created
        BY <2>1 DEF VersionInv
    <2>5. \A fn \in Fns : /\ ServiceInv(services'[fn])
                          /\ services'[fn].exists => services'[fn].created >= 1
        BY <2>1 DEF VersionInv
    <2> QED BY <2>3, <2>4, <2>5 DEF VersionInv, ServiceInv
<1>4. ASSUME NEW fn \in Fns, SeenReady(fn)'
      PROVE  SeenReady(fn) \/ services[fn].ready = "True"
    BY <1>4 DEF SeenReady
<1>5. ReadyInv'
    BY <1>4 DEF RowsInv, ReadyInv, NotRolling
<1>6. IdleInv'
    BY SMTT(30), <1>4 DEF RowsInv, IdleInv, NotRolling, RowsTypeOK, Deployment
<1> QED BY <1>2, <1>3, <1>5, <1>6 DEF RowsInv

\* Answers, watches and runs that arrive, and switches of the namespace.
LEMMA PageStep ==
    ASSUME RowsInv,
           \/ \E answer \in Listings : ItemsArrive(answer)
           \/ \E ns \in Namespaces \cup {AllNamespaces} : ChangeNamespace(ns)
           \/ KnSvcsArrive \/ DepsArrive \/ RunsArrive
           \/ \E r \in Repos, run \in Runs : RunChanges(r, run)
    PROVE  RowsInv'
<1>1. /\ RowsTypeOK /\ services \in [Fns -> Service]
      /\ lists \in 0..MaxLists /\ runChanges \in 0..MaxRuns
      /\ repoRuns \in [Repos -> Runs]
    BY DEF RowsInv, RowsTypeOK
<1>2. ASSUME NEW answer \in Listings, ItemsArrive(answer)
      PROVE  RowsInv'
    <2>1. /\ items' = answer /\ lists < MaxLists /\ lists' = lists + 1
          /\ UNCHANGED <<namespace, workflowRuns, cluster, builds>>
          /\ \/ FunctionNames(items') = FunctionNames(items) /\ UNCHANGED views
             \/ NewWatches
        BY <1>2 DEF ItemsArrive
    <2>2. CASE FunctionNames(items') = FunctionNames(items) /\ UNCHANGED views
        <3>1. Watched' = Watched
            BY <2>2, SameWatched
        <3> QED BY <1>1, <2>1, <2>2, <3>1, ViewStep, FunctionRowsAssumption
                DEF RowsTypeOK, views, cluster, builds
    <2>3. CASE NewWatches
        <3>1. DOMAIN knSvcs' = {} /\ deps' = {} /\ knLoaded' = FALSE /\ depLoaded' = FALSE
            BY <2>3 DEF NewWatches
        <3>2. lists' \in 0..MaxLists /\ deps' \subseteq deployments \cup deps
            BY <1>1, <2>1, <3>1, FunctionRowsAssumption
        <3>3. /\ knLoaded' \in BOOLEAN /\ depLoaded' \in BOOLEAN
              /\ items' \in Listings \cup {<<>>}
            BY <2>1, <3>1
        <3>4. /\ namespace' \in Namespaces \cup {AllNamespaces} /\ events' \in 0..MaxEvents
              /\ workflowRuns' \in [Repos -> Runs] /\ repoRuns' \in [Repos -> Runs]
              /\ runChanges' \in 0..MaxRuns /\ UNCHANGED <<services, deployments, rested>>
            BY <1>1, <2>1 DEF RowsTypeOK, cluster, builds
        <3> QED BY <3>1, <3>2, <3>3, <3>4, ViewStep
    <2> QED BY <2>1, <2>2, <2>3
<1>3. ASSUME NEW ns \in Namespaces \cup {AllNamespaces}, ChangeNamespace(ns)
      PROVE  RowsInv'
    <2>1. DOMAIN knSvcs' = {} /\ deps' = {} /\ knLoaded' = FALSE /\ depLoaded' = FALSE
        BY <1>3 DEF ChangeNamespace, NewWatches
    <2>2. /\ lists' \in 0..MaxLists /\ deps' \subseteq deployments \cup deps
          /\ items' \in Listings \cup {<<>>} /\ namespace' \in Namespaces \cup {AllNamespaces}
        BY <1>1, <1>3, <2>1, FunctionRowsAssumption DEF ChangeNamespace
    <2>3. knLoaded' \in BOOLEAN /\ depLoaded' \in BOOLEAN
        BY <2>1
    <2>4. /\ events' \in 0..MaxEvents /\ UNCHANGED <<services, deployments, rested>>
          /\ workflowRuns' \in [Repos -> Runs] /\ repoRuns' \in [Repos -> Runs]
          /\ runChanges' \in 0..MaxRuns
        BY <1>1, <1>3 DEF ChangeNamespace, RowsTypeOK, cluster, builds
    <2> QED BY <2>1, <2>2, <2>3, <2>4, ViewStep
<1>4. CASE KnSvcsArrive \/ DepsArrive
    <2>1. UNCHANGED <<page, workflowRuns, cluster, builds, lists>>
        BY <1>4 DEF KnSvcsArrive, DepsArrive
    <2>2. Watched' = Watched
        BY <2>1, SameWatched DEF page
    <2>3. CASE KnSvcsArrive
        <3>1. /\ knSvcs' = [fn \in {f \in Fns : Selected(f) /\ services[f].exists} |-> services[fn]]
              /\ knLoaded' = TRUE /\ UNCHANGED <<deps, depLoaded>>
            BY <2>3 DEF KnSvcsArrive
        <3>2. \A fn \in DOMAIN knSvcs' : fn \in Fns /\ Selected(fn) /\ knSvcs'[fn] = services[fn]
            BY <3>1
        <3> QED BY <1>1, <2>1, <2>2, <3>1, <3>2, ViewStep
                DEF RowsTypeOK, Selected, page, cluster, builds
    <2>4. CASE DepsArrive
        <3>1. deps' \subseteq deployments /\ depLoaded' = TRUE /\ UNCHANGED <<knSvcs, knLoaded>>
            BY <2>4 DEF DepsArrive
        <3> QED BY <1>1, <2>1, <2>2, <3>1, ViewStep DEF RowsTypeOK, page, cluster, builds
    <2> QED BY <1>4, <2>3, <2>4
<1>5. CASE RunsArrive \/ \E r \in Repos, run \in Runs : RunChanges(r, run)
    <2>1. /\ UNCHANGED <<page, views, cluster, lists>>
          /\ workflowRuns' \in [Repos -> Runs] /\ repoRuns' \in [Repos -> Runs]
          /\ runChanges' \in 0..MaxRuns
        <3>1. CASE RunsArrive
            BY <1>1, <3>1 DEF RunsArrive, RowsTypeOK, builds
        <3>2. ASSUME NEW r \in Repos, NEW run \in Runs, RunChanges(r, run) PROVE <2>1!:
            <4>1. /\ UNCHANGED <<page, views, cluster, lists>> /\ workflowRuns' = workflowRuns
                  /\ repoRuns' = [repoRuns EXCEPT ![r] = run]
                  /\ runChanges < MaxRuns /\ runChanges' = runChanges + 1
                BY <3>2 DEF RunChanges, builds
            <4> QED BY <1>1, <4>1, FunctionRowsAssumption DEF RowsTypeOK
        <3> QED BY <1>5, <3>1, <3>2
    <2>2. Watched' = Watched
        BY <2>1, SameWatched DEF page
    <2> QED BY <1>1, <2>1, <2>2, ViewStep DEF RowsTypeOK, page, views, cluster
<1> QED BY <1>2, <1>3, <1>4, <1>5

\* How the service fn may go on without a new revision: one that was seen ready does not
\* fail, one that is done is not rolled out again, and only a rollout ends in "ready".
Outcome(fn, new) ==
    new.created = services[fn].created =>
        /\ SeenReady(fn) => new.ready # "False"
        /\ new.ready = "Unknown" =>
               services[fn].ready = "Unknown" /\ (new.exists => services[fn].exists)
        /\ new.ready = "True" => services[fn].ready = "True" \/ ~NotRolling(fn)

\* A step of the service fn alone: what has to be seen of it.
LEMMA ServiceStep ==
    ASSUME RowsInv, ClusterChanges, NEW fn \in Fns, NEW new \in Service,
           services' = [services EXCEPT ![fn] = new],
           UNCHANGED <<deployments, rested>>,
           new.created >= services[fn].created,
           ServiceInv(new), new.exists => new.created >= 1,
           Outcome(fn, new)
    PROVE  RowsInv'
<1>1. /\ services' \in [Fns -> Service] /\ services'[fn] = new
      /\ \A g \in Fns : g # fn => services'[g] = services[g]
      /\ UNCHANGED <<knSvcs, deps>>
    BY DEF RowsInv, RowsTypeOK, ClusterChanges, views
<1>2. /\ services \in [Fns -> Service] /\ \A g \in DOMAIN knSvcs : g \in Fns /\ knSvcs[g] \in Service
      /\ \A d \in deployments \cup deps : d.fn \in Fns /\ d.rev \in Nat
    BY DEF RowsInv, RowsTypeOK, Deployment
<1>3. \A g \in Fns : services[g].created \in Nat /\ services'[g].created \in Nat
                     /\ services[g].created <= services'[g].created
    BY <1>1, <1>2 DEF Service
<1>4. VersionInv'
    <2>1. \A g \in Fns : ServiceInv(services'[g]) /\ (services'[g].exists => services'[g].created >= 1)
        BY <1>1 DEF RowsInv, VersionInv
    <2>2. \A g \in DOMAIN knSvcs : ServiceInv(knSvcs[g]) /\ knSvcs[g].created <= services'[g].created
        BY <1>2, <1>3 DEF RowsInv, VersionInv, Service
    <2>3. \A d \in deployments \cup deps : d.rev <= services'[d.fn].created
        BY <1>2, <1>3 DEF RowsInv, VersionInv
    <2> QED BY <1>1, <2>1, <2>2, <2>3 DEF VersionInv, ServiceInv
<1>5. ASSUME NEW g \in Fns
      PROVE  /\ SeenReady(g)' => SeenReady(g)
             /\ g # fn => NotRolling(g)' = NotRolling(g) /\ (SeenReady(g)' = SeenReady(g))
    <2>1. g \in DOMAIN knSvcs => knSvcs[g].created <= services[g].created /\ knSvcs[g].created \in Nat
        BY <1>2 DEF RowsInv, VersionInv, Service
    <2> QED BY <1>1, <1>3, <2>1 DEF SeenReady, NotRolling
<1>6. ASSUME SeenReady(fn)'
      PROVE  new.created = services[fn].created
    BY <1>1, <1>2, <1>3, <1>6, FunctionRowsAssumption DEF SeenReady, RowsInv, VersionInv, Service
<1>7. ReadyInv'
    BY <1>1, <1>5, <1>6 DEF RowsInv, ReadyInv, NotRolling, Outcome
<1>8. ASSUME NEW d \in deployments \cup deps, ~d.up, d.rev = services'[d.fn].created,
             <<d.fn, d.rev>> \notin rested
      PROVE  services'[d.fn].ready # "True" /\ ~SeenReady(d.fn)' /\ NotRolling(d.fn)'
    <2>1. d.rev = services[d.fn].created
        BY <1>2, <1>3, <1>8 DEF RowsInv, VersionInv
    <2>2. services[d.fn].ready # "True" /\ ~SeenReady(d.fn) /\ NotRolling(d.fn)
        BY <1>8, <2>1 DEF RowsInv, IdleInv
    <2>3. CASE d.fn # fn
        BY <1>1, <1>2, <1>5, <2>2, <2>3
    <2>4. CASE d.fn = fn
        BY <1>1, <1>5, <1>8, <2>1, <2>2, <2>4 DEF NotRolling, Outcome
    <2> QED BY <2>3, <2>4
<1>9. IdleInv'
    BY <1>1, <1>8 DEF IdleInv
<1> QED BY <1>1, <1>4, <1>7, <1>9, ClusterOnly DEF RowsInv, RowsTypeOK

\* Deploys, the outcomes of rollouts, and the request to delete.
LEMMA ServiceSteps ==
    ASSUME RowsInv, NEW fn \in Fns,
           Deploy(fn) \/ RevisionReady(fn) \/ RevisionFails(fn) \/ Delete(fn)
    PROVE  RowsInv'
<1>1. services \in [Fns -> Service] /\ services[fn] \in Service /\ deployments \subseteq Deployment
    BY DEF RowsInv, RowsTypeOK
<1>2. ServiceInv(services[fn]) /\ (services[fn].exists => services[fn].created >= 1)
    BY DEF RowsInv, VersionInv
<1>3. CASE Deploy(fn)
    <2> DEFINE new == [services[fn] EXCEPT !.exists = TRUE, !.ready = "Unknown", !.created = @ + 1]
    <2>1. /\ new \in Service /\ new.created = services[fn].created + 1 /\ new.ready = "Unknown"
          /\ services[fn].created \in Nat
        BY <1>1, <1>3 DEF Deploy, Service
    <2>2. services' = [services EXCEPT ![fn] = new] /\ ClusterChanges /\ UNCHANGED <<deployments, rested>>
        BY <1>1, <1>3 DEF Deploy
    <2> HIDE DEF new
    <2>3. /\ ServiceInv(new) /\ new.created >= 1 /\ new.created >= services[fn].created
          /\ Outcome(fn, new)
        BY <2>1 DEF ServiceInv, Outcome
    <2> QED BY <2>1, <2>2, <2>3, ServiceStep
<1>4. CASE RevisionReady(fn)
    <2> DEFINE new == [services[fn] EXCEPT !.ready = "True", !.latest = services[fn].created]
    <2>1. /\ new \in Service /\ new.created = services[fn].created /\ new.ready = "True"
          /\ new.latest = new.created /\ new.exists = services[fn].exists
        BY <1>1 DEF Service
    <2>2. services' = [services EXCEPT ![fn] = new] /\ ClusterChanges /\ UNCHANGED <<deployments, rested>>
        BY <1>1, <1>4 DEF RevisionReady
    <2>3. new.created >= 1 /\ ~NotRolling(fn)
        <3>1. services[fn].exists /\ services[fn].ready = "Unknown"
            BY <1>4 DEF RevisionReady
        <3> QED BY <1>2, <2>1, <3>1 DEF NotRolling
    <2> HIDE DEF new
    <2>4. /\ ServiceInv(new) /\ new.created >= services[fn].created
          /\ Outcome(fn, new)
        BY <1>1, <2>1, <2>3 DEF ServiceInv, Outcome, Service
    <2> QED BY <2>1, <2>2, <2>3, <2>4, ServiceStep
<1>5. CASE RevisionFails(fn)
    <2> DEFINE new == [services[fn] EXCEPT !.ready = "False"]
    <2>1. /\ new \in Service /\ new.created = services[fn].created /\ new.ready = "False"
          /\ new.exists = services[fn].exists /\ services[fn].created \in Nat
        BY <1>1 DEF Service
    <2>2. services' = [services EXCEPT ![fn] = new] /\ ClusterChanges /\ UNCHANGED <<deployments, rested>>
        BY <1>1, <1>5 DEF RevisionFails
    <2>3. ~SeenReady(fn)
        BY <1>5 DEF RevisionFails, RowsInv, ReadyInv, NotRolling
    <2> HIDE DEF new
    <2>4. /\ ServiceInv(new) /\ (new.exists => new.created >= 1)
          /\ new.created >= services[fn].created /\ Outcome(fn, new)
        BY <1>2, <2>1, <2>3 DEF ServiceInv, Outcome
    <2> QED BY <2>1, <2>2, <2>4, ServiceStep
<1>6. CASE Delete(fn)
    <2> DEFINE new == [services[fn] EXCEPT !.deleting = TRUE]
    <2>1. /\ new \in Service /\ new.created = services[fn].created /\ new.ready = services[fn].ready
          /\ new.latest = services[fn].latest
          /\ new.exists = services[fn].exists /\ services[fn].created \in Nat
        <3>1. new \in Service
            BY <1>1 DEF Service
        <3> QED BY <1>1, <3>1 DEF Service
    <2>2. services' = [services EXCEPT ![fn] = new] /\ ClusterChanges /\ UNCHANGED <<deployments, rested>>
        BY <1>1, <1>6 DEF Delete
    <2>3. SeenReady(fn) => new.ready # "False"
        BY <2>1 DEF RowsInv, ReadyInv
    <2> HIDE DEF new
    <2>4. /\ ServiceInv(new) /\ (new.exists => new.created >= 1)
          /\ new.created >= services[fn].created /\ Outcome(fn, new)
        BY <1>2, <2>1, <2>3 DEF ServiceInv, Outcome
    <2> QED BY <2>1, <2>2, <2>4, ServiceStep
<1> QED BY <1>3, <1>4, <1>5, <1>6

\* The deployment of a new revision starts up.
LEMMA StartStep ==
    ASSUME RowsInv, NEW fn \in Fns, StartRevision(fn)
    PROVE  RowsInv'
<1> DEFINE new == Newest(fn)
<1>1. /\ ClusterChanges /\ services[fn].exists /\ services[fn].ready = "Unknown"
      /\ deployments' = deployments \cup {new} /\ UNCHANGED <<services, rested, knSvcs, deps>>
    BY DEF StartRevision, ClusterChanges, views
<1>2. /\ services \in [Fns -> Service] /\ deployments \subseteq Deployment
    BY DEF RowsInv, RowsTypeOK
<1>3. new \in Deployment /\ new.rev <= services[fn].created /\ new.fn = fn /\ new.up = TRUE
    <2>1. services[fn].created \in 1..MaxRevision /\ services[fn].born \in 0..MaxRevision
        BY <1>1, <1>2 DEF RowsInv, VersionInv, Service
    <2> QED BY <2>1 DEF Deployment, Newest
<1>4. ~NotRolling(fn)
    BY <1>1 DEF NotRolling
<1> HIDE DEF new
<1>5. VersionInv'
    BY <1>1, <1>3 DEF RowsInv, VersionInv, ServiceInv
<1>6. \A g \in Fns : (SeenReady(g)' = SeenReady(g)) /\ (g # fn /\ NotRolling(g) => NotRolling(g)')
    BY <1>1, <1>3 DEF SeenReady, NotRolling
<1>7. ReadyInv'
    BY <1>1, <1>4, <1>6 DEF RowsInv, ReadyInv
<1>8. IdleInv'
    <2>1. \A d \in deployments \cup deps : d.fn \in Fns
        BY <1>2 DEF RowsInv, RowsTypeOK, Deployment
    <2>2. ASSUME NEW d \in deployments \cup deps, ~d.up, d.rev = services[d.fn].created
          PROVE  \/ <<d.fn, d.rev>> \in rested
                 \/ services[d.fn].ready # "True" /\ ~SeenReady(d.fn)' /\ NotRolling(d.fn)'
        BY <1>4, <1>6, <2>1, <2>2 DEF RowsInv, IdleInv
    <2> QED BY <1>1, <1>3, <2>2 DEF IdleInv
<1> QED BY <1>1, <1>2, <1>3, <1>5, <1>7, <1>8, ClusterOnly

\* The autoscaler: a revision that goes to zero while it serves is remembered.
LEMMA ScaleStep ==
    ASSUME RowsInv, NEW d \in deployments, Scale(d)
    PROVE  RowsInv'
<1> DEFINE new == [d EXCEPT !.up = ~@]
<1>1. /\ ClusterChanges /\ UNCHANGED <<services, knSvcs, deps>>
      /\ deployments' = (deployments \ {d}) \cup {new}
      /\ d.up => d.rev < services[d.fn].created \/ services[d.fn].ready # "Unknown"
                     \/ ~services[d.fn].exists
      /\ rested \subseteq rested'
      /\ d.up /\ d.rev = services[d.fn].latest /\ services[d.fn].ready = "True"
             => <<d.fn, d.rev>> \in rested'
      /\ d.up /\ ~services[d.fn].exists => <<d.fn, d.rev>> \in rested'
    BY DEF Scale, ClusterChanges, views
<1>2. /\ services \in [Fns -> Service] /\ deployments \subseteq Deployment /\ d \in Deployment
      /\ \A e \in deployments \cup deps : e.fn \in Fns
    BY DEF RowsInv, RowsTypeOK, Deployment
<1>3. /\ new \in Deployment /\ new.fn = d.fn /\ new.rev = d.rev /\ (new.up = ~d.up)
      /\ d.fn \in Fns /\ d.up \in BOOLEAN /\ d.rev \in Nat
    <2>1. d.fn \in Fns /\ d.rev \in 1..MaxRevision /\ d.up \in BOOLEAN
        BY <1>2 DEF Deployment
    <2>2. new \in Deployment
        BY <1>2, <2>1 DEF Deployment
    <2>3. new.fn = d.fn /\ new.rev = d.rev /\ new.up = ~d.up
        BY <1>2 DEF Deployment
    <2> QED BY <2>1, <2>2, <2>3
<1> HIDE DEF new
<1>4. VersionInv'
    BY <1>1, <1>3 DEF RowsInv, VersionInv, ServiceInv
<1>5. \A g \in Fns : (SeenReady(g)' = SeenReady(g)) /\ (NotRolling(g) => NotRolling(g)')
    BY <1>1, <1>3 DEF SeenReady, NotRolling
<1>6. ReadyInv'
    BY <1>1, <1>5 DEF RowsInv, ReadyInv
<1>7. ASSUME d.up, d.rev = services[d.fn].created
      PROVE  \/ <<d.fn, d.rev>> \in rested'
             \/ services[d.fn].ready # "True" /\ ~SeenReady(d.fn) /\ NotRolling(d.fn)
    <2>1. services[d.fn].ready \in {"True", "False"} \/ ~services[d.fn].exists
        <3>1. services[d.fn] \in Service
            BY <1>2, <1>3
        <3> QED BY <1>1, <1>3, <1>7, <3>1 DEF Service
    <2>2. CASE services[d.fn].ready = "True"
        BY <1>1, <1>3, <1>7, <2>2 DEF RowsInv, VersionInv, ServiceInv
    <2>3. CASE services[d.fn].ready = "False"
        BY <1>3, <2>3 DEF RowsInv, ReadyInv, NotRolling
    <2>4. CASE ~services[d.fn].exists
        <3>1. d.up /\ ~services[d.fn].exists => <<d.fn, d.rev>> \in rested'
            BY <1>1
        <3> QED BY <1>7, <2>4, <3>1, Zenon
    <2> QED BY <2>1, <2>2, <2>3, <2>4
<1>8. IdleInv'
    <2>1. ASSUME NEW e \in deployments \cup deps, ~e.up, e.rev = services[e.fn].created
          PROVE  \/ <<e.fn, e.rev>> \in rested'
                 \/ services[e.fn].ready # "True" /\ ~SeenReady(e.fn)' /\ NotRolling(e.fn)'
        BY <1>1, <1>2, <1>5, <2>1 DEF RowsInv, IdleInv
    <2>2. ASSUME ~new.up, new.rev = services[new.fn].created
          PROVE  \/ <<new.fn, new.rev>> \in rested'
                 \/ services[new.fn].ready # "True" /\ ~SeenReady(new.fn)' /\ NotRolling(new.fn)'
        BY <1>3, <1>5, <1>7, <2>2
    <2> QED BY <1>1, <2>1, <2>2 DEF IdleInv
<1> QED BY <1>1, <1>2, <1>3, <1>4, <1>6, <1>8, ClusterOnly

\* The service is gone, and its deployments with it or not yet.
LEMMA DeletedStep ==
    ASSUME RowsInv, NEW fn \in Fns, Deleted(fn)
    PROVE  RowsInv'
<1> DEFINE gone == [services[fn] EXCEPT !.exists = FALSE, !.deleting = FALSE]
           new == [gone EXCEPT !.ready = "Unknown", !.latest = 0, !.born = services[fn].created]
<1>1. /\ services \in [Fns -> Service] /\ deployments \subseteq Deployment
      /\ \A e \in deployments \cup deps : e.fn \in Fns
    BY DEF RowsInv, RowsTypeOK, Deployment
<1>2. /\ ClusterChanges /\ UNCHANGED <<rested, knSvcs, deps>>
      /\ services' = [services EXCEPT ![fn] = new]
      /\ deployments' \subseteq deployments
    BY <1>1 DEF Deleted, ClusterChanges, views
<1>3. /\ new \in Service /\ new.created = services[fn].created
      /\ new.exists = FALSE /\ new.ready = "Unknown"
    <2>1. services[fn] \in Service
        BY <1>1
    <2>2. gone \in Service /\ gone.created = services[fn].created /\ gone.exists = FALSE
        BY <2>1 DEF Service
    <2>3. 0 \in 0..MaxRevision
        BY FunctionRowsAssumption
    <2> HIDE DEF gone
    <2>4. new \in Service
        BY <2>2, <2>3 DEF Service
    <2> QED BY <2>2, <2>4 DEF Service
<1> HIDE DEF new
<1>4. /\ services' \in [Fns -> Service] /\ services'[fn] = new
      /\ \A g \in Fns : g # fn => services'[g] = services[g]
      /\ \A g \in Fns : services'[g].created = services[g].created
    BY <1>1, <1>2, <1>3
<1>5. VersionInv'
    <2>1. \A g \in Fns : ServiceInv(services'[g]) /\ (services'[g].exists => services'[g].created >= 1)
        BY <1>3, <1>4 DEF RowsInv, VersionInv, ServiceInv
    <2>2. \A g \in DOMAIN knSvcs : ServiceInv(knSvcs[g]) /\ knSvcs[g].created <= services'[g].created
        BY <1>4 DEF RowsInv, VersionInv, RowsTypeOK
    <2>3. \A d \in deployments \cup deps : d.rev <= services'[d.fn].created
        BY <1>1, <1>4 DEF RowsInv, VersionInv
    <2> QED BY <1>2, <2>1, <2>2, <2>3 DEF VersionInv, ServiceInv
<1>6. \A g \in Fns : (SeenReady(g)' = SeenReady(g)) /\ (g # fn /\ NotRolling(g) => NotRolling(g)')
    BY <1>2, <1>4 DEF SeenReady, NotRolling
<1>7. NotRolling(fn)' /\ services'[fn].ready = "Unknown"
    BY <1>2, <1>3, <1>4 DEF NotRolling
<1>8. ReadyInv'
    BY <1>4, <1>6, <1>7 DEF RowsInv, ReadyInv
<1>9. IdleInv'
    <2>1. ASSUME NEW d \in deployments \cup deps, ~d.up, d.rev = services'[d.fn].created
          PROVE  \/ <<d.fn, d.rev>> \in rested
                 \/ services'[d.fn].ready # "True" /\ ~SeenReady(d.fn)' /\ NotRolling(d.fn)'
        <3>1. d.fn \in Fns /\ d.rev = services[d.fn].created
            BY <1>1, <1>4, <2>1
        <3> QED BY <1>4, <1>6, <1>7, <2>1, <3>1 DEF RowsInv, IdleInv
    <2> QED BY <1>2, <2>1 DEF IdleInv
<1> QED BY <1>1, <1>2, <1>4, <1>5, <1>8, <1>9, ClusterOnly

\* What an earlier life has left behind is collected.
LEMMA CollectedStep ==
    ASSUME RowsInv, NEW fn \in Fns, Collected(fn)
    PROVE  RowsInv'
<1>1. /\ ClusterChanges /\ UNCHANGED <<services, rested, knSvcs, deps>>
      /\ deployments' \subseteq deployments
    BY DEF Collected, ClusterChanges, views
<1>2. \A g \in Fns : (SeenReady(g)' = SeenReady(g)) /\ (NotRolling(g)' = NotRolling(g))
    BY <1>1 DEF SeenReady, NotRolling
<1>3. VersionInv'
    BY <1>1 DEF RowsInv, VersionInv, ServiceInv
<1>4. ReadyInv'
    BY <1>1, <1>2 DEF RowsInv, ReadyInv
<1>5. IdleInv'
    <2>1. \A e \in deployments \cup deps : e.fn \in Fns
        BY DEF RowsInv, RowsTypeOK, Deployment
    <2> QED BY <1>1, <1>2, <2>1 DEF RowsInv, IdleInv
<1>6. services' \in [Fns -> Service] /\ deployments' \subseteq Deployment
    BY <1>1 DEF RowsInv, RowsTypeOK
<1> QED BY <1>1, <1>3, <1>4, <1>5, <1>6, ClusterOnly

LEMMA RowsStep ==
    ASSUME RowsInv, [RowsNext]_rowsVars
    PROVE  RowsInv'
<1>1. CASE UNCHANGED rowsVars
    <2>1. UNCHANGED <<page, views, workflowRuns, cluster, builds, lists>>
        BY <1>1 DEF rowsVars
    <2>2. Watched' = Watched
        BY <2>1, SameWatched DEF page
    <2> QED BY <2>1, <2>2, ViewStep DEF RowsInv, RowsTypeOK, page, views, cluster, builds
<1> QED BY <1>1, PageStep, ServiceSteps, StartStep, ScaleStep, DeletedStep,
           CollectedStep DEF RowsNext

LEMMA RowsInvariant == RowsSpec => []RowsInv
<1>1. RowsInit => RowsInv
    BY RowsStart
<1>2. RowsInv /\ [RowsNext]_rowsVars => RowsInv'
    BY RowsStep
<1> QED BY <1>1, <1>2, PTL DEF RowsSpec

-----------------------------------------------------------------------------
(***************************************************************************)
(* What the rows promise                                                   *)
(***************************************************************************)

\* Types, and: the watches deliver only what belongs to the active namespace and to a
\* listed function.
THEOREM RowsTypeCorrect == RowsSpec => []RowsTypeOK
<1>1. RowsInv => RowsTypeOK
    BY DEF RowsInv
<1> QED BY <1>1, RowsInvariant, PTL

\* A listed item has its own row unless a later one names the same function, and a row
\* marked with "~" never shows data of a service, whatever the repository is called.
THEOREM RowsKept == RowsSpec => []ItemsKeepRows
<1>1. RowsInv => ItemsKeepRows
    <2> SUFFICES ASSUME RowsInv, NEW i \in 1..Len(items)
                 PROVE  /\ \/ OwnRow(Rows, items[i])
                           \/ \E j \in i+1..Len(items) :
                                 ~items[j].broken /\ ~items[i].broken /\ items[j].fn = items[i].fn
                        /\ items[i].broken => Rows[FunctionKey(items[i])].cluster = "NotDeployed"
        BY DEF ItemsKeepRows
    <2> DEFINE key == FunctionKey(items[i])
    <2>1. /\ RowsTypeOK /\ Len(items) \in Nat /\ \A j \in 1..Len(items) : items[j] \in Item
        BY ItemsTyped DEF RowsInv
    <2>2. /\ key \in DOMAIN Rows
          /\ Rows[key].repo = ItemOf(key).repo /\ Rows[key].error = ItemOf(key).error
          /\ key \notin DOMAIN knSvcs => Rows[key].cluster = "NotDeployed"
        BY <2>1, RowOfItem
    <2>3. PICK m \in 1..Len(items) :
              /\ i <= m /\ FunctionKey(items[m]) = key /\ ItemOf(key) = items[m]
        BY <2>1, ItemOfKey
    <2>4. CASE items[i].broken
        <3>1. key \notin Fns /\ m = i
            BY <2>1, <2>3, <2>4, MarkedKeys, OneOfRepo
        <3>2. key \notin DOMAIN knSvcs
            BY <2>1, <3>1 DEF RowsTypeOK
        <3> QED BY <2>2, <2>3, <3>1, <3>2 DEF OwnRow
    <2>5. CASE ~items[i].broken
        <3>1. CASE m = i
            BY <2>2, <2>3, <2>5, <3>1 DEF OwnRow
        <3>2. CASE m # i
            <4>1. m \in i+1..Len(items)
                BY <2>1, <2>3, <3>2
            <4>2. ~items[m].broken
                BY <2>1, <2>3, <2>5, MarkedKeys
            <4>3. items[m].fn = items[i].fn
                BY <2>3, <2>5, <4>2 DEF FunctionKey
            <4> QED BY <2>5, <4>1, <4>2, <4>3
        <3> QED BY <3>1, <3>2
    <2> QED BY <2>4, <2>5
<1> QED BY <1>1, RowsInvariant, PTL

\* "Scaled to zero" is said only of a revision that was idle while it served, unless a
\* rollout has begun that the page's view of the service does not know yet, or the views
\* of service and deployments are of different lives.
THEOREM ZeroCorrect == RowsSpec => []ZeroMeansIdle
<1>1. RowsInv => ZeroMeansIdle
    <2> SUFFICES ASSUME RowsInv, NEW key \in DOMAIN Rows, Rows[key].cluster = "ScaledToZero",
                        \A d \in deps : d.fn = key => d.born = knSvcs[key].born
                 PROVE  \/ <<key, knSvcs[key].latest>> \in rested
                        \/ services[key].created > knSvcs[key].created
        BY DEF ZeroMeansIdle
    <2>1. /\ key \in DOMAIN knSvcs /\ knSvcs[key].ready = "True"
          /\ \E d \in deps : /\ d.fn = key /\ ~d.up
                             /\ knSvcs[key].latest > 0 =>
                                    RevisionName(d.rev, d.born) =
                                        RevisionName(knSvcs[key].latest, knSvcs[key].born)
        BY RowScaledToZero DEF RowsInv
    <2>2. PICK d \in deps : /\ d.fn = key /\ ~d.up
                            /\ knSvcs[key].latest > 0 =>
                                   RevisionName(d.rev, d.born) =
                                       RevisionName(knSvcs[key].latest, knSvcs[key].born)
        BY <2>1
    <2>3. /\ key \in Fns /\ knSvcs[key] \in Service /\ services[key] \in Service
          /\ d \in Deployment
        BY <2>1 DEF RowsInv, RowsTypeOK
    <2>4. /\ knSvcs[key].latest = knSvcs[key].created /\ knSvcs[key].created >= 1
          /\ knSvcs[key].created <= services[key].created
        BY <2>1, <2>3 DEF RowsInv, VersionInv, ServiceInv
    <2>5. /\ knSvcs[key].created \in Nat /\ services[key].created \in Nat
          /\ d.rev \in Nat /\ d.born \in Nat
        BY <2>3 DEF Service, Deployment
    <2>6. d.born = knSvcs[key].born
        BY <2>2
    <2>7. d.rev = knSvcs[key].latest
        BY <2>2, <2>4, <2>5, <2>6 DEF RevisionName
    <2>8. CASE services[key].created = knSvcs[key].created
        <3>1. d.rev = services[d.fn].created /\ SeenReady(key)
            BY <2>1, <2>2, <2>4, <2>5, <2>7, <2>8 DEF SeenReady
        <3>2. <<key, d.rev>> \in rested
            BY <2>2, <3>1 DEF RowsInv, IdleInv
        <3> QED BY <2>7, <3>2
    <2> QED BY <2>4, <2>5, <2>8
<1> QED BY <1>1, RowsInvariant, PTL

=============================================================================
