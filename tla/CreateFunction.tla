--------------------------- MODULE CreateFunction ---------------------------
(***************************************************************************)
(* POST /api/v1/functions: the saga of createFunction (handler/create.go). *)
(* One handler per request provisions four RBAC objects in the request's   *)
(* namespace, mints a service account token, creates a GitHub repository   *)
(* and fills it.  Requests run concurrently and share nothing but the      *)
(* cluster and GitHub.  Every remote call may be carried out and answered, *)
(* refused without effect, or carried out with its answer lost; a handler  *)
(* may crash between any two calls.                                        *)
(***************************************************************************)
EXTENDS FiniteSets

CONSTANTS
    Handlers,     \* one in-flight or finished create request each
    Namespaces,   \* OpenShift namespaces the requests deploy to
    Accounts,     \* GitHub users and organizations
    Names,        \* names of repositories within an account
    PreExisting,  \* creator of an object or repository older than every request
    Absent        \* no object, no repository, no token

ASSUME CreateFunctionAssumption ==
    /\ PreExisting \notin Handlers
    /\ Absent \notin Handlers \cup {PreExisting}

VARIABLES
    pc,           \* pc[h]: the call handler h makes next, or how it ended
    req,          \* req[h]: the decoded request
    objects,      \* objects[ns][res]: who created the live object, or Absent
    staleRole,    \* namespaces whose role carries outdated rules
    seenRole,     \* seenRole[h]: the role h read before updating it
    provisioned,  \* provisioned[h]: cluster.Provisioned, what h reports it created
    token,        \* token[h]: the service account incarnation h's token is bound to
    repos,        \* repos[r]: the repository on GitHub
    door,         \* door[h]: ways in which h's clean-up was cut short (history)
    undone        \* the requests whose rollback removed an object (history)

vars == <<pc, req, objects, staleRole, seenRole, provisioned, token, repos, door, undone>>

Resources == {"sa", "role", "rb", "ib"}
Creators == Handlers \cup {PreExisting}
Doors == {"provision", "initRepo", "delete"}

\* A request names owner and repository itself and carries a token, whose account
\* is its login.  The form sends the login as the owner; the handler checks only
\* that the owner is well-formed.
RepoNames == Accounts \X Names
Requests == [ns: Namespaces, login: Accounts, owner: Accounts, name: Names]

\* What of a repository the saga fills: its pieces, and the token incarnation
\* that the KUBECONFIG secret and the KUBECONFIG_EXPIRE_AT variable belong to.
Pieces == {"branch", "topics", "clusterId", "files"}
Repo == [by: Creators \cup {Absent}, has: SUBSET Pieces,
         secret: Creators \cup {Absent}, expireAt: Creators \cup {Absent}]
EmptyRepo(who) == [by |-> who, has |-> {}, secret |-> Absent, expireAt |-> Absent]

\* What a role's resourceVersion tells apart: its creator and whether it is stale.
RoleVersions == (Creators \cup {Absent}) \X {"stale", "current"}
RoleVersion(ns) ==
    <<objects[ns]["role"], IF ns \in staleRole THEN "stale" ELSE "current">>

ProvisionSteps == {"sa", "role", "roleGet", "roleUpdate", "rb", "ib"}
InitRepoSteps == {"repoCreate", "repoBranch", "repoTopics"}
FillSteps == {"secret", "expireAt", "clusterId", "push"}
RollbackSteps == {"undoRepo", "undo"}
Ended == {"created", "failed", "crashed"}
Steps == {"start", "token"} \cup ProvisionSteps \cup InitRepoSteps
             \cup FillSteps \cup RollbackSteps \cup Ended

TypeOK ==
    /\ pc \in [Handlers -> Steps]
    /\ req \in [Handlers -> Requests]
    /\ objects \in [Namespaces -> [Resources -> Creators \cup {Absent}]]
    /\ staleRole \in SUBSET Namespaces
    /\ seenRole \in [Handlers -> RoleVersions]
    /\ provisioned \in [Handlers -> SUBSET Resources]
    /\ token \in [Handlers -> Creators \cup {Absent}]
    /\ repos \in [RepoNames -> Repo]
    /\ door \in [Handlers -> SUBSET Doors]
    /\ undone \in SUBSET Handlers

(***************************************************************************)
(* A namespace may already hold any of the objects (an earlier create, an  *)
(* older release whose role is outdated), and a repository name may be     *)
(* taken.                                                                  *)
(***************************************************************************)
Init ==
    /\ pc = [h \in Handlers |-> "start"]
    /\ req \in [Handlers -> Requests]
    /\ objects \in [Namespaces -> [Resources -> {PreExisting, Absent}]]
    /\ staleRole \in SUBSET {ns \in Namespaces : objects[ns]["role"] # Absent}
    /\ seenRole = [h \in Handlers |-> <<Absent, "current">>]
    /\ provisioned = [h \in Handlers |-> {}]
    /\ token = [h \in Handlers |-> Absent]
    /\ repos \in [RepoNames -> {EmptyRepo(Absent), EmptyRepo(PreExisting)}]
    /\ door = [h \in Handlers |-> {}]
    /\ undone = {}

-----------------------------------------------------------------------------
Ns(h) == req[h].ns

\* The repository that create makes, and the one that every later call addresses.
Home(h) == <<req[h].login, req[h].name>>
RepoName(h) == <<req[h].owner, req[h].name>>
Misaddressed(h) == req[h].login # req[h].owner

Goto(h, step) == pc' = [pc EXCEPT ![h] = step]
CutShort(h, how) == door' = [door EXCEPT ![h] = @ \cup {how}]

\* Where the deferred rollbacks start: the repository one is registered only
\* after InitRepo succeeded, the RBAC one only after ProvisionRBAC did.
UnwindNothing(h) == "failed"    \* Mutant: no deferred RBAC rollback.
UnwindRBAC(h) == IF provisioned[h] = {} THEN "failed" ELSE "undo"

cluster == <<objects, staleRole>>
handlerData == <<seenRole, provisioned, token>>

\* A body that does not decode, a field that does not validate (or, in Begin, a
\* scaffold or cluster client that cannot be made): nothing remote happened yet.
Refused(h) == Goto(h, "failed")

Begin(h) ==
    /\ pc[h] = "start"
    /\ Goto(h, "sa") \/ Refused(h)
    /\ UNCHANGED <<req, cluster, handlerData, repos, door, undone>>

\* An error inside ProvisionRBAC returns before the rollback is deferred, so
\* what was provisioned so far is abandoned.
ProvisionFails(h) ==
    /\ Goto(h, "failed")
    /\ CutShort(h, "provision")
    /\ UNCHANGED provisioned

NextStep ==
    [sa |-> "role", role |-> "rb", rb |-> "ib", ib |-> "token"]

\* Mutant: AlreadyExists is reported as "created by this call".
AlreadyExistsClaimed(h, res) ==
    /\ objects[Ns(h)][res] # Absent
    /\ provisioned' = [provisioned EXCEPT ![h] = @ \cup {res}]
    /\ Goto(h, IF res = "role" THEN "roleGet" ELSE NextStep[res])
    /\ UNCHANGED <<cluster, door>>

\* Mutant: an existing role is kept as it is.
AlreadyExistsRoleKept(h, res) ==
    /\ objects[Ns(h)][res] # Absent
    /\ Goto(h, NextStep[res])
    /\ UNCHANGED <<cluster, provisioned, door>>

\* AlreadyExists is success, not reported as created; a role is brought up to date.
AlreadyExists(h, res) ==
    /\ objects[Ns(h)][res] # Absent
    /\ Goto(h, IF res = "role" THEN "roleGet" ELSE NextStep[res])
    /\ UNCHANGED <<cluster, provisioned, door>>

\* CreateServiceAccount, CreateRoleBinding, CreateImageBuilderBinding and the
\* first call of ApplyRole: the reported flag says whether this call created it.
CreateObject(h, res) ==
    /\ pc[h] = res
    /\ \/ /\ objects[Ns(h)][res] = Absent
          /\ objects' = [objects EXCEPT ![Ns(h)][res] = h]
          /\ staleRole' = IF res = "role" THEN staleRole \ {Ns(h)} ELSE staleRole
          /\ \/ /\ provisioned' = [provisioned EXCEPT ![h] = @ \cup {res}]
                /\ Goto(h, NextStep[res])
                /\ UNCHANGED door
             \/ ProvisionFails(h)
       \/ AlreadyExists(h, res)
       \/ /\ ProvisionFails(h)
          /\ UNCHANGED cluster
    /\ UNCHANGED <<req, seenRole, token, repos, undone>>

\* ApplyRole on an existing role: read it for its resourceVersion ...
GetRole(h) ==
    /\ pc[h] = "roleGet"
    /\ \/ /\ objects[Ns(h)]["role"] # Absent
          /\ seenRole' = [seenRole EXCEPT ![h] = RoleVersion(Ns(h))]
          /\ Goto(h, "roleUpdate")
          /\ UNCHANGED <<provisioned, door>>
       \/ /\ ProvisionFails(h)
          /\ UNCHANGED seenRole
    /\ UNCHANGED <<req, cluster, token, repos, undone>>

\* ... and overwrite it, which the API server refuses if the role was replaced
\* or modified in between.
UpdateRole(h) ==
    /\ pc[h] = "roleUpdate"
    /\ \/ /\ objects[Ns(h)]["role"] # Absent
          /\ seenRole[h] = RoleVersion(Ns(h))
          /\ staleRole' = staleRole \ {Ns(h)}
          /\ \/ Goto(h, "rb") /\ UNCHANGED <<provisioned, door>>
             \/ ProvisionFails(h)
       \/ /\ ProvisionFails(h)
          /\ UNCHANGED staleRole
    /\ UNCHANGED <<req, objects, seenRole, token, repos, undone>>

\* RequestToken binds the token to the service account's current incarnation.
RequestToken(h) ==
    /\ pc[h] = "token"
    /\ \/ /\ objects[Ns(h)]["sa"] # Absent
          /\ token' = [token EXCEPT ![h] = objects[Ns(h)]["sa"]]
          /\ Goto(h, "repoCreate")
       \/ /\ Goto(h, UnwindRBAC(h))
          /\ UNCHANGED token
    /\ UNCHANGED <<req, cluster, seenRole, provisioned, repos, door, undone>>

-----------------------------------------------------------------------------
SetRepo(h, repo) == repos' = [repos EXCEPT ![RepoName(h)] = repo]

\* InitRepo failed once the repository existed: DeleteRepo is not deferred yet.
InitRepoFails(h) ==
    /\ Goto(h, UnwindRBAC(h))
    /\ CutShort(h, "initRepo")

\* Mutant: DeleteRepo is deferred before InitRepo is called.
RepoRefusedDeletes(h) ==
    /\ Goto(h, "undoRepo")
    /\ UNCHANGED <<repos, door>>

\* The name is taken in the token's account (ErrRepoExists), or GitHub refused.
RepoRefused(h) ==
    /\ Goto(h, UnwindRBAC(h))
    /\ UNCHANGED <<repos, door>>

\* GitHub makes the repository in the account of the token, whatever the owner.
RepoCreate(h) ==
    /\ pc[h] = "repoCreate"
    /\ \/ /\ repos[Home(h)].by = Absent
          /\ repos' = [repos EXCEPT ![Home(h)] = EmptyRepo(h)]
          /\ \/ Goto(h, "repoBranch") /\ UNCHANGED door
             \/ InitRepoFails(h)
       \/ RepoRefused(h)
    /\ UNCHANGED <<req, cluster, handlerData, undone>>

\* A call of InitRepo that completes one piece of the repository it addresses.
InitPiece(h, step, piece, next) ==
    /\ pc[h] = step
    /\ \/ /\ repos[RepoName(h)].by # Absent
          /\ SetRepo(h, [repos[RepoName(h)] EXCEPT !.has = @ \cup {piece}])
          /\ \/ Goto(h, next) /\ UNCHANGED door
             \/ InitRepoFails(h)
       \/ /\ InitRepoFails(h)
          /\ UNCHANGED repos
    /\ UNCHANGED <<req, cluster, handlerData, undone>>

RenameBranch(h) == InitPiece(h, "repoBranch", "branch", "repoTopics")
ReplaceAllTopics(h) == InitPiece(h, "repoTopics", "topics", "secret")

\* A call that fills the repository; if it fails both rollbacks run.
Fill(h, step, filled, next) ==
    /\ pc[h] = step
    /\ \/ /\ repos[RepoName(h)].by # Absent
          /\ SetRepo(h, filled)
          /\ \E to \in {next, "undoRepo"} : Goto(h, to)
       \/ /\ Goto(h, "undoRepo")
          /\ UNCHANGED repos
    /\ UNCHANGED <<req, cluster, handlerData, door, undone>>

\* Mutant: a failing StoreSecret is logged and the saga goes on.
StoreSecretLogged(h) ==
    \/ Fill(h, "secret", [repos[RepoName(h)] EXCEPT !.secret = token[h]], "expireAt")
    \/ /\ pc[h] = "secret"
       /\ Goto(h, "expireAt")
       /\ UNCHANGED <<req, cluster, handlerData, repos, door, undone>>

StoreSecret(h) ==
    Fill(h, "secret", [repos[RepoName(h)] EXCEPT !.secret = token[h]], "expireAt")
StoreExpireAt(h) ==
    Fill(h, "expireAt", [repos[RepoName(h)] EXCEPT !.expireAt = token[h]], "clusterId")
StoreClusterId(h) ==
    Fill(h, "clusterId", [repos[RepoName(h)] EXCEPT !.has = @ \cup {"clusterId"}], "push")
PushFiles(h) ==
    Fill(h, "push", [repos[RepoName(h)] EXCEPT !.has = @ \cup {"files"}], "created")

-----------------------------------------------------------------------------
\* The deferred DeleteRepo, on a background context, errors only logged.
UndoRepo(h) ==
    /\ pc[h] = "undoRepo"
    /\ Goto(h, UnwindRBAC(h))
    /\ \/ SetRepo(h, EmptyRepo(Absent)) /\ UNCHANGED door
       \/ CutShort(h, "delete") /\ UNCHANGED repos
    /\ UNCHANGED <<req, cluster, handlerData, undone>>

UndoneBefore == {<<"ib", "rb">>, <<"ib", "role">>, <<"ib", "sa">>,
                 <<"rb", "role">>, <<"rb", "sa">>, <<"role", "sa">>}

\* RollbackProvisionedRBAC: delete by name what this request reported created,
\* in reverse order; NotFound is success and other errors are only logged.
UndoObject(h, res) ==
    /\ pc[h] = "undo"
    /\ res \in provisioned[h]
    /\ \A other \in provisioned[h] : <<other, res>> \notin UndoneBefore
    /\ provisioned' = [provisioned EXCEPT ![h] = @ \ {res}]
    /\ Goto(h, IF provisioned[h] = {res} THEN "failed" ELSE "undo")
    /\ \/ /\ objects' = [objects EXCEPT ![Ns(h)][res] = Absent]
          /\ staleRole' = IF res = "role" THEN staleRole \ {Ns(h)} ELSE staleRole
          /\ undone' = undone \cup {h}
          /\ UNCHANGED door
       \/ /\ CutShort(h, "delete")
          /\ UNCHANGED <<cluster, undone>>
    /\ UNCHANGED <<req, seenRole, token, repos>>

\* The backend pod dies between two calls; nothing is persisted, so nothing resumes.
Crash(h) ==
    /\ pc[h] \notin Ended
    /\ Goto(h, "crashed")
    /\ UNCHANGED <<req, cluster, handlerData, repos, door, undone>>

Step(h) ==
    \/ Begin(h)
    \/ \E res \in Resources : CreateObject(h, res)
    \/ GetRole(h)
    \/ UpdateRole(h)
    \/ RequestToken(h)
    \/ RepoCreate(h)
    \/ RenameBranch(h)
    \/ ReplaceAllTopics(h)
    \/ StoreSecret(h)
    \/ StoreExpireAt(h)
    \/ StoreClusterId(h)
    \/ PushFiles(h)
    \/ UndoRepo(h)
    \/ \E res \in Resources : UndoObject(h, res)

Next == \E h \in Handlers : Step(h) \/ Crash(h)

Spec == Init /\ [][Next]_vars

-----------------------------------------------------------------------------
(***************************************************************************)
(* Properties                                                              *)
(***************************************************************************)

\* RollbackProvisionedRBAC deletes by name, yet whatever disappears from a
\* namespace was created by the request that deletes it, while that request is
\* rolling back: objects of earlier or concurrent creates are never its prey.
OnlyCreatorDeletes ==
    [][\A ns \in Namespaces, res \in Resources :
          /\ objects[ns][res] # Absent
          /\ objects'[ns][res] # objects[ns][res]
          => \E h \in Handlers : /\ objects[ns][res] = h
                                 /\ Ns(h) = ns
                                 /\ pc[h] = "undo"]_vars

\* A request whose owner is not its token's account names r: it fills and deletes
\* there what it did not create.
Strayed(r) == \E g \in Handlers : Misaddressed(g) /\ RepoName(g) = r

\* DeleteRepo and the writes that fill a repository go by name, yet a repository
\* only ever changes at the hands of a request that names it, and of the one that
\* created it as long as no misaddressed request names it: a create that meets an
\* existing repository leaves it alone, on its way out too.
OnlyCreatorTouchesRepo ==
    [][\A r \in RepoNames :
          repos[r].by # Absent /\ repos'[r] # repos[r]
          => \E h \in Handlers : /\ RepoName(h) = r
                                 /\ pc'[h] # pc[h]
                                 /\ repos[r].by = h \/ Strayed(r)]_vars

\* The push starts the CI workflow, so a repository holds files only once its
\* branch, topic, cluster id, credential and the expiry of that very credential
\* are in place.
Complete(repo) ==
    /\ {"branch", "topics", "clusterId"} \subseteq repo.has
    /\ repo.secret # Absent
    /\ repo.secret = repo.expireAt

PushedIsComplete ==
    \A r \in RepoNames : "files" \in repos[r].has => Complete(repos[r]) \/ Strayed(r)

\* A create that failed leaves neither objects nor a repository of its own,
\* unless it failed inside ProvisionRBAC or InitRepo (their rollback is deferred
\* only after they return) or one of its rollback deletes failed.  A misaddressed
\* one leaves the repository it made, because it deletes the one it named.
CleanFailureLeavesNothing ==
    \A h \in Handlers : pc[h] = "failed" /\ door[h] = {} =>
        /\ \A ns \in Namespaces, res \in Resources : objects[ns][res] # h
        /\ \A r \in RepoNames : repos[r].by = h => Misaddressed(h)

\* What a created function needs to deploy: the service account its token is
\* bound to, all three grants with current rules, and a complete repository.
Granted(h) ==
    /\ objects[Ns(h)]["sa"] = token[h]
    /\ \A res \in Resources : objects[Ns(h)][res] # Absent
    /\ Ns(h) \notin staleRole

Filled(h) ==
    /\ "files" \in repos[RepoName(h)].has
    /\ repos[RepoName(h)].by = h
    /\ repos[RepoName(h)].secret = token[h]

\* The rollback of another request in h's namespace has removed an object.
RolledBackBeside(h) == \E g \in undone \ {h} : Ns(g) = Ns(h)

\* 201 means deployable, for as long as no other create in the same namespace
\* removes an object in its rollback: a failed or crashed neighbour that removed
\* nothing takes nothing away.
DeployableUnlessRolledBack ==
    \A h \in Handlers : pc[h] = "created" =>
        /\ Granted(h) \/ RolledBackBeside(h)
        /\ Filled(h) \/ Strayed(RepoName(h))

\* Tests: a create whose steps all succeed is not rolled back, so what it created
\* or found in its namespace stays.  Concurrent creates break it.
CreatedStaysDeployable ==
    \A h \in Handlers : pc[h] = "created" /\ ~Strayed(RepoName(h)) => Granted(h) /\ Filled(h)

-----------------------------------------------------------------------------
(***************************************************************************)
(* The inductive invariants behind the properties.                         *)
(***************************************************************************)

\* What h reports as provisioned is still the object h created.
OwnedInv ==
    \A h \in Handlers : \A res \in provisioned[h] : objects[Ns(h)][res] = h

\* Steps at which h's repository exists, and how far it is filled at each.
AfterCreate == {"repoBranch", "repoTopics", "undoRepo", "created"} \cup FillSteps
AfterSecret == {"expireAt", "clusterId", "push", "created"}

\* What holds of the repository h addresses if every request that names it is at home.
FilledSoFar(h) ==
    LET repo == repos[RepoName(h)] IN
        /\ pc[h] \in AfterCreate => repo.by = h
        /\ pc[h] \in {"repoBranch", "repoTopics"} \cup FillSteps
               => "files" \notin repo.has
        /\ pc[h] \in {"repoTopics", "created"} \cup FillSteps => "branch" \in repo.has
        /\ pc[h] \in {"created"} \cup FillSteps => "topics" \in repo.has
        /\ pc[h] \in AfterSecret => repo.secret = token[h]
        /\ pc[h] \in AfterSecret \ {"expireAt"} => repo.expireAt = token[h]
        /\ pc[h] \in {"push", "created"} => "clusterId" \in repo.has
        /\ pc[h] = "created" => "files" \in repo.has

RepoInvOf(h) ==
    /\ pc[h] \in {"repoCreate", "repoBranch", "repoTopics", "created"} \cup FillSteps
           => token[h] # Absent
    /\ Strayed(RepoName(h)) \/ FilledSoFar(h)

RepoInv == \A h \in Handlers : RepoInvOf(h)

\* Everything that bears h's name is on its way to being undone, or a door says why not.
LeakInv ==
    /\ \A h \in Handlers, ns \in Namespaces, res \in Resources :
           objects[ns][res] = h
           => ns = Ns(h) /\ (res \in provisioned[h] \/ door[h] # {})
    /\ \A h \in Handlers, r \in RepoNames :
           repos[r].by = h
           => \/ r = Home(h) /\ Misaddressed(h)
              \/ r = RepoName(h) /\ (pc[h] \in AfterCreate \cup {"crashed"} \/ door[h] # {})
    /\ \A h \in Handlers :
           /\ pc[h] = "start" => provisioned[h] = {}
           /\ pc[h] = "failed" => provisioned[h] = {} \/ door[h] # {}

\* Steps that follow the provisioning of each object.
AfterIb == {"token"} \cup InitRepoSteps \cup FillSteps \cup {"created"}
AfterRb == AfterIb \cup {"ib"}
AfterRole == AfterRb \cup {"rb"}
AfterSa == AfterRole \cup {"role", "roleGet", "roleUpdate"}

GrantInvOf(h) ==
        /\ pc[h] \in AfterSa => objects[Ns(h)]["sa"] # Absent \/ RolledBackBeside(h)
        /\ pc[h] \in AfterRole => objects[Ns(h)]["role"] # Absent \/ RolledBackBeside(h)
        /\ pc[h] \in AfterRole => Ns(h) \notin staleRole
        /\ pc[h] \in AfterRb => objects[Ns(h)]["rb"] # Absent \/ RolledBackBeside(h)
        /\ pc[h] \in AfterIb => objects[Ns(h)]["ib"] # Absent \/ RolledBackBeside(h)
        /\ pc[h] \in AfterIb \ {"token"}
               => objects[Ns(h)]["sa"] = token[h] \/ RolledBackBeside(h)

GrantInv == \A h \in Handlers : GrantInvOf(h)

=============================================================================
