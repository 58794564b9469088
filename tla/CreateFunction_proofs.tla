------------------------ MODULE CreateFunction_proofs ------------------------
(***************************************************************************)
(* Proofs about CreateFunction for any number of concurrent requests,      *)
(* namespaces and repositories.                                            *)
(***************************************************************************)
EXTENDS CreateFunction, TLAPS

LEMMA StepNames ==
    /\ {"start", "token", "role", "roleGet", "roleUpdate", "rb", "ib", "repoCreate",
        "repoBranch", "repoTopics", "secret", "expireAt", "clusterId", "push",
        "undoRepo", "undo", "created", "failed", "crashed", "sa"} \subseteq Steps
    /\ Resources \subseteq Steps
    /\ \A res \in Resources : NextStep[res] \in Steps
BY DEF Steps, Resources, ProvisionSteps, InitRepoSteps, FillSteps, RollbackSteps, Ended,
       NextStep

LEMMA RequestParts ==
    \A r \in Requests : /\ r.ns \in Namespaces
                        /\ <<r.login, r.name>> \in RepoNames
                        /\ <<r.owner, r.name>> \in RepoNames
BY DEF Requests, RepoNames

LEMMA Addresses ==
    ASSUME TypeOK, NEW h \in Handlers
    PROVE  /\ Ns(h) \in Namespaces
           /\ Home(h) \in RepoNames /\ RepoName(h) \in RepoNames
BY RequestParts DEF TypeOK, Ns, Home, RepoName

\* A request that names its own account addresses the repository it creates.
LEMMA AtHome ==
    ASSUME NEW h \in Handlers
    PROVE  /\ Misaddressed(h) => Strayed(RepoName(h))
           /\ ~Misaddressed(h) => Home(h) = RepoName(h)
BY DEF Misaddressed, Strayed, Home, RepoName

\* The handlers' state is well formed: every step leaves it so.
THEOREM TypeCorrect == Spec => []TypeOK
<1>1. Init => TypeOK
  <2>. SUFFICES ASSUME Init PROVE TypeOK
    OBVIOUS
  <2>1. pc \in [Handlers -> Steps]
    BY StepNames DEF Init
  <2>2. repos \in [RepoNames -> Repo]
    BY DEF Init, EmptyRepo, Repo, Creators
  <2>3. objects \in [Namespaces -> [Resources -> Creators \cup {Absent}]]
    BY DEF Init, Creators
  <2>4. seenRole \in [Handlers -> RoleVersions]
    BY DEF Init, RoleVersions
  <2>5. QED
    BY <2>1, <2>2, <2>3, <2>4 DEF Init, TypeOK
<1>2. TypeOK /\ [Next]_vars => TypeOK'
  <2>. SUFFICES ASSUME TypeOK, [Next]_vars PROVE TypeOK'
    OBVIOUS
  <2>. USE DEF Goto
  <2>1. ASSUME NEW h \in Handlers, Begin(h) PROVE TypeOK'
    BY <2>1, StepNames DEF Begin, Refused, TypeOK, cluster, handlerData
  <2>2. ASSUME NEW h \in Handlers, NEW res \in Resources, CreateObject(h, res)
        PROVE  TypeOK'
    <3>1. Ns(h) \in Namespaces /\ h \in Creators
      BY Addresses DEF Creators
    <3>2. objects' \in [Namespaces -> [Resources -> Creators \cup {Absent}]]
      <4>1. objects' = [objects EXCEPT ![Ns(h)][res] = h] \/ objects' = objects
        BY <2>2 DEF CreateObject, AlreadyExists, cluster
      <4>2. [objects[Ns(h)] EXCEPT ![res] = h] \in [Resources -> Creators \cup {Absent}]
        BY <3>1 DEF TypeOK
      <4>3. QED
        BY <3>1, <4>1, <4>2 DEF TypeOK
    <3>3. pc' \in [Handlers -> Steps]
      BY <2>2, StepNames DEF CreateObject, AlreadyExists, ProvisionFails, TypeOK
    <3>4. staleRole' \in SUBSET Namespaces
      BY <2>2 DEF CreateObject, AlreadyExists, ProvisionFails, TypeOK, cluster
    <3>5. provisioned' \in [Handlers -> SUBSET Resources]
      BY <2>2 DEF CreateObject, AlreadyExists, ProvisionFails, TypeOK
    <3>6. door' \in [Handlers -> SUBSET Doors]
      BY <2>2 DEF CreateObject, AlreadyExists, ProvisionFails, TypeOK, CutShort, Doors
    <3>7. QED
      BY <2>2, <3>2, <3>3, <3>4, <3>5, <3>6 DEF CreateObject, TypeOK
  <2>3. ASSUME NEW h \in Handlers, GetRole(h) PROVE TypeOK'
    <3>1. objects[Ns(h)]["role"] \in Creators \cup {Absent}
      BY Addresses DEF TypeOK, Resources
    <3>2. RoleVersion(Ns(h)) \in RoleVersions
      BY <3>1 DEF RoleVersion, RoleVersions
    <3>3. door' \in [Handlers -> SUBSET Doors]
      BY <2>3 DEF GetRole, ProvisionFails, TypeOK, CutShort, Doors
    <3>4. pc' \in [Handlers -> Steps]
      BY <2>3, StepNames DEF GetRole, ProvisionFails, TypeOK
    <3>5. seenRole' \in [Handlers -> RoleVersions]
      BY <2>3, <3>2 DEF GetRole, TypeOK
    <3>6. provisioned' = provisioned
      BY <2>3 DEF GetRole, ProvisionFails
    <3>7. QED
      BY <2>3, <3>3, <3>4, <3>5, <3>6 DEF GetRole, TypeOK, cluster
  <2>4. ASSUME NEW h \in Handlers, UpdateRole(h) PROVE TypeOK'
    BY <2>4, StepNames DEF UpdateRole, ProvisionFails, TypeOK, CutShort, Doors
  <2>5. ASSUME NEW h \in Handlers, RequestToken(h) PROVE TypeOK'
    <3>1. objects[Ns(h)]["sa"] \in Creators \cup {Absent}
      BY Addresses DEF TypeOK, Resources
    <3>2. QED
      BY <2>5, <3>1, StepNames DEF RequestToken, TypeOK, cluster, UnwindRBAC
  <2>6. ASSUME NEW h \in Handlers, RepoCreate(h) PROVE TypeOK'
    <3>1. EmptyRepo(h) \in Repo
      BY DEF EmptyRepo, Repo, Creators
    <3>2. repos' \in [RepoNames -> Repo]
      BY <2>6, <3>1 DEF RepoCreate, RepoRefused, TypeOK
    <3>3. pc' \in [Handlers -> Steps]
      BY <2>6, StepNames DEF RepoCreate, RepoRefused, InitRepoFails, TypeOK, UnwindRBAC
    <3>4. door' \in [Handlers -> SUBSET Doors]
      BY <2>6 DEF RepoCreate, RepoRefused, InitRepoFails, TypeOK, CutShort, Doors
    <3>5. QED
      BY <2>6, <3>2, <3>3, <3>4 DEF RepoCreate, TypeOK, cluster, handlerData
  <2>7. ASSUME NEW h \in Handlers, NEW step \in Steps, NEW piece \in Pieces,
               NEW next \in Steps, InitPiece(h, step, piece, next)
        PROVE  TypeOK'
    <3>1. repos[RepoName(h)] \in Repo
      BY Addresses DEF TypeOK
    <3>2. [repos[RepoName(h)] EXCEPT !.has = @ \cup {piece}] \in Repo
      BY <3>1 DEF Repo
    <3>3. repos' \in [RepoNames -> Repo]
      BY <2>7, <3>2 DEF InitPiece, SetRepo, TypeOK
    <3>4. pc' \in [Handlers -> Steps]
      BY <2>7, StepNames DEF InitPiece, InitRepoFails, TypeOK, UnwindRBAC
    <3>5. door' \in [Handlers -> SUBSET Doors]
      BY <2>7 DEF InitPiece, InitRepoFails, TypeOK, CutShort, Doors
    <3>6. QED
      BY <2>7, <3>3, <3>4, <3>5 DEF InitPiece, TypeOK, cluster, handlerData
  <2>8. ASSUME NEW h \in Handlers, NEW step \in Steps, NEW filled \in Repo,
               NEW next \in Steps, Fill(h, step, filled, next)
        PROVE  TypeOK'
    <3>1. pc' \in [Handlers -> Steps]
      BY <2>8, StepNames DEF Fill, TypeOK
    <3>2. repos' \in [RepoNames -> Repo]
      BY <2>8 DEF Fill, SetRepo, TypeOK
    <3>3. QED
      BY <2>8, <3>1, <3>2 DEF Fill, TypeOK, cluster, handlerData
  <2>9. ASSUME NEW h \in Handlers,
               \/ StoreSecret(h) \/ StoreExpireAt(h)
               \/ StoreClusterId(h) \/ PushFiles(h)
        PROVE  TypeOK'
    <3>1. repos[RepoName(h)] \in Repo /\ token[h] \in Creators \cup {Absent}
      BY Addresses DEF TypeOK
    <3>2. /\ [repos[RepoName(h)] EXCEPT !.secret = token[h]] \in Repo
          /\ [repos[RepoName(h)] EXCEPT !.expireAt = token[h]] \in Repo
          /\ [repos[RepoName(h)] EXCEPT !.has = @ \cup {"clusterId"}] \in Repo
          /\ [repos[RepoName(h)] EXCEPT !.has = @ \cup {"files"}] \in Repo
      BY <3>1 DEF Repo, Pieces
    <3>3. QED
      BY <2>8, <2>9, <3>2, StepNames
         DEF StoreSecret, StoreExpireAt, StoreClusterId, PushFiles
  <2>10. ASSUME NEW h \in Handlers, RenameBranch(h) \/ ReplaceAllTopics(h)
         PROVE  TypeOK'
    <3>1. "branch" \in Pieces /\ "topics" \in Pieces
      BY DEF Pieces
    <3>2. QED
      BY <2>7, <2>10, <3>1, StepNames DEF RenameBranch, ReplaceAllTopics
  <2>11. ASSUME NEW h \in Handlers, UndoRepo(h) PROVE TypeOK'
    <3>1. EmptyRepo(Absent) \in Repo
      BY DEF EmptyRepo, Repo
    <3>2. repos' \in [RepoNames -> Repo]
      BY <2>11, <3>1 DEF UndoRepo, SetRepo, TypeOK
    <3>3. pc' \in [Handlers -> Steps] /\ door' \in [Handlers -> SUBSET Doors]
      BY <2>11, StepNames DEF UndoRepo, TypeOK, UnwindRBAC, CutShort, Doors
    <3>4. QED
      BY <2>11, <3>2, <3>3 DEF UndoRepo, TypeOK, cluster, handlerData
  <2>12. ASSUME NEW h \in Handlers, NEW res \in Resources, UndoObject(h, res)
         PROVE  TypeOK'
    <3>1. Ns(h) \in Namespaces
      BY Addresses
    <3>2. objects' \in [Namespaces -> [Resources -> Creators \cup {Absent}]]
      <4>1. objects' = [objects EXCEPT ![Ns(h)][res] = Absent] \/ objects' = objects
        BY <2>12 DEF UndoObject, cluster
      <4>2. [objects[Ns(h)] EXCEPT ![res] = Absent] \in [Resources -> Creators \cup {Absent}]
        BY <3>1 DEF TypeOK
      <4>3. QED
        BY <3>1, <4>1, <4>2 DEF TypeOK
    <3>3. QED
      BY <2>12, <3>2, StepNames DEF UndoObject, TypeOK, CutShort, Doors, cluster
  <2>13. ASSUME NEW h \in Handlers, Crash(h) PROVE TypeOK'
    BY <2>13, StepNames DEF Crash, TypeOK, cluster, handlerData
  <2>14. CASE UNCHANGED vars
    BY <2>14 DEF vars, TypeOK
  <2>15. QED
    BY <2>1, <2>2, <2>3, <2>4, <2>5, <2>6, <2>9, <2>10, <2>11, <2>12, <2>13, <2>14
       DEF Next, Step
<1>3. QED
  BY <1>1, <1>2, PTL DEF Spec

-----------------------------------------------------------------------------
\* Requests are immutable, and only two kinds of step change what a request
\* reports as provisioned or who owns an object.
LEMMA RequestsFixed == [Next]_vars => req' = req
BY ZenonT(30) DEF Next, Step, vars, Begin, Refused, CreateObject, GetRole, UpdateRole, RequestToken,
       RepoCreate, RenameBranch, ReplaceAllTopics, InitPiece, StoreSecret,
       StoreExpireAt, StoreClusterId, PushFiles, Fill, UndoRepo, UndoObject, Crash

LEMMA ObjectSteps ==
    [Next]_vars =>
        \/ \E h \in Handlers, res \in Resources : CreateObject(h, res)
        \/ \E h \in Handlers, res \in Resources : UndoObject(h, res)
        \/ UNCHANGED <<objects, provisioned>>
BY DEF Next, Step, vars, Begin, Refused, GetRole, UpdateRole, RequestToken, ProvisionFails,
       RepoCreate, RenameBranch, ReplaceAllTopics, InitPiece, StoreSecret,
       StoreExpireAt, StoreClusterId, PushFiles, Fill, UndoRepo, Crash,
       cluster, handlerData

\* The three ways CreateObject can go, as they bear on ownership.
LEMMA CreateObjectEffect ==
    ASSUME TypeOK, NEW h \in Handlers, NEW res \in Resources, CreateObject(h, res)
    PROVE  \/ /\ objects[Ns(h)][res] = Absent
              /\ objects' = [objects EXCEPT ![Ns(h)][res] = h]
              /\ \/ provisioned' = [provisioned EXCEPT ![h] = @ \cup {res}]
                 \/ provisioned' = provisioned
           \/ UNCHANGED <<objects, provisioned>>
BY DEF CreateObject, AlreadyExists, ProvisionFails, cluster

LEMMA UndoObjectEffect ==
    ASSUME TypeOK, NEW h \in Handlers, NEW res \in Resources, UndoObject(h, res)
    PROVE  /\ res \in provisioned[h] /\ pc[h] = "undo"
           /\ provisioned' = [provisioned EXCEPT ![h] = @ \ {res}]
           /\ \/ objects' = [objects EXCEPT ![Ns(h)][res] = Absent]
              \/ objects' = objects
BY DEF UndoObject, cluster

\* Reading back an object after one of them changed hands.
LEMMA ObjectsRead ==
    ASSUME TypeOK, NEW ns \in Namespaces, NEW res \in Resources, NEW who,
           objects' = [objects EXCEPT ![ns][res] = who],
           NEW m \in Namespaces, NEW r \in Resources
    PROVE  objects'[m][r] = IF m = ns /\ r = res THEN who ELSE objects[m][r]
BY DEF TypeOK

LEMMA OwnedStep == TypeOK /\ OwnedInv /\ [Next]_vars => OwnedInv'
<1>. SUFFICES ASSUME TypeOK, OwnedInv, [Next]_vars,
                     NEW g \in Handlers, NEW r \in provisioned'[g]
              PROVE  objects'[Ns(g)'][r] = g
  BY DEF OwnedInv
<1>1. Ns(g)' = Ns(g) /\ \A h \in Handlers : Ns(h) \in Namespaces
  BY RequestsFixed, Addresses DEF Ns
<1>2. ASSUME NEW h \in Handlers, NEW res \in Resources, CreateObject(h, res)
      PROVE  objects'[Ns(g)][r] = g
  <2>1. CASE r \in provisioned[g]
    <3>1. objects[Ns(g)][r] = g /\ g # Absent
      BY <2>1, CreateFunctionAssumption DEF OwnedInv
    <3>2. r \in Resources
      BY <2>1 DEF TypeOK
    <3>3. CASE UNCHANGED objects
      BY <3>1, <3>3
    <3>4. CASE /\ objects[Ns(h)][res] = Absent
               /\ objects' = [objects EXCEPT ![Ns(h)][res] = h]
      BY <1>1, <3>1, <3>2, <3>4, ObjectsRead
    <3>5. QED
      BY <1>2, <3>3, <3>4, CreateObjectEffect
  <2>2. CASE r \notin provisioned[g]
    <3>1. g = h /\ r = res /\ objects' = [objects EXCEPT ![Ns(h)][res] = h]
      BY <1>2, <2>2, CreateObjectEffect DEF TypeOK
    <3>2. QED
      BY <1>1, <3>1 DEF TypeOK
  <2>3. QED
    BY <2>1, <2>2
<1>3. ASSUME NEW h \in Handlers, NEW res \in Resources, UndoObject(h, res)
      PROVE  objects'[Ns(g)][r] = g
  <2>1. r \in provisioned[g] /\ (g = h => r # res)
    BY <1>3, UndoObjectEffect DEF TypeOK
  <2>2. objects[Ns(g)][r] = g /\ objects[Ns(h)][res] = h
    BY <1>3, <2>1, UndoObjectEffect DEF OwnedInv
  <2>3. QED
    <3>1. r \in Resources
      BY <2>1 DEF TypeOK
    <3>2. CASE UNCHANGED objects
      BY <2>2, <3>2
    <3>3. CASE objects' = [objects EXCEPT ![Ns(h)][res] = Absent]
      BY <1>1, <2>1, <2>2, <3>1, <3>3, ObjectsRead
    <3>4. QED
      BY <1>3, <3>2, <3>3, UndoObjectEffect
<1>4. CASE UNCHANGED <<objects, provisioned>>
  BY <1>1, <1>4 DEF OwnedInv
<1>5. QED
  BY <1>1, <1>2, <1>3, <1>4, ObjectSteps

LEMMA OwnedCorrect == Spec => []OwnedInv
<1>1. Init => OwnedInv
  BY DEF Init, OwnedInv
<1>2. QED
  BY <1>1, OwnedStep, TypeCorrect, PTL DEF Spec

\* RollbackProvisionedRBAC never deletes an object of an earlier or concurrent
\* create, although it deletes by name.
THEOREM RollbackDeletesOwn == Spec => OnlyCreatorDeletes
<1>. DEFINE A == \A ns \in Namespaces, res \in Resources :
          /\ objects[ns][res] # Absent
          /\ objects'[ns][res] # objects[ns][res]
          => \E h \in Handlers : /\ objects[ns][res] = h
                                 /\ Ns(h) = ns
                                 /\ pc[h] = "undo"
<1>1. TypeOK /\ OwnedInv /\ [Next]_vars => A
  <2>. SUFFICES ASSUME TypeOK, OwnedInv, [Next]_vars,
                       NEW ns \in Namespaces, NEW r \in Resources,
                       objects[ns][r] # Absent, objects'[ns][r] # objects[ns][r]
                PROVE  \E h \in Handlers : /\ objects[ns][r] = h
                                           /\ Ns(h) = ns
                                           /\ pc[h] = "undo"
    OBVIOUS
  <2>1. \A h \in Handlers : Ns(h) \in Namespaces
    BY Addresses
  <2>2. ASSUME NEW h \in Handlers, NEW res \in Resources, CreateObject(h, res)
        PROVE  FALSE
    BY ZenonT(30), <2>1, <2>2, CreateObjectEffect DEF TypeOK
  <2>3. ASSUME NEW h \in Handlers, NEW res \in Resources, UndoObject(h, res)
        PROVE  objects[ns][r] = h /\ Ns(h) = ns /\ pc[h] = "undo"
    <3>1. Ns(h) = ns /\ res = r
      BY <2>1, <2>3, UndoObjectEffect DEF TypeOK
    <3>2. QED
      BY <2>3, <3>1, UndoObjectEffect DEF OwnedInv
  <2>4. QED
    BY <2>2, <2>3, ObjectSteps
<1>2. TypeOK /\ OwnedInv /\ [Next]_vars => [A]_vars
  BY <1>1
<1>3. Spec => [][A]_vars
  BY <1>2, TypeCorrect, OwnedCorrect, PTL DEF Spec
<1>4. QED
  BY <1>3 DEF OnlyCreatorDeletes

-----------------------------------------------------------------------------
\* What a step of one request does to GitHub: nothing, make the repository at home,
\* or change the one it names.
LEMMA RepoEffect ==
    ASSUME TypeOK, NEW h \in Handlers, Step(h) \/ Crash(h)
    PROVE  \/ repos' = repos
           \/ /\ RepoCreate(h)
              /\ pc'[h] # pc[h]
              /\ repos[Home(h)].by = Absent
              /\ repos' = [repos EXCEPT ![Home(h)] = EmptyRepo(h)]
           \/ /\ pc[h] \in AfterCreate
              /\ pc'[h] # pc[h]
              /\ \E repo : /\ repos' = [repos EXCEPT ![RepoName(h)] = repo]
                           /\ repo.by \in {repos[RepoName(h)].by, Absent}
<1>. DEFINE Changes == \E repo : /\ repos' = [repos EXCEPT ![RepoName(h)] = repo]
                                 /\ repo.by \in {repos[RepoName(h)].by, Absent}
<1>. USE DEF TypeOK, SetRepo, Goto, AfterCreate, FillSteps
<1>1. repos[RepoName(h)] \in Repo
  BY Addresses
<1>2. CASE RepoCreate(h)
  BY <1>2 DEF RepoCreate, RepoRefused, InitRepoFails, UnwindRBAC
<1>3. ASSUME NEW step \in AfterCreate, NEW piece, NEW next,
             next # step, step # "failed", step # "undo", InitPiece(h, step, piece, next)
      PROVE  repos' = repos \/ (pc'[h] # pc[h] /\ Changes)
  <2>1. repos' = repos \/ repos' = [repos EXCEPT ![RepoName(h)] =
                                       [repos[RepoName(h)] EXCEPT !.has = @ \cup {piece}]]
    BY <1>3 DEF InitPiece
  <2>2. [repos[RepoName(h)] EXCEPT !.has = @ \cup {piece}].by = repos[RepoName(h)].by
    BY <1>1 DEF Repo
  <2>3. pc'[h] # pc[h]
    BY <1>3 DEF InitPiece, InitRepoFails, UnwindRBAC
  <2>4. QED
    BY <2>1, <2>2, <2>3
<1>4. CASE RenameBranch(h) \/ ReplaceAllTopics(h)
  <2>1. pc[h] \in AfterCreate
    BY <1>4 DEF RenameBranch, ReplaceAllTopics, InitPiece
  <2>2. QED
    BY <1>3, <1>4, <2>1 DEF RenameBranch, ReplaceAllTopics
<1>5. ASSUME NEW filled, filled.by = repos[RepoName(h)].by, NEW step \in FillSteps, NEW next,
             next # step, Fill(h, step, filled, next)
      PROVE  repos' = repos \/ (pc[h] \in AfterCreate /\ pc'[h] # pc[h] /\ Changes)
  <2>1. pc[h] = step /\ pc'[h] \in {next, "undoRepo"}
    BY <1>5 DEF Fill
  <2>2. repos' = repos \/ repos' = [repos EXCEPT ![RepoName(h)] = filled]
    BY <1>5 DEF Fill
  <2>3. QED
    BY <1>5, <2>1, <2>2
<1>6. CASE StoreSecret(h) \/ StoreExpireAt(h) \/ StoreClusterId(h) \/ PushFiles(h)
  <2>1. /\ [repos[RepoName(h)] EXCEPT !.secret = token[h]].by = repos[RepoName(h)].by
        /\ [repos[RepoName(h)] EXCEPT !.expireAt = token[h]].by = repos[RepoName(h)].by
        /\ [repos[RepoName(h)] EXCEPT !.has = @ \cup {"clusterId"}].by = repos[RepoName(h)].by
        /\ [repos[RepoName(h)] EXCEPT !.has = @ \cup {"files"}].by = repos[RepoName(h)].by
    BY <1>1 DEF Repo
  <2>2. QED
    BY <1>5, <1>6, <2>1 DEF StoreSecret, StoreExpireAt, StoreClusterId, PushFiles
<1>7. CASE UndoRepo(h)
  BY <1>7 DEF UndoRepo, UnwindRBAC, EmptyRepo
<1>8. QED
  BY <1>2, <1>4, <1>6, <1>7
     DEF Step, Crash, Begin, Refused, CreateObject, GetRole, UpdateRole, RequestToken, UndoObject

\* A step of one request leaves the control state of every other request alone,
\* and its repository too if nobody strays into it.
LEMMA OthersKept ==
    ASSUME TypeOK, RepoInv, NEW h \in Handlers, Step(h) \/ Crash(h),
           NEW g \in Handlers \ {h}
    PROVE  /\ pc'[g] = pc[g]
           /\ token'[g] = token[g]
           /\ pc[g] \in AfterCreate /\ ~Strayed(RepoName(g))
                  => repos'[RepoName(g)] = repos[RepoName(g)]
<1>. USE DEF Goto
<1>1. pc'[g] = pc[g]
  BY DEF Step, Crash, TypeOK, Begin, Refused, CreateObject, AlreadyExists, ProvisionFails, GetRole,
         UpdateRole, RequestToken, RepoCreate, RepoRefused, InitRepoFails, RenameBranch,
         ReplaceAllTopics, InitPiece, StoreSecret, StoreExpireAt, StoreClusterId,
         PushFiles, Fill, UndoRepo, UndoObject
<1>2. token'[g] = token[g]
  BY DEF Step, Crash, TypeOK, Begin, Refused, CreateObject, GetRole, UpdateRole, RequestToken,
         RepoCreate, RenameBranch, ReplaceAllTopics, InitPiece, StoreSecret,
         StoreExpireAt, StoreClusterId, PushFiles, Fill, UndoRepo, UndoObject, handlerData
<1>3. ASSUME pc[g] \in AfterCreate, ~Strayed(RepoName(g))
      PROVE  /\ repos[RepoName(g)].by = g /\ g # Absent
             /\ pc[h] \in AfterCreate => RepoName(h) # RepoName(g)
  <2>1. repos[RepoName(g)].by = g
    BY <1>3 DEF RepoInv, RepoInvOf, FilledSoFar
  <2>2. pc[h] \in AfterCreate /\ RepoName(h) = RepoName(g) => repos[RepoName(g)].by = h
    BY <1>3 DEF RepoInv, RepoInvOf, FilledSoFar
  <2>3. QED
    BY <2>1, <2>2, CreateFunctionAssumption
<1>4. RepoName(g) \in RepoNames
  BY Addresses DEF TypeOK
<1>5. QED
  BY <1>1, <1>2, <1>3, <1>4, RepoEffect DEF TypeOK

\* Requests are immutable: so are their addresses.
LEMMA AddressesFixed ==
    ASSUME [Next]_vars, NEW h \in Handlers
    PROVE  /\ RepoName(h)' = RepoName(h) /\ Home(h)' = Home(h)
           /\ Misaddressed(h)' = Misaddressed(h)
           /\ \A r : Strayed(r)' = Strayed(r)
BY RequestsFixed DEF RepoName, Home, Misaddressed, Strayed

LEMMA RepoStep == TypeOK /\ RepoInv /\ [Next]_vars => RepoInv'
<1>. SUFFICES ASSUME TypeOK, RepoInv, [Next]_vars, NEW g \in Handlers
              PROVE  RepoInvOf(g)'
  BY DEF RepoInv
<1>1. /\ RepoInvOf(g)
      /\ RepoName(g)' = RepoName(g) /\ RepoName(g) \in RepoNames
      /\ Strayed(RepoName(g))' = Strayed(RepoName(g))
  BY AddressesFixed, Addresses DEF RepoInv
<1>2. ASSUME FilledSoFar(g) => FilledSoFar(g)',
             pc'[g] = pc[g], token'[g] = token[g]
      PROVE  RepoInvOf(g)'
  BY <1>1, <1>2 DEF RepoInvOf
<1>3. CASE UNCHANGED vars
  BY <1>1, <1>3 DEF vars, RepoInvOf, FilledSoFar
<1>4. ASSUME NEW h \in Handlers \ {g}, Step(h) \/ Crash(h)
      PROVE  RepoInvOf(g)'
  <2>1. /\ pc'[g] = pc[g]
        /\ token'[g] = token[g]
        /\ pc[g] \in AfterCreate /\ ~Strayed(RepoName(g))
               => repos'[RepoName(g)] = repos[RepoName(g)]
    BY <1>4, OthersKept
  <2>2. QED
    BY <1>1, <2>1 DEF RepoInvOf, FilledSoFar, AfterCreate, AfterSecret, FillSteps
<1>5. ASSUME Step(g) \/ Crash(g)
      PROVE  RepoInvOf(g)'
  <2>. DEFINE HasToken == {"repoCreate", "repoBranch", "repoTopics", "created"} \cup FillSteps
  <2>1. pc'[g] \in HasToken => token'[g] # Absent
    <3>. USE <1>1 DEF Goto, TypeOK, RepoInvOf, FillSteps
    <3>1. CASE \/ Begin(g) \/ GetRole(g) \/ UpdateRole(g) \/ Crash(g) \/ UndoRepo(g)
               \/ \E res \in Resources : CreateObject(g, res) \/ UndoObject(g, res)
      BY <3>1 DEF Begin, Refused, GetRole, UpdateRole, Crash, CreateObject, UndoObject, UndoRepo,
                  UnwindRBAC, AlreadyExists, ProvisionFails, Resources, NextStep
    <3>2. CASE RequestToken(g)
      BY <3>2 DEF RequestToken, UnwindRBAC
    <3>3. CASE \/ RepoCreate(g) \/ RenameBranch(g) \/ ReplaceAllTopics(g)
               \/ StoreSecret(g) \/ StoreExpireAt(g) \/ StoreClusterId(g) \/ PushFiles(g)
      BY <3>3 DEF RepoCreate, RenameBranch, ReplaceAllTopics, InitPiece, StoreSecret,
                  StoreExpireAt, StoreClusterId, PushFiles, Fill, handlerData
    <3>4. QED
      BY <1>5, <3>1, <3>2, <3>3 DEF Step
  <2>2. CASE Strayed(RepoName(g))
    BY <1>1, <2>1, <2>2 DEF RepoInvOf
  <2>3. ASSUME ~Strayed(RepoName(g))
        PROVE  FilledSoFar(g)'
    <3>. USE <1>1, <2>3 DEF Goto, TypeOK, RepoInvOf, FilledSoFar, AfterCreate, AfterSecret, FillSteps
    <3>1. CASE \/ Begin(g) \/ GetRole(g) \/ UpdateRole(g) \/ Crash(g)
               \/ \E res \in Resources : CreateObject(g, res) \/ UndoObject(g, res)
      BY <3>1 DEF Begin, Refused, GetRole, UpdateRole, Crash, CreateObject, UndoObject,
                  AlreadyExists, ProvisionFails, Resources, NextStep
    <3>2. CASE RequestToken(g)
      BY <3>2 DEF RequestToken, UnwindRBAC
    <3>3. CASE RepoCreate(g)
      BY <3>3, AtHome DEF RepoCreate, RepoRefused, InitRepoFails, UnwindRBAC, EmptyRepo,
                  handlerData
    <3>4. repos[RepoName(g)] \in Repo
      OBVIOUS
    <3>5. CASE RenameBranch(g)
      BY <3>4, <3>5 DEF RenameBranch, InitPiece, InitRepoFails, UnwindRBAC, SetRepo, Repo,
                  handlerData
    <3>6. CASE ReplaceAllTopics(g)
      BY <3>4, <3>6 DEF ReplaceAllTopics, InitPiece, InitRepoFails, UnwindRBAC, SetRepo,
                  Repo, handlerData
    <3>7. CASE StoreSecret(g)
      BY <3>4, <3>7 DEF StoreSecret, Fill, SetRepo, Repo, handlerData
    <3>8. CASE StoreExpireAt(g)
      BY <3>4, <3>8 DEF StoreExpireAt, Fill, SetRepo, Repo, handlerData
    <3>9. CASE StoreClusterId(g)
      BY <3>4, <3>9 DEF StoreClusterId, Fill, SetRepo, Repo, handlerData
    <3>10. CASE PushFiles(g)
      BY <3>4, <3>10 DEF PushFiles, Fill, SetRepo, Repo, handlerData
    <3>11. CASE UndoRepo(g)
      BY <3>11 DEF UndoRepo, UnwindRBAC
    <3>12. QED
      BY <1>5, <3>1, <3>2, <3>3, <3>5, <3>6, <3>7, <3>8, <3>9, <3>10, <3>11 DEF Step
  <2>4. QED
    BY <2>1, <2>2, <2>3 DEF RepoInvOf
<1>6. QED
  BY <1>3, <1>4, <1>5 DEF Next

LEMMA RepoCorrect == Spec => []RepoInv
<1>1. Init => RepoInv
  BY DEF Init, RepoInv, RepoInvOf, FilledSoFar, AfterCreate, AfterSecret, FillSteps
<1>2. QED
  BY <1>1, RepoStep, TypeCorrect, PTL DEF Spec

\* A create never alters or deletes a repository it did not create, and one that
\* a misaddressed request names is altered only by requests that name it.
THEOREM ReposOfOthersKept == Spec => OnlyCreatorTouchesRepo
<1>. DEFINE A == \A r \in RepoNames :
          repos[r].by # Absent /\ repos'[r] # repos[r]
          => \E h \in Handlers : /\ RepoName(h) = r
                                 /\ pc'[h] # pc[h]
                                 /\ repos[r].by = h \/ Strayed(r)
<1>1. TypeOK /\ RepoInv /\ [Next]_vars => A
  <2>. SUFFICES ASSUME TypeOK, RepoInv, NEW h \in Handlers, Step(h) \/ Crash(h),
                       NEW r \in RepoNames, repos[r].by # Absent, repos'[r] # repos[r]
                PROVE  /\ RepoName(h) = r
                       /\ pc'[h] # pc[h]
                       /\ repos[r].by = h \/ Strayed(r)
    BY DEF Next, vars
  <2>1. RepoName(h) = r /\ pc'[h] # pc[h] /\ pc[h] \in AfterCreate
    BY RepoEffect DEF TypeOK
  <2>2. QED
    BY <2>1 DEF RepoInv, RepoInvOf, FilledSoFar
<1>2. TypeOK /\ RepoInv /\ [Next]_vars => [A]_vars
  BY <1>1
<1>3. Spec => [][A]_vars
  BY <1>2, TypeCorrect, RepoCorrect, PTL DEF Spec
<1>4. QED
  BY <1>3 DEF OnlyCreatorTouchesRepo

\* Files reach a repository last: whatever CI run the push starts finds its credential.
THEOREM PushedComplete == Spec => []PushedIsComplete
<1>1. Init => PushedIsComplete
  BY DEF Init, PushedIsComplete, EmptyRepo
<1>2. TypeOK /\ RepoInv /\ PushedIsComplete /\ [Next]_vars => PushedIsComplete'
  <2>. SUFFICES ASSUME TypeOK, RepoInv, PushedIsComplete, [Next]_vars,
                       NEW r \in RepoNames, "files" \in repos'[r].has, ~Strayed(r)'
                PROVE  Complete(repos'[r])
    BY DEF PushedIsComplete, Complete
  <2>1. Handlers = {} \/ ~Strayed(r)
    BY AddressesFixed
  <2>2. CASE repos'[r] = repos[r]
    BY <2>2, RequestsFixed DEF PushedIsComplete, Strayed, Misaddressed, RepoName
  <2>3. ASSUME NEW h \in Handlers, Step(h) \/ Crash(h), repos'[r] # repos[r]
        PROVE  Complete(repos'[r])
    <3>. USE <2>3 DEF TypeOK, SetRepo
    <3>1. repos[r] \in Repo
      OBVIOUS
    <3>2. CASE RepoCreate(h)
      BY <3>2 DEF RepoCreate, RepoRefused, EmptyRepo
    <3>3. ASSUME ~RepoCreate(h)
          PROVE  r = RepoName(h) /\ FilledSoFar(h)
      BY <2>1, <3>3, RepoEffect DEF RepoInv, RepoInvOf
    <3>4. pc[h] \in {"push"} => token[h] # Absent
      BY DEF RepoInv, RepoInvOf, FillSteps
    <3>5. CASE PushFiles(h)
      BY <3>1, <3>3, <3>4, <3>5
         DEF PushFiles, RepoCreate, Fill, Complete, Repo, FilledSoFar, FillSteps, AfterSecret
    <3>6. CASE UndoRepo(h)
      BY <3>3, <3>6 DEF UndoRepo, RepoCreate, EmptyRepo
    <3>7. CASE RenameBranch(h) \/ ReplaceAllTopics(h)
      BY <3>1, <3>3, <3>7
         DEF RenameBranch, ReplaceAllTopics, RepoCreate, InitPiece, Repo, FilledSoFar
    <3>8. CASE StoreSecret(h) \/ StoreExpireAt(h) \/ StoreClusterId(h)
      BY <3>1, <3>3, <3>8
         DEF StoreSecret, StoreExpireAt, StoreClusterId, RepoCreate, Fill, Repo, FilledSoFar,
             FillSteps
    <3>9. QED
      BY <3>2, <3>5, <3>6, <3>7, <3>8
         DEF Step, Crash, Begin, Refused, CreateObject, GetRole, UpdateRole, RequestToken, UndoObject
  <2>4. QED
    BY <2>2, <2>3 DEF Next, vars
<1>3. QED
  BY <1>1, <1>2, TypeCorrect, RepoCorrect, PTL DEF Spec

-----------------------------------------------------------------------------
\* An object that changes hands in a create step, or in a rollback step.
LEMMA CreatedHere ==
    ASSUME TypeOK, NEW h \in Handlers, NEW res \in Resources, CreateObject(h, res),
           NEW ns \in Namespaces, NEW r \in Resources, objects'[ns][r] # objects[ns][r]
    PROVE  /\ ns = Ns(h) /\ r = res
           /\ objects[ns][r] = Absent /\ objects'[ns][r] = h
           /\ r \in provisioned'[h] \/ door'[h] # {}
<1>1. Ns(h) \in Namespaces
  BY Addresses
<1>2. objects' = [objects EXCEPT ![Ns(h)][res] = h] /\ objects[Ns(h)][res] = Absent
  BY CreateObjectEffect
<1>3. ns = Ns(h) /\ r = res /\ objects'[ns][r] = h
  BY <1>1, <1>2, ObjectsRead
<1>4. res \in provisioned'[h] \/ door'[h] # {}
  <2>1. provisioned' = [provisioned EXCEPT ![h] = @ \cup {res}] \/ CutShort(h, "provision")
    BY <1>2 DEF CreateObject, AlreadyExists, ProvisionFails
  <2>2. QED
    BY <2>1 DEF CutShort, TypeOK
<1>5. QED
  BY <1>2, <1>3, <1>4

LEMMA UndoneHere ==
    ASSUME TypeOK, NEW h \in Handlers, NEW res \in Resources, UndoObject(h, res),
           NEW ns \in Namespaces, NEW r \in Resources
    PROVE  /\ \/ objects'[ns][r] = objects[ns][r]
              \/ ns = Ns(h) /\ r = res /\ objects'[ns][r] = Absent
           /\ ns = Ns(h) /\ r = res => objects'[ns][r] = Absent \/ door'[h] # {}
<1>1. Ns(h) \in Namespaces
  BY Addresses
<1>2. CASE objects' = [objects EXCEPT ![Ns(h)][res] = Absent]
  <2>1. objects'[ns][r] = IF ns = Ns(h) /\ r = res THEN Absent ELSE objects[ns][r]
    <3>1. /\ DOMAIN objects = Namespaces
          /\ \A m \in Namespaces : DOMAIN objects[m] = Resources
      BY DEF TypeOK
    <3>2. objects'[ns] = IF ns = Ns(h) THEN [objects[ns] EXCEPT ![res] = Absent]
                                       ELSE objects[ns]
      BY <1>1, <1>2, <3>1
    <3>3. QED
      BY <3>1, <3>2
  <2>2. QED
    BY <2>1
<1>3. CASE objects' = objects /\ CutShort(h, "delete")
  BY <1>3 DEF CutShort, TypeOK
<1>4. QED
  BY <1>2, <1>3 DEF UndoObject, cluster

\* Clean-ups cut short are never forgotten.
LEMMA DoorSteps ==
    ASSUME TypeOK, [Next]_vars, NEW h \in Handlers
    PROVE  door[h] \subseteq door'[h]
<1>1. UNCHANGED door \/ \E g \in Handlers, how \in Doors : CutShort(g, how)
  BY ZenonT(30) DEF Next, vars, Step, Crash, Begin, Refused, CreateObject, AlreadyExists, ProvisionFails, GetRole,
         UpdateRole, RequestToken, RepoCreate, RepoRefused, InitRepoFails, RenameBranch,
         ReplaceAllTopics, InitPiece, StoreSecret, StoreExpireAt, StoreClusterId,
         PushFiles, Fill, UndoRepo, UndoObject, Doors
<1>2. QED
  BY <1>1 DEF CutShort, TypeOK

\* A step hands a repository to its own request, takes it away, or keeps its owner.
LEMMA RepoOwnerSteps ==
    ASSUME TypeOK, NEW h \in Handlers, Step(h) \/ Crash(h), NEW r \in RepoNames
    PROVE  repos'[r].by \in {repos[r].by, h, Absent}
BY RepoEffect DEF TypeOK, EmptyRepo

LEMMA LeakStep == TypeOK /\ RepoInv /\ LeakInv /\ [Next]_vars => LeakInv'
<1>. SUFFICES ASSUME TypeOK, RepoInv, LeakInv, [Next]_vars PROVE LeakInv'
  OBVIOUS
<1>1. /\ \A h \in Handlers : /\ Ns(h)' = Ns(h) /\ Ns(h) \in Namespaces
                             /\ RepoName(h)' = RepoName(h) /\ RepoName(h) \in RepoNames
                             /\ Home(h)' = Home(h) /\ Misaddressed(h)' = Misaddressed(h)
                             /\ h # Absent
  BY RequestsFixed, AddressesFixed, Addresses, CreateFunctionAssumption DEF Ns
<1>2. \A h \in Handlers : door[h] \subseteq door'[h]
  BY DoorSteps
<1>3. ASSUME NEW h \in Handlers, NEW ns \in Namespaces, NEW res \in Resources,
             objects'[ns][res] = h
      PROVE  ns = Ns(h) /\ (res \in provisioned'[h] \/ door'[h] # {})
  <2>1. CASE objects[ns][res] = h /\ (res \in provisioned'[h] \/ res \notin provisioned[h])
    BY <1>2, <2>1 DEF LeakInv
  <2>2. ASSUME NEW g \in Handlers, NEW r \in Resources, CreateObject(g, r)
        PROVE  ns = Ns(h) /\ (res \in provisioned'[h] \/ door'[h] # {})
    <3>1. CASE objects'[ns][res] # objects[ns][res]
      BY <1>3, <2>2, <3>1, CreatedHere
    <3>2. provisioned[h] \subseteq provisioned'[h]
      <4>1. \/ provisioned' = [provisioned EXCEPT ![g] = @ \cup {r}]
            \/ provisioned' = provisioned
        BY <2>2, CreateObjectEffect
      <4>2. QED
        BY <4>1 DEF TypeOK
    <3>3. QED
      BY <1>3, <2>1, <3>1, <3>2
  <2>3. ASSUME NEW g \in Handlers, NEW r \in Resources, UndoObject(g, r)
        PROVE  ns = Ns(h) /\ (res \in provisioned'[h] \/ door'[h] # {})
    <3>1. objects[ns][res] = h
      BY <1>1, <1>3, <2>3, UndoneHere
    <3>2. CASE g = h /\ r = res
      <4>1. ns = Ns(h)
        BY <3>1 DEF LeakInv
      <4>2. QED
        BY <1>1, <1>3, <2>3, <3>2, <4>1, UndoneHere
    <3>3. CASE ~(g = h /\ r = res)
      <4>1. res \in provisioned'[h] \/ res \notin provisioned[h]
        BY <2>3, <3>3, UndoObjectEffect DEF TypeOK
      <4>2. QED
        BY <2>1, <3>1, <4>1
    <3>4. QED
      BY <3>2, <3>3
  <2>4. CASE UNCHANGED <<objects, provisioned>>
    BY <1>3, <2>1, <2>4
  <2>5. QED
    BY <2>2, <2>3, <2>4, ObjectSteps
<1>4. ASSUME NEW h \in Handlers, NEW r \in RepoNames, repos'[r].by = h
      PROVE  \/ r = Home(h) /\ Misaddressed(h)
             \/ r = RepoName(h) /\ (pc'[h] \in AfterCreate \cup {"crashed"} \/ door'[h] # {})
  <2>. DEFINE Kept == \/ r = Home(h) /\ Misaddressed(h)
                      \/ r = RepoName(h) /\ (pc'[h] \in AfterCreate \cup {"crashed"} \/ door'[h] # {})
  <2>1. CASE UNCHANGED vars
    BY <1>4, <2>1 DEF vars, LeakInv
  <2>2. ASSUME NEW g \in Handlers \ {h}, Step(g) \/ Crash(g)
        PROVE  repos[r].by = h /\ pc'[h] = pc[h]
    <3>1. pc'[h] = pc[h]
      BY <2>2, OthersKept
    <3>2. repos'[r].by \in {repos[r].by, g, Absent}
      BY <2>2, RepoOwnerSteps
    <3>3. QED
      BY <1>1, <1>4, <3>1, <3>2
  <2>3. ASSUME Step(h) \/ Crash(h)
        PROVE  Kept
    <3>1. CASE RepoCreate(h) /\ repos' # repos
      <4>1. r = Home(h) \/ repos[r].by = h
        BY <1>4, <3>1 DEF RepoCreate, RepoRefused, TypeOK
      <4>2. pc'[h] \in AfterCreate \/ door'[h] # {}
        BY <3>1 DEF RepoCreate, RepoRefused, InitRepoFails, CutShort, Goto, AfterCreate, TypeOK
      <4>3. QED
        BY <4>1, <4>2, AtHome DEF LeakInv
    <3>2. ASSUME ~(RepoCreate(h) /\ repos' # repos)
          PROVE  repos[r].by = h
      BY <1>1, <1>4, <2>3, <3>2, RepoEffect DEF TypeOK
    <3>3. CASE Misaddressed(h) /\ r = Home(h)
      BY <3>3
    <3>4. ASSUME repos[r].by = h, ~(Misaddressed(h) /\ r = Home(h))
          PROVE  Kept
      <4>1. r = RepoName(h) /\ (pc[h] \in AfterCreate \cup {"crashed"} \/ door[h] # {})
        BY <3>4 DEF LeakInv
      <4>2. CASE door[h] # {}
        BY <1>2, <4>1, <4>2
      <4>3. CASE Crash(h)
        BY <4>1, <4>3 DEF Crash, Goto, TypeOK
      <4>4. ASSUME Step(h), pc[h] \in AfterCreate \cup {"crashed"}
            PROVE  pc'[h] \in AfterCreate \/ door'[h] # {}
        <5>. USE <4>4 DEF Goto, TypeOK, AfterCreate, FillSteps
        <5>1. CASE RenameBranch(h) \/ ReplaceAllTopics(h)
          BY <5>1 DEF RenameBranch, ReplaceAllTopics, InitPiece, InitRepoFails, CutShort
        <5>2. CASE StoreSecret(h) \/ StoreExpireAt(h) \/ StoreClusterId(h) \/ PushFiles(h)
          BY <5>2 DEF StoreSecret, StoreExpireAt, StoreClusterId, PushFiles, Fill
        <5>3. CASE UndoRepo(h)
          <6>1. CASE CutShort(h, "delete")
            BY <6>1 DEF CutShort
          <6>2. CASE SetRepo(h, EmptyRepo(Absent))
            BY <1>1, <1>4, <4>1, <6>2 DEF SetRepo, EmptyRepo
          <6>3. QED
            BY <5>3, <6>1, <6>2 DEF UndoRepo
        <5>4. QED
          BY <5>1, <5>2, <5>3 DEF Step, Begin, Refused, CreateObject, GetRole, UpdateRole,
             RequestToken, RepoCreate, UndoObject, Resources
      <4>5. QED
        BY <2>3, <4>1, <4>2, <4>3, <4>4
    <3>5. QED
      BY <3>1, <3>2, <3>3, <3>4
  <2>4. QED
    BY <1>2, <1>4, <2>1, <2>2, <2>3 DEF Next, LeakInv
<1>5. ASSUME NEW h \in Handlers
      PROVE  /\ pc'[h] = "start" => provisioned'[h] = {}
             /\ pc'[h] = "failed" => provisioned'[h] = {} \/ door'[h] # {}
  <2>. USE DEF TypeOK, Goto, LeakInv
  <2>1. CASE UNCHANGED vars
    BY <2>1 DEF vars
  <2>2. ASSUME NEW g \in Handlers, NEW res \in Resources, CreateObject(g, res)
        PROVE  /\ pc'[h] = "start" => provisioned'[h] = {}
               /\ pc'[h] = "failed" => provisioned'[h] = {} \/ door'[h] # {}
    <3>1. ProvisionFails(g) \/ \E step \in {"role", "roleGet", "rb", "ib", "token"} : Goto(g, step)
      BY <2>2 DEF CreateObject, AlreadyExists, NextStep, Resources
    <3>2. g # h => provisioned'[h] = provisioned[h] /\ door[h] \subseteq door'[h]
      BY <2>2, <1>2 DEF CreateObject, AlreadyExists, ProvisionFails
    <3>3. QED
      BY ZenonT(30), <3>1, <3>2, <2>2 DEF ProvisionFails, CutShort
  <2>3. ASSUME NEW g \in Handlers, GetRole(g) \/ UpdateRole(g)
        PROVE  /\ pc'[h] = "start" => provisioned'[h] = {}
               /\ pc'[h] = "failed" => provisioned'[h] = {} \/ door'[h] # {}
    <3>1. provisioned' = provisioned /\ door[h] \subseteq door'[h]
      BY <2>3, <1>2 DEF GetRole, UpdateRole, ProvisionFails, CutShort
    <3>2. ProvisionFails(g) \/ \E step \in {"roleUpdate", "rb"} : Goto(g, step)
      BY <2>3 DEF GetRole, UpdateRole
    <3>3. QED
      BY ZenonT(30), <3>1, <3>2, <1>2 DEF ProvisionFails, CutShort
  <2>4. ASSUME NEW g \in Handlers, Begin(g) \/ RequestToken(g) \/ Crash(g)
        PROVE  /\ pc'[h] = "start" => provisioned'[h] = {}
               /\ pc'[h] = "failed" => provisioned'[h] = {} \/ door'[h] # {}
    BY <2>4 DEF Begin, Refused, RequestToken, Crash, UnwindRBAC, handlerData
  <2>5. ASSUME NEW g \in Handlers, RepoCreate(g) \/ RenameBranch(g) \/ ReplaceAllTopics(g)
        PROVE  /\ pc'[h] = "start" => provisioned'[h] = {}
               /\ pc'[h] = "failed" => provisioned'[h] = {} \/ door'[h] # {}
    <3>1. provisioned' = provisioned
      BY <2>5 DEF RepoCreate, RenameBranch, ReplaceAllTopics, InitPiece, handlerData
    <3>2. \E step \in {UnwindRBAC(g), "repoBranch", "repoTopics", "secret"} : Goto(g, step)
      BY <2>5 DEF RepoCreate, RepoRefused, RenameBranch, ReplaceAllTopics, InitPiece,
             InitRepoFails
    <3>3. QED
      BY <1>2, <3>1, <3>2 DEF UnwindRBAC
  <2>6. ASSUME NEW g \in Handlers,
               \/ StoreSecret(g) \/ StoreExpireAt(g) \/ StoreClusterId(g)
               \/ PushFiles(g) \/ UndoRepo(g)
        PROVE  /\ pc'[h] = "start" => provisioned'[h] = {}
               /\ pc'[h] = "failed" => provisioned'[h] = {} \/ door'[h] # {}
    <3>1. provisioned' = provisioned
      BY <2>6 DEF StoreSecret, StoreExpireAt, StoreClusterId, PushFiles, Fill, UndoRepo,
             handlerData
    <3>2. \E step \in {UnwindRBAC(g), "expireAt", "clusterId", "push", "created", "undoRepo"} :
              Goto(g, step)
      BY <2>6 DEF StoreSecret, StoreExpireAt, StoreClusterId, PushFiles, Fill, UndoRepo
    <3>3. QED
      BY <1>2, <3>1, <3>2 DEF UnwindRBAC
  <2>7. ASSUME NEW g \in Handlers, NEW res \in Resources, UndoObject(g, res)
        PROVE  /\ pc'[h] = "start" => provisioned'[h] = {}
               /\ pc'[h] = "failed" => provisioned'[h] = {} \/ door'[h] # {}
    BY <1>2, <2>7 DEF UndoObject
  <2>8. QED
    BY <2>1, <2>2, <2>3, <2>4, <2>5, <2>6, <2>7 DEF Next, Step
<1>6. QED
  BY <1>1, <1>3, <1>4, <1>5 DEF LeakInv

LEMMA LeakCorrect == Spec => []LeakInv
<1>1. Init => LeakInv
  BY CreateFunctionAssumption DEF Init, LeakInv, EmptyRepo
<1>2. QED
  BY <1>1, LeakStep, TypeCorrect, RepoCorrect, PTL DEF Spec

\* A failed create whose clean-up was not cut short leaves nothing behind.
THEOREM CleanFailure == Spec => []CleanFailureLeavesNothing
<1>1. TypeOK /\ LeakInv => CleanFailureLeavesNothing
  <2>. SUFFICES ASSUME TypeOK, LeakInv, NEW h \in Handlers, pc[h] = "failed", door[h] = {}
                PROVE  /\ \A ns \in Namespaces, res \in Resources : objects[ns][res] # h
                       /\ \A r \in RepoNames : repos[r].by = h => Misaddressed(h)
    BY DEF CleanFailureLeavesNothing
  <2>1. QED
    BY DEF LeakInv, AfterCreate, FillSteps
<1>2. QED
  BY <1>1, TypeCorrect, LeakCorrect, PTL

-----------------------------------------------------------------------------
\* What a rollback has removed is never forgotten.
LEMMA UndoneSteps == [Next]_vars => undone \subseteq undone'
BY ZenonT(30) DEF Next, Step, vars, Begin, Refused, CreateObject, AlreadyExists, GetRole, UpdateRole,
       RequestToken, RepoCreate, RenameBranch, ReplaceAllTopics, InitPiece, StoreSecret,
       StoreExpireAt, StoreClusterId, PushFiles, Fill, UndoRepo, UndoObject, Crash

\* Roles only ever become current, and an object only changes hands from nobody to
\* the request that creates it or, in a rollback, to nobody.
LEMMA StaleSteps ==
    ASSUME [Next]_vars
    PROVE  staleRole' \subseteq staleRole
BY ZenonT(30) DEF Next, Step, vars, Begin, Refused, CreateObject, AlreadyExists, GetRole, UpdateRole,
       RequestToken, RepoCreate, RenameBranch, ReplaceAllTopics, InitPiece, StoreSecret,
       StoreExpireAt, StoreClusterId, PushFiles, Fill, UndoRepo, UndoObject, Crash, cluster

LEMMA ObjectKept ==
    ASSUME TypeOK, [Next]_vars, NEW ns \in Namespaces, NEW res \in Resources,
           objects[ns][res] # Absent
    PROVE  \/ objects'[ns][res] = objects[ns][res]
           \/ \E h \in Handlers : Ns(h) = ns /\ pc[h] = "undo" /\ h \in undone'
<1>1. ASSUME NEW h \in Handlers, NEW r \in Resources, CreateObject(h, r)
      PROVE  objects'[ns][res] = objects[ns][res]
  BY <1>1, CreatedHere
<1>2. ASSUME NEW h \in Handlers, NEW r \in Resources, UndoObject(h, r)
      PROVE  \/ objects'[ns][res] = objects[ns][res]
             \/ Ns(h) = ns /\ pc[h] = "undo" /\ h \in undone'
  <2>1. pc[h] = "undo" /\ (objects' = objects \/ h \in undone')
    BY <1>2 DEF UndoObject, cluster
  <2>2. QED
    BY <1>2, <2>1, UndoneHere
<1>3. QED
  BY <1>1, <1>2, ObjectSteps

LEMMA GrantStep == TypeOK /\ RepoInv /\ GrantInv /\ [Next]_vars => GrantInv'
<1>. SUFFICES ASSUME TypeOK, RepoInv, GrantInv, [Next]_vars, NEW g \in Handlers
              PROVE  GrantInvOf(g)'
  BY DEF GrantInv
<1>. DEFINE Keeps(res) == objects[Ns(g)][res] # Absent \/ RolledBackBeside(g)
<1>1. GrantInvOf(g) /\ \A h \in Handlers : Ns(h)' = Ns(h) /\ Ns(h) \in Namespaces
  BY RequestsFixed, Addresses DEF Ns, GrantInv
<1>2. RolledBackBeside(g) => RolledBackBeside(g)'
  BY <1>1, UndoneSteps DEF RolledBackBeside, TypeOK
<1>3. ASSUME NEW res \in Resources, pc[g] # "undo", objects[Ns(g)][res] # Absent
      PROVE  objects'[Ns(g)][res] = objects[Ns(g)][res] \/ RolledBackBeside(g)'
  BY <1>1, <1>3, ObjectKept DEF RolledBackBeside, TypeOK
<1>4. "undo" \notin AfterSa /\ {"sa", "role", "rb", "ib"} \subseteq Resources
  BY DEF AfterSa, AfterRole, AfterRb, AfterIb, InitRepoSteps, FillSteps, Resources
<1>5. staleRole' \subseteq staleRole
  BY StaleSteps
<1>6. ASSUME pc'[g] = pc[g], token'[g] = token[g]
      PROVE  GrantInvOf(g)'
  <2>1. pc[g] \in AfterIb \ {"token"} => token[g] # Absent
    BY DEF RepoInv, RepoInvOf, AfterIb, InitRepoSteps, FillSteps
  <2>2. /\ pc[g] \in AfterSa => Keeps("sa")'
        /\ pc[g] \in AfterIb \ {"token"}
               => objects'[Ns(g)]["sa"] = token[g] \/ RolledBackBeside(g)'
    BY <1>1, <1>2, <1>3, <1>4, <2>1 DEF GrantInvOf, AfterSa, AfterRole, AfterRb
  <2>3. pc[g] \in AfterRole => Keeps("role")' /\ Ns(g) \notin staleRole'
    BY <1>1, <1>2, <1>3, <1>4, <1>5 DEF GrantInvOf, AfterSa
  <2>4. /\ pc[g] \in AfterRb => Keeps("rb")'
        /\ pc[g] \in AfterIb => Keeps("ib")'
    BY <1>1, <1>2, <1>3, <1>4 DEF GrantInvOf, AfterSa, AfterRole, AfterRb
  <2>5. QED
    BY <1>1, <1>6, <2>2, <2>3, <2>4 DEF GrantInvOf
<1>7. CASE UNCHANGED vars
  BY <1>6, <1>7 DEF vars
<1>8. ASSUME NEW h \in Handlers \ {g}, Step(h) \/ Crash(h)
      PROVE  GrantInvOf(g)'
  BY <1>6, <1>8, OthersKept
<1>9. ASSUME Step(g) \/ Crash(g)
      PROVE  GrantInvOf(g)'
  <2>1. CASE UNCHANGED <<objects, staleRole>>
             /\ (Begin(g) \/ UndoRepo(g) \/ Crash(g))
    BY <2>1 DEF Begin, Refused, UndoRepo, Crash, Goto, UnwindRBAC, GrantInvOf, TypeOK, AfterSa,
                AfterRole, AfterRb, AfterIb, InitRepoSteps, FillSteps
  <2>2. ASSUME NEW res \in Resources, UndoObject(g, res)
        PROVE  GrantInvOf(g)'
    BY <2>2 DEF UndoObject, Goto, GrantInvOf, TypeOK, AfterSa, AfterRole, AfterRb, AfterIb,
                InitRepoSteps, FillSteps
  <2>3. ASSUME NEW res \in Resources, CreateObject(g, res)
        PROVE  GrantInvOf(g)'
    <3>1. objects[Ns(g)][res] # Absent \/ objects'[Ns(g)][res] = g \/ pc'[g] = "failed"
      <4>1. ASSUME objects' = [objects EXCEPT ![Ns(g)][res] = g]
            PROVE  objects'[Ns(g)][res] = g
        <5>1. Ns(g) \in DOMAIN objects /\ res \in DOMAIN objects[Ns(g)]
          BY <1>1 DEF TypeOK
        <5>2. QED
          BY <4>1, <5>1
      <4>2. QED
        BY <2>3, <4>1 DEF CreateObject, AlreadyExists, ProvisionFails, Goto, TypeOK
    <3>2. pc[g] = res /\ token'[g] = token[g]
      BY <2>3 DEF CreateObject
    <3>3. \/ pc'[g] = "failed"
          \/ res = "role" /\ pc'[g] \in {"roleGet", "rb"} /\
             (pc'[g] = "rb" => Ns(g) \notin staleRole')
          \/ res # "role" /\ pc'[g] = NextStep[res]
      BY <2>3 DEF CreateObject, AlreadyExists, ProvisionFails, Goto, TypeOK, NextStep
    <3>4. pc'[g] # "failed" => Keeps(res)'
      BY <1>1, <1>2, <1>3, <1>4, <3>1, <3>2, CreateFunctionAssumption DEF Resources
    <3>5. ASSUME NEW r \in Resources, Keeps(r), pc[g] # "undo"
          PROVE  Keeps(r)'
      BY <1>1, <1>2, <1>3, <3>5
    <3>6. QED
      BY <1>1, <1>4, <1>5, <3>2, <3>3, <3>4, <3>5
         DEF GrantInvOf, AfterSa, AfterRole, AfterRb, AfterIb, InitRepoSteps, FillSteps,
             NextStep, Resources
  <2>4. CASE \/ GetRole(g) \/ UpdateRole(g) \/ RequestToken(g) \/ RepoCreate(g)
             \/ RenameBranch(g) \/ ReplaceAllTopics(g) \/ StoreSecret(g)
             \/ StoreExpireAt(g) \/ StoreClusterId(g) \/ PushFiles(g)
    <3>1. objects' = objects
      BY <2>4 DEF GetRole, UpdateRole, RequestToken, RepoCreate, RenameBranch,
             ReplaceAllTopics, InitPiece, StoreSecret, StoreExpireAt, StoreClusterId,
             PushFiles, Fill, cluster
    <3>2. QED
      BY <1>1, <1>2, <1>5, <2>4, <3>1
         DEF GetRole, UpdateRole, RequestToken, RepoCreate, RepoRefused, RenameBranch,
             ReplaceAllTopics, InitPiece, InitRepoFails, StoreSecret, StoreExpireAt,
             StoreClusterId, PushFiles, Fill, ProvisionFails, UnwindRBAC, Goto, TypeOK,
             handlerData, GrantInvOf, AfterSa, AfterRole, AfterRb, AfterIb, InitRepoSteps,
             FillSteps
  <2>5. QED
    BY <1>9, <2>1, <2>2, <2>3, <2>4 DEF Step, Begin, Refused, UndoRepo, Crash, cluster
<1>10. QED
  BY <1>7, <1>8, <1>9 DEF Next

LEMMA GrantCorrect == Spec => []GrantInv
<1>1. Init => GrantInv
  BY DEF Init, GrantInv, GrantInvOf, AfterSa, AfterRole, AfterRb, AfterIb, InitRepoSteps,
         FillSteps
<1>2. QED
  BY <1>1, GrantStep, TypeCorrect, RepoCorrect, PTL DEF Spec

\* 201 means deployable until the rollback of another create of the same namespace
\* removes an object, or a misaddressed request names the repository.
THEOREM CreatedDeployable == Spec => []DeployableUnlessRolledBack
<1>1. TypeOK /\ RepoInv /\ GrantInv => DeployableUnlessRolledBack
  <2>. SUFFICES ASSUME TypeOK, RepoInv, GrantInv, NEW h \in Handlers, pc[h] = "created"
                PROVE  /\ Granted(h) \/ RolledBackBeside(h)
                       /\ Filled(h) \/ Strayed(RepoName(h))
    BY DEF DeployableUnlessRolledBack
  <2>1. RepoInvOf(h) /\ GrantInvOf(h)
    BY DEF RepoInv, GrantInv
  <2>2. Granted(h) \/ RolledBackBeside(h)
    BY <2>1 DEF GrantInvOf, Granted, AfterSa, AfterRole, AfterRb, AfterIb, Resources
  <2>3. Filled(h) \/ Strayed(RepoName(h))
    BY <2>1 DEF RepoInvOf, FilledSoFar, Filled, AfterCreate, AfterSecret
  <2>4. QED
    BY <2>2, <2>3
<1>2. QED
  BY <1>1, TypeCorrect, RepoCorrect, GrantCorrect, PTL

=============================================================================
