---------------------------- MODULE FunctionRows -----------------------------
(***************************************************************************)
(* The rows of the list page: useFunctions of FunctionsListPage.tsx merges *)
(* the backend's list, two watches on the cluster (Knative services and    *)
(* deployments, each behind by its own amount) and the stream of workflow  *)
(* runs.  When the list is requested, and by whom, is FunctionsPage's;     *)
(* how the runs get here is StreamClient's and WorkflowWatch's.            *)
(***************************************************************************)
EXTENDS Naturals, Sequences, ActiveNamespace

CONSTANTS
    Names, AllNamespaces,
    Repos,      \* repositories, <<owner, name>>
    NoRepo,
    Listings,   \* what the backend may answer: sequences of items
    Runs,       \* what a workflow run may be at; "None" is one
    MaxRevision, MaxEvents, MaxLists, MaxRuns \* bounds: deploys of a function over
                \* its lives, cluster changes, answers and namespace switches, run changes

Fns == Namespaces \X Names

\* An item of the list: a function, with a repository or not, or a repository whose
\* func.yaml could not be read, or names no function.
Item ==
    [repo: Repos \cup {NoRepo}, fn: Fns, broken: {FALSE}, error: BOOLEAN]
        \cup [repo: Repos, fn: {<<>>}, broken: {TRUE}, error: BOOLEAN]

\* Of a repository the backend makes one item.
ASSUME FunctionRowsAssumption ==
    /\ AllNamespaces \notin Namespaces /\ NoRepo \notin Repos /\ "None" \in Runs
    /\ \A r \in Repos : r = <<r[1], r[2]>>
    /\ Listings \subseteq Seq(Item)
    /\ \A l \in Listings : \A i, j \in 1..Len(l) :
           l[i].repo = l[j].repo => i = j \/ l[i].repo = NoRepo
    /\ {MaxEvents, MaxLists, MaxRuns} \subseteq Nat /\ MaxRevision \in Nat \ {0}

VARIABLES
    items,         \* functionMetadataList
    knSvcs, knLoaded, deps, depLoaded, \* what the two watches have delivered
    workflowRuns,  \* what the stream has delivered
    services, deployments, \* the cluster
    repoRuns,      \* the repositories' latest runs
    rested,        \* revisions idle while they served, or after their service (history)
    events, lists, runChanges \* bounds

page == <<namespace, items>>
views == <<knSvcs, knLoaded, deps, depLoaded>>
cluster == <<services, deployments, rested, events>>
builds == <<repoRuns, runChanges>>
rowsVars == <<page, views, workflowRuns, cluster, builds, lists>>

Statuses == {"NotDeployed", "Deploying", "Running", "ScaledToZero", "Undeploying", "Error"}
\* The revisions of a function are numbered over all the lives of its service; born is
\* the last number of the life before.
Service == [exists: BOOLEAN, deleting: BOOLEAN, ready: {"Unknown", "True", "False"},
            created: 0..MaxRevision, latest: 0..MaxRevision, born: 0..MaxRevision]
Deployment == [fn: Fns, rev: 1..MaxRevision, born: 0..MaxRevision, up: BOOLEAN]

\* Knative names the revisions of a service anew in every life: -00001, -00002 ...
RevisionName(rev, born) == rev - born

(***************************************************************************)
(* What the page derives.                                                  *)
(***************************************************************************)
\* Mutant: functionKey without the "~".
FunctionKey_plain(item) == IF item.broken THEN item.repo ELSE item.fn

\* A function read from func.yaml is keyed by namespace and name, one that
\* could not be read by its repository, marked with "~".
FunctionKey(item) ==
    IF item.broken THEN <<"~", item.repo[1], item.repo[2]>> ELSE item.fn

\* Map.set: of the items with one key the last one stays.
ItemOf(key) ==
    LET at == {i \in 1..Len(items) : FunctionKey(items[i]) = key}
    IN  items[CHOOSE i \in at : \A j \in at : j <= i]

InitialFunctions ==
    [key \in {FunctionKey(items[i]) : i \in 1..Len(items)} |->
        [repo |-> ItemOf(key).repo, error |-> ItemOf(key).error,
         cluster |-> "NotDeployed", run |-> "None"]]

\* In the order of the list: a different order is a different configuration.
FunctionNames(list) ==
    LET named == SelectSeq(list, LAMBDA item : ~item.broken)
    IN  [i \in 1..Len(named) |-> named[i].fn[2]]

Watched == {FunctionNames(items)[i] : i \in 1..Len(FunctionNames(items))}

\* Mutant: The watches select by name only.
Selected_anywhere(fn) == fn[2] \in Watched

\* What both watch configurations select; with no name there is no watch.
Selected(fn) ==
    /\ fn[2] \in Watched
    /\ namespace \in {AllNamespaces, fn[1]}

\* Mutant: The first deployment with the function's name, whatever its revision.
Matching_byName(fn, service, ds) ==
    LET own == {d \in ds : d.fn = fn}
    IN  {d \in own : \A e \in own : d.rev <= e.rev}

\* The deployments that may be found for a service: by the revision's name.
Matching(fn, service, ds) ==
    {d \in ds : /\ d.fn = fn
                /\ service.latest > 0 => RevisionName(d.rev, d.born) =
                                            RevisionName(service.latest, service.born)}

DeriveClusterStatus(service, found) ==
    CASE service.deleting -> "Undeploying"
      [] ~service.deleting /\ (found = {} \/ service.ready = "Unknown") -> "Deploying"
      [] ~service.deleting /\ found # {} /\ service.ready = "False" -> "Error"
      [] OTHER -> IF \E d \in found : d.up THEN "Running" ELSE "ScaledToZero"

\* Mutant: Only functions on the list get cluster data.
WithClusterData_listed(functions) ==
    LET seen == IF knLoaded THEN DOMAIN knSvcs ELSE {}
        found(fn) == Matching(fn, knSvcs[fn], IF depLoaded THEN deps ELSE {})
    IN  [key \in DOMAIN functions |->
          IF key \in seen
          THEN [functions[key] EXCEPT !.cluster =
                   DeriveClusterStatus(knSvcs[key], found(key))]
          ELSE functions[key]]


\* A service without an item makes a row of its own.
WithClusterData(functions) ==
    LET seen == IF knLoaded THEN DOMAIN knSvcs ELSE {}
        found(fn) == Matching(fn, knSvcs[fn], IF depLoaded THEN deps ELSE {})
    IN  [key \in DOMAIN functions \cup seen |->
          [repo |-> IF key \in DOMAIN functions THEN functions[key].repo ELSE NoRepo,
           error |-> key \in DOMAIN functions /\ functions[key].error,
           cluster |-> IF key \in seen THEN DeriveClusterStatus(knSvcs[key], found(key))
                       ELSE functions[key].cluster,
           run |-> "None"]]

WithWorkflowRunData(functions) ==
    [key \in DOMAIN functions |->
        IF functions[key].repo = NoRepo THEN functions[key]
        ELSE [functions[key] EXCEPT !.run = workflowRuns[functions[key].repo]]]

Rows == WithWorkflowRunData(WithClusterData(InitialFunctions))

\* An error of the repository hides the cluster's status, and the run only
\* ever adds an indicator.
StatusCell(row) ==
    [primary |-> IF row.error THEN "Error" ELSE row.cluster,
     secondary |-> IF row.run \in {"InProgress", "Failed"} THEN row.run ELSE "None"]

(***************************************************************************)
(* The page.  A watch whose configuration changes starts from nothing      *)
(* (useK8sWatchResource).                                                  *)
(***************************************************************************)
NewWatches ==
    /\ knSvcs' = <<>> /\ knLoaded' = FALSE
    /\ deps' = {} /\ depLoaded' = FALSE

ItemsArrive(list) ==
    /\ lists < MaxLists /\ lists' = lists + 1
    /\ \A i \in 1..Len(list) :
        ~list[i].broken => namespace \in {AllNamespaces, list[i].fn[1]}
    /\ items' = list
    /\ IF FunctionNames(list) = FunctionNames(items) THEN UNCHANGED views ELSE NewWatches
    /\ UNCHANGED <<namespace, workflowRuns, cluster, builds>>

ChangeNamespace(ns) ==
    /\ lists < MaxLists /\ lists' = lists + 1
    /\ ns # namespace
    /\ namespace' = ns /\ items' = <<>>
    /\ NewWatches
    /\ UNCHANGED <<workflowRuns, cluster, builds>>

KnSvcsArrive ==
    /\ Watched # {}
    /\ knSvcs' = [fn \in {f \in Fns : Selected(f) /\ services[f].exists} |-> services[fn]]
    /\ knLoaded' = TRUE
    /\ UNCHANGED <<page, deps, depLoaded, workflowRuns, cluster, builds, lists>>

DepsArrive ==
    /\ Watched # {}
    /\ deps' = {d \in deployments : Selected(d.fn)}
    /\ depLoaded' = TRUE
    /\ UNCHANGED <<page, knSvcs, knLoaded, workflowRuns, cluster, builds, lists>>

\* A workflow event replaces the whole record of runs.
RunsArrive ==
    /\ workflowRuns' = repoRuns
    /\ UNCHANGED <<page, views, cluster, builds, lists>>

(***************************************************************************)
(* The cluster (Knative) and GitHub.                                       *)
(***************************************************************************)
ClusterChanges ==
    /\ events < MaxEvents /\ events' = events + 1
    /\ UNCHANGED <<page, views, workflowRuns, builds, lists>>

\* func deploy: a first or a new revision.
Deploy(fn) ==
    /\ ClusterChanges
    /\ ~services[fn].deleting /\ services[fn].created < MaxRevision
    /\ services' = [services EXCEPT ![fn].exists = TRUE, ![fn].ready = "Unknown",
                                    ![fn].created = @ + 1]
    /\ UNCHANGED <<deployments, rested>>

Newest(fn) == [fn |-> fn, rev |-> services[fn].created, born |-> services[fn].born, up |-> TRUE]

\* No two deployments have one name.
StartRevision(fn) ==
    /\ ClusterChanges
    /\ services[fn].exists /\ services[fn].ready = "Unknown"
    /\ \A d \in deployments : d.fn = fn =>
           RevisionName(d.rev, d.born) # RevisionName(services[fn].created, services[fn].born)
    /\ deployments' = deployments \cup {Newest(fn)}
    /\ UNCHANGED <<services, rested>>

RevisionReady(fn) ==
    /\ ClusterChanges
    /\ services[fn].exists /\ services[fn].ready = "Unknown"
    /\ Newest(fn) \in deployments
    /\ services' = [services EXCEPT ![fn].ready = "True", ![fn].latest = services[fn].created]
    /\ UNCHANGED <<deployments, rested>>

\* With or without a deployment of the revision.
RevisionFails(fn) ==
    /\ ClusterChanges
    /\ services[fn].exists /\ services[fn].ready = "Unknown"
    /\ services' = [services EXCEPT ![fn].ready = "False"]
    /\ UNCHANGED <<deployments, rested>>

\* The autoscaler: a revision scales to zero when idle or no longer routed
\* to, and up again.
Scale(d) ==
    /\ ClusterChanges
    /\ LET service == services[d.fn] IN
       /\ d.up => d.rev < service.created \/ service.ready # "Unknown" \/ ~service.exists
       /\ rested' = IF d.up /\ (service.exists => d.rev = service.latest /\ service.ready = "True")
                    THEN rested \cup {<<d.fn, d.rev>>} ELSE rested
    /\ deployments' = (deployments \ {d}) \cup {[d EXCEPT !.up = ~@]}
    /\ UNCHANGED services

\* The delete modal of a row, or kubectl.
Delete(fn) ==
    /\ ClusterChanges
    /\ services[fn].exists /\ ~services[fn].deleting
    /\ services' = [services EXCEPT ![fn].deleting = TRUE]
    /\ UNCHANGED <<deployments, rested>>

\* The service is gone; its deployments are collected with it, or later.
Deleted(fn) ==
    /\ ClusterChanges
    /\ services[fn].deleting
    /\ services' = [services EXCEPT ![fn].exists = FALSE, ![fn].deleting = FALSE,
                                    ![fn].ready = "Unknown", ![fn].latest = 0,
                                    ![fn].born = services[fn].created]
    /\ deployments' \in {deployments, {d \in deployments : d.fn # fn}}
    /\ UNCHANGED rested

Collected(fn) ==
    /\ ClusterChanges
    /\ \E d \in deployments : d.fn = fn /\ d.born # services[fn].born
    /\ deployments' = {d \in deployments : d.fn = fn => d.born = services[fn].born}
    /\ UNCHANGED <<services, rested>>

RunChanges(repo, run) ==
    /\ runChanges < MaxRuns /\ runChanges' = runChanges + 1
    /\ run # repoRuns[repo]
    /\ repoRuns' = [repoRuns EXCEPT ![repo] = run]
    /\ UNCHANGED <<page, views, workflowRuns, cluster, lists>>

\* A service on its first revision, perhaps being deleted, or none.
Serving(deployed, deleting) ==
    IF deployed
    THEN [exists |-> TRUE, deleting |-> deleting, ready |-> "True",
          created |-> 1, latest |-> 1, born |-> 0]
    ELSE [exists |-> FALSE, deleting |-> deleting, ready |-> "Unknown",
          created |-> 0, latest |-> 0, born |-> 0]

RowsInit ==
    /\ namespace \in Namespaces \cup {AllNamespaces} /\ items = <<>>
    /\ knSvcs = <<>> /\ knLoaded = FALSE /\ deps = {} /\ depLoaded = FALSE
    /\ workflowRuns = [r \in Repos |-> "None"] /\ repoRuns = [r \in Repos |-> "None"]
    /\ \E deployed \in SUBSET Fns : \E idle \in SUBSET deployed, ending \in SUBSET deployed :
        /\ services = [fn \in Fns |-> Serving(fn \in deployed, fn \in ending)]
        /\ deployments = {[fn |-> fn, rev |-> 1, born |-> 0, up |-> fn \notin idle] : fn \in deployed}
        /\ rested = idle \X {1}
    /\ events = 0 /\ lists = 0 /\ runChanges = 0

RowsNext ==
    \/ \E l \in Listings : ItemsArrive(l)
    \/ \E ns \in Namespaces \cup {AllNamespaces} : ChangeNamespace(ns)
    \/ KnSvcsArrive \/ DepsArrive \/ RunsArrive
    \/ \E fn \in Fns : \/ Deploy(fn) \/ StartRevision(fn) \/ RevisionReady(fn)
                       \/ RevisionFails(fn) \/ Delete(fn) \/ Deleted(fn) \/ Collected(fn)
    \/ \E d \in deployments : Scale(d)
    \/ \E r \in Repos, run \in Runs : RunChanges(r, run)

RowsSpec == RowsInit /\ [][RowsNext]_rowsVars

\* The SDK keeps its watches connected, the stream client its stream.
RowsFairness == WF_rowsVars(KnSvcsArrive) /\ WF_rowsVars(DepsArrive) /\ WF_rowsVars(RunsArrive)

RowsFairSpec == RowsSpec /\ RowsFairness

(***************************************************************************)
(* Properties.                                                             *)
(***************************************************************************)
\* The types; in particular the watches deliver only what belongs to the
\* active namespace and to a listed function (newKsvcWatchConfig,
\* newDeploymentWatchConfig).
RowsTypeOK ==
    /\ namespace \in Namespaces \cup {AllNamespaces} /\ items \in Listings \cup {<<>>}
    /\ DOMAIN knSvcs \subseteq {fn \in Fns : /\ namespace \in {AllNamespaces, fn[1]}
                                          /\ fn[2] \in Watched}
    /\ \A fn \in DOMAIN knSvcs : knSvcs[fn] \in Service
    /\ deps \subseteq Deployment /\ deployments \subseteq Deployment
    /\ services \in [Fns -> Service]
    /\ workflowRuns \in [Repos -> Runs] /\ repoRuns \in [Repos -> Runs]
    /\ LET rows == Rows IN \A key \in DOMAIN rows : rows[key].cluster \in Statuses
    /\ knLoaded \in BOOLEAN /\ depLoaded \in BOOLEAN
    /\ events \in 0..MaxEvents /\ lists \in 0..MaxLists /\ runChanges \in 0..MaxRuns

OwnRow(rows, item) ==
    LET key == FunctionKey(item)
    IN  key \in DOMAIN rows /\ rows[key].repo = item.repo /\ rows[key].error = item.error

\* A listed item has its row, whatever the cluster and the runs say, unless
\* a later repository's func.yaml names the same function; and a broken
\* item's row never shows data of a service, even when its owner and name
\* spell a namespace and a function (the "~" of functionKey).
ItemsKeepRows ==
    LET rows == Rows IN
    \A i \in 1..Len(items) :
        /\ \/ OwnRow(rows, items[i])
           \/ \E j \in i+1..Len(items) :
                ~items[j].broken /\ ~items[i].broken /\ items[j].fn = items[i].fn
        /\ items[i].broken => rows[FunctionKey(items[i])].cluster = "NotDeployed"

\* A row says "scaled to zero" only of a revision that was idle while it
\* served: a superseded revision at zero replicas must not make a busy
\* function look idle (withClusterData matches by latestReadyRevisionName).
\* The exceptions are a row whose view of the service is older than a rollout, and one
\* whose two views are of different lives of the service, in which revisions have the
\* same names.
ZeroMeansIdle ==
    LET rows == Rows IN
    \A key \in DOMAIN rows :
        rows[key].cluster = "ScaledToZero" =>
            \/ <<key, knSvcs[key].latest>> \in rested
            \/ services[key].created > knSvcs[key].created
            \/ \E d \in deps : d.fn = key /\ d.born # knSvcs[key].born

\* Once the cluster, GitHub and the user rest, every row shows the truth for
\* good: each listed item the state of its repository's run, beside its status
\* and not in place of it; each service that shares a listed name has a row, with
\* its status unless the repository's error hides it; and a function without a
\* service shows none.
RowsConverge ==
    <>[](LET rows == Rows IN
         /\ \A i \in 1..Len(items) :
              LET shown == StatusCell(rows[FunctionKey(items[i])])
              IN  OwnRow(rows, items[i]) =>
                    /\ items[i].repo # NoRepo =>
                         (shown.secondary = "Failed") = (repoRuns[items[i].repo] = "Failed")
                    /\ items[i].error => shown.primary = "Error"
                    /\ ~items[i].error /\ (items[i].broken \/ ~services[items[i].fn].exists) =>
                         shown.primary = "NotDeployed"
         /\ \A fn \in Fns : Selected(fn) /\ services[fn].exists =>
              /\ fn \in DOMAIN rows
              /\ rows[fn].error \/ StatusCell(rows[fn]).primary =
                    DeriveClusterStatus(services[fn], {d \in deployments : d.fn = fn /\
                        (services[fn].latest > 0 => d.rev = services[fn].latest)}))

=============================================================================
