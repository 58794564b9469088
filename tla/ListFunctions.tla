---------------------------- MODULE ListFunctions ----------------------------
(***************************************************************************)
(* GET /api/v1/func/list (handler/list.go): two goroutines list the user's *)
(* repositories and the functions deployed on the cluster; the first one   *)
(* runs a goroutine per repository, which share a cache of namespace       *)
(* checks and join one another's calls.  Then the rows are merged.         *)
(* Functions are deployed and namespaces come and go in the meantime; each *)
(* call may fail.                                                          *)
(***************************************************************************)
EXTENDS Naturals

CONSTANTS
    Repos,       \* the user's function repositories
    Namespaces,  \* namespaces of the cluster
    Names,       \* function names
    All,         \* the scope of a list without namespace
    None,        \* no key, no verdict
    MaxChanges   \* bound: changes of the cluster during the request

ASSUME ListFunctionsAssumption ==
    /\ All \notin Namespaces /\ MaxChanges \in Nat
    /\ None \notin [ns: Namespaces, name: Names]

VARIABLES
    scope,      \* the namespace asked for, or All
    repo,       \* repo[r]: whose CLUSTER_ID r has, its function, and if func.yaml parses
    deployed,   \* functions on the cluster
    access,     \* access[ns]: what the user finds of ns
    changes,    \* changes so far
    steady,     \* functions deployed all the time so far (history)
    found,      \* found[ns]: what access[ns] was since the request began (history)
    repoList,   \* how the list of repositories came out
    clusterList,\* how the list of deployed functions came out
    clusterRows,\* the functions that list had
    pc,         \* pc[r]: the step r's goroutine takes next
    item,       \* item[r]: r's row, as far as it is filled
    excluded,   \* repositories that get no row
    nsCache,    \* nsCache[ns]: the verdict of an earlier check
    flight,     \* flight[ns]: the goroutines waiting for the call in flight
    answer      \* the answer, None before

world == <<deployed, access, changes, steady, found>>
vars == <<scope, repo, world, repoList, clusterList, clusterRows, pc, item, excluded,
          nsCache, flight, answer>>

Keys == [ns: Namespaces, name: Names]
Accesses == {"ok", "denied", "missing"}
Verdicts == Accesses \cup {"failed"}
Outcomes == {"pending", "listed", "failed"}
Item == [key: Keys \cup {None}, err: {"none", "unread", "invalid"} \cup (Verdicts \ {"ok"})]
Answers == [status: {"ok"}, repos: SUBSET Repos, cluster: SUBSET Keys]
               \cup [status: {"unauthorized", "failed"}]

TypeOK ==
    /\ scope \in Namespaces \cup {All}
    /\ repo \in [Repos -> [ours: BOOLEAN, key: Keys, parses: BOOLEAN]]
    /\ deployed \in SUBSET Keys /\ steady \in SUBSET deployed
    /\ access \in [Namespaces -> Accesses] /\ found \in [Namespaces -> SUBSET Accesses]
    /\ changes \in 0..MaxChanges
    /\ repoList \in Outcomes \cup {"unauthorized"}
    /\ clusterList \in Outcomes
    /\ clusterRows \in SUBSET Keys
    /\ pc \in [Repos -> {"off", "variable", "funcYaml", "load", "do", "wait", "done"}]
    /\ item \in [Repos -> Item]
    /\ excluded \in SUBSET Repos
    /\ nsCache \in [Namespaces -> Verdicts \cup {None}]
    /\ flight \in [Namespaces -> SUBSET Repos]
    /\ answer \in Answers \cup {None}

Init ==
    /\ scope \in Namespaces \cup {All}
    /\ repo \in [Repos -> [ours: BOOLEAN, key: Keys, parses: BOOLEAN]]
    /\ deployed \in SUBSET Keys
    /\ steady = deployed
    /\ access \in [Namespaces -> Accesses]
    /\ found = [ns \in Namespaces |-> {access[ns]}]
    /\ changes = 0
    /\ repoList = "pending" /\ clusterList = "pending" /\ clusterRows = {}
    /\ pc = [r \in Repos |-> "off"]
    /\ item = [r \in Repos |-> [key |-> None, err |-> "none"]]
    /\ excluded = {}
    /\ nsCache = [ns \in Namespaces |-> None]
    /\ flight = [ns \in Namespaces |-> {}]
    /\ answer = None

-----------------------------------------------------------------------------
(***************************************************************************)
(* The cluster, while the request runs.                                    *)
(***************************************************************************)
request == <<scope, repo, repoList, clusterList, clusterRows, pc, item, excluded,
             nsCache, flight, answer>>

Changes == answer = None /\ changes < MaxChanges /\ changes' = changes + 1

Deploy(key) ==
    /\ Changes
    /\ deployed' = (deployed \ {key}) \cup ({key} \ deployed)
    /\ steady' = steady \ {key}
    /\ UNCHANGED <<access, found, request>>

NamespaceMoves(ns) ==
    /\ Changes
    /\ \E now \in Accesses \ {access[ns]} :
           /\ access' = [access EXCEPT ![ns] = now]
           /\ found' = [found EXCEPT ![ns] = @ \cup {now}]
    /\ UNCHANGED <<deployed, steady, request>>

-----------------------------------------------------------------------------
(***************************************************************************)
(* The sources.                                                            *)
(***************************************************************************)
InScope(key) == scope \in {All, key.ns}

ListRepos ==
    /\ repoList = "pending" /\ pc = [r \in Repos |-> "off"]
    /\ \/ /\ pc' = [r \in Repos |-> "variable"]
          /\ UNCHANGED repoList
       \/ /\ repoList' \in {"failed", "unauthorized"}
          /\ UNCHANGED pc
    /\ UNCHANGED <<scope, repo, world, clusterList, clusterRows, item, excluded, nsCache,
                   flight, answer>>

ListClusterFunctions ==
    /\ clusterList = "pending"
    /\ \/ /\ clusterList' = "listed"
          /\ clusterRows' = {key \in deployed : InScope(key)}
       \/ /\ clusterList' = "failed"
          /\ UNCHANGED clusterRows
    /\ UNCHANGED <<scope, repo, world, repoList, pc, item, excluded, nsCache, flight, answer>>

Goto(r, step) == pc' = [pc EXCEPT ![r] = step]
Marked(r, err) == item' = [item EXCEPT ![r].err = err]
sources == <<scope, repo, world, repoList, clusterList, clusterRows, answer>>

\* A repository of another cluster is dropped; one whose variable cannot be read is kept.
GetVariable(r) ==
    /\ pc[r] = "variable"
    /\ \/ /\ ~repo[r].ours
          /\ excluded' = excluded \cup {r}
          /\ Goto(r, "done")
       \/ /\ Goto(r, "funcYaml")
          /\ UNCHANGED excluded
    /\ UNCHANGED <<sources, item, nsCache, flight>>

\* func.yaml cannot be read or does not parse, and the row names no function; or it
\* names the function and its namespace, which may be out of scope.
GetFuncYaml(r) ==
    /\ pc[r] = "funcYaml"
    /\ \/ /\ Marked(r, "unread")
          /\ Goto(r, "done")
          /\ UNCHANGED excluded
       \/ /\ ~repo[r].parses
          /\ Marked(r, "invalid")
          /\ Goto(r, "done")
          /\ UNCHANGED excluded
       \/ /\ repo[r].parses
          /\ item' = [item EXCEPT ![r].key = repo[r].key]
          /\ IF InScope(repo[r].key)
               THEN Goto(r, "load") /\ UNCHANGED excluded
               ELSE Goto(r, "done") /\ excluded' = excluded \cup {r}
    /\ UNCHANGED <<sources, nsCache, flight>>

Ns(r) == item[r].key.ns

Judged(members, verdict) ==
    item' = [r \in Repos |->
                IF r \in members /\ verdict # "ok" THEN [item[r] EXCEPT !.err = verdict]
                                                   ELSE item[r]]

\* checkNamespaceCached: the cache is looked at before, and not inside, the call.
LoadVerdict(r) ==
    /\ pc[r] = "load"
    /\ IF nsCache[Ns(r)] # None
         THEN Judged({r}, nsCache[Ns(r)]) /\ Goto(r, "done")
         ELSE Goto(r, "do") /\ UNCHANGED item
    /\ UNCHANGED <<sources, excluded, nsCache, flight>>

\* The first goroutine makes the call, those that come in the meantime join it.
Do(r) ==
    /\ pc[r] = "do"
    /\ flight' = [flight EXCEPT ![Ns(r)] = @ \cup {r}]
    /\ Goto(r, "wait")
    /\ UNCHANGED <<sources, item, excluded, nsCache>>

\* Mutant: one cache entry serves all namespaces.
CachedUnderAny(ns) == Namespaces

CachedUnder(ns) == {ns}

\* CheckNamespace returns to all who wait for it.
CheckNamespace(ns) ==
    /\ flight[ns] # {}
    /\ \E verdict \in {access[ns], "failed"} :
           /\ nsCache' = [n \in Namespaces |->
                             IF n \in CachedUnder(ns) THEN verdict ELSE nsCache[n]]
           /\ Judged(flight[ns], verdict)
    /\ pc' = [r \in Repos |-> IF r \in flight[ns] THEN "done" ELSE pc[r]]
    /\ flight' = [flight EXCEPT ![ns] = {}]
    /\ UNCHANGED <<sources, excluded>>

\* All goroutines of the group are done.
ReposListed ==
    /\ repoList = "pending"
    /\ pc = [r \in Repos |-> "done"]
    /\ repoList' = "listed"
    /\ UNCHANGED <<scope, repo, world, clusterList, clusterRows, pc, item, excluded,
                   nsCache, flight, answer>>

-----------------------------------------------------------------------------
(***************************************************************************)
(* The answer.                                                             *)
(***************************************************************************)
\* Mutant: rows are matched by name, whatever their namespace.
CoversByName(r, key) == item[r].key # None /\ item[r].key.name = key.name

Covers(r, key) == item[r].key = key

RowsNeed == repoList = "listed" \/ clusterList = "listed"

RepoRows == IF repoList = "listed" THEN Repos \ excluded ELSE {}

Merge ==
    /\ answer = None
    /\ repoList # "pending" /\ clusterList # "pending"
    /\ answer' =
         IF repoList = "unauthorized" THEN [status |-> "unauthorized"]
         ELSE IF ~RowsNeed THEN [status |-> "failed"]
         ELSE [status |-> "ok", repos |-> RepoRows,
               cluster |-> {key \in clusterRows : \A r \in RepoRows : ~Covers(r, key)}]
    /\ UNCHANGED <<scope, repo, world, repoList, clusterList, clusterRows, pc, item,
                   excluded, nsCache, flight>>

Next ==
    \/ \E key \in Keys : Deploy(key)
    \/ \E ns \in Namespaces : NamespaceMoves(ns) \/ CheckNamespace(ns)
    \/ ListRepos \/ ListClusterFunctions \/ ReposListed \/ Merge
    \/ \E r \in Repos : GetVariable(r) \/ GetFuncYaml(r) \/ LoadVerdict(r) \/ Do(r)

Spec == Init /\ [][Next]_vars

-----------------------------------------------------------------------------
(***************************************************************************)
(* Properties                                                              *)
(***************************************************************************)
Rows == answer # None /\ answer.status = "ok"

\* A function deployed all the while is shown by name whenever the cluster could be
\* asked and GitHub did not reject the user, whatever else failed.  The cluster's row
\* for it stands beside that of a repository of it in one case only: that this one's
\* func.yaml could not be read or parsed (list.go:188 knows it as SRVOCF-1138).  Two
\* repositories of one function have a row each.
DeployedShown ==
    answer # None /\ clusterList = "listed" /\ repoList # "unauthorized" =>
        /\ Rows
        /\ \A key \in steady : InScope(key) =>
               LET its == {r \in answer.repos : repo[r].key = key}
               IN  /\ key \in answer.cluster \/ \E r \in its : item[r].key = key
                   /\ key \in answer.cluster =>
                          \A r \in its : item[r].err \in {"unread", "invalid"}

\* The mark on a repository's row is what its namespace was at some moment of this
\* request, although most rows are marked with another goroutine's check.
MarksAreOfThisRequest ==
    Rows => \A r \in answer.repos :
        item[r].key # None =>
            \/ item[r].err = "failed"
            \/ item[r].err \in found[Ns(r)]
            \/ item[r].err = "none" /\ "ok" \in found[Ns(r)]

=============================================================================
