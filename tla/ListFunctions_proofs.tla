-------------------------- MODULE ListFunctions_proofs --------------------------
(***************************************************************************)
(* Proofs about ListFunctions for any number of repositories, namespaces   *)
(* and function names.                                                     *)
(***************************************************************************)
EXTENDS ListFunctions, TLAPS

\* A mark that the namespace has earned during the request.
Earned(r) ==
    \/ item[r].err = "failed"
    \/ item[r].err \in found[Ns(r)]
    \/ item[r].err = "none" /\ "ok" \in found[Ns(r)]

\* A row has no key before its func.yaml is read, no mark before its namespace is
\* checked, and then one that is earned.
RowInv(r) ==
    /\ pc[r] \in {"off", "variable", "funcYaml"} => item[r] = [key |-> None, err |-> "none"]
    /\ pc[r] \in {"load", "do", "wait"} => item[r].key \in Keys /\ item[r].err = "none"
    /\ pc[r] = "done" /\ r \notin excluded /\ item[r].key # None => Earned(r)

\* A row names the function of its repository, or is marked as naming none.
Named(r) ==
    /\ item[r].key \in {None, repo[r].key}
    /\ pc[r] = "done" /\ r \notin excluded /\ item[r].key = None =>
           item[r].err \in {"unread", "invalid"}

\* What checks of a namespace found, are finding, and share.
CheckInv(ns) ==
    /\ access[ns] \in found[ns]
    /\ nsCache[ns] # None => nsCache[ns] \in found[ns] \cup {"failed"}
    /\ \A r \in flight[ns] : pc[r] = "wait" /\ Ns(r) = ns

\* The lists are complete once they came out, and the answer is their merge.
MergeInv ==
    /\ repoList = "listed" => \A r \in Repos : pc[r] = "done"
    /\ repoList \in {"failed", "unauthorized"} => \A r \in Repos : pc[r] = "off"
    /\ clusterList = "listed" => \A key \in steady : InScope(key) => key \in clusterRows
    /\ answer # None =>
           /\ repoList # "pending" /\ clusterList # "pending"
           /\ RowsNeed /\ repoList # "unauthorized" =>
                  answer = [status |-> "ok", repos |-> RepoRows,
                            cluster |-> {key \in clusterRows :
                                            \A r \in RepoRows : ~Covers(r, key)}]
           /\ answer.status = "ok" => RowsNeed /\ repoList # "unauthorized"

IInv ==
    /\ TypeOK
    /\ \A r \in Repos : RowInv(r) /\ Named(r)
    /\ \A ns \in Namespaces : CheckInv(ns)
    /\ MergeInv

LEMMA Initially == Init => IInv
<1>. SUFFICES ASSUME Init PROVE IInv
  OBVIOUS
<1>1. TypeOK
  <2>1. 0 \in 0..MaxChanges
    BY ListFunctionsAssumption
  <2>2. [key |-> None, err |-> "none"] \in Item
    BY DEF Item
  <2>3. found \in [Namespaces -> SUBSET Accesses]
    BY DEF Init
  <2>4. QED
    BY <2>1, <2>2, <2>3 DEF Init, TypeOK, Outcomes, Verdicts
<1>2. /\ \A r \in Repos : RowInv(r) /\ Named(r)
      /\ \A ns \in Namespaces : CheckInv(ns)
      /\ MergeInv
  BY DEF Init, RowInv, Named, CheckInv, MergeInv
<1>3. QED
  BY <1>1, <1>2 DEF IInv

\* Judging members leaves every other row alone and marks theirs.
LEMMA JudgedRows ==
    ASSUME TypeOK, NEW members \in SUBSET Repos, NEW verdict \in Verdicts,
           Judged(members, verdict)
    PROVE  /\ item' \in [Repos -> Item]
           /\ \A r \in Repos : item'[r].key = item[r].key
           /\ \A r \in Repos \ members : item'[r] = item[r]
           /\ \A r \in members : item'[r].err = IF verdict = "ok" THEN item[r].err ELSE verdict
<1>1. \A r \in Repos : item[r] \in Item
  BY DEF TypeOK
<1>2. \A r \in Repos : verdict # "ok" => [item[r] EXCEPT !.err = verdict] \in Item
  BY <1>1 DEF Item, Verdicts
<1>3. QED
  BY <1>1, <1>2 DEF Judged, Item

LEMMA TypeStep == IInv /\ [Next]_vars => TypeOK'
<1>. SUFFICES ASSUME IInv, [Next]_vars PROVE TypeOK'
  OBVIOUS
<1>. USE DEF TypeOK, Goto, world, sources, request
<1>1. ASSUME NEW key \in Keys, Deploy(key) PROVE TypeOK'
  BY <1>1, ListFunctionsAssumption DEF Deploy, Changes, IInv
<1>2. ASSUME NEW ns \in Namespaces, NamespaceMoves(ns) PROVE TypeOK'
  BY <1>2, ListFunctionsAssumption DEF NamespaceMoves, Changes, IInv
<1>3. ASSUME NEW ns \in Namespaces, CheckNamespace(ns) PROVE TypeOK'
  <2>1. PICK verdict \in {access[ns], "failed"} :
            /\ nsCache' = [n \in Namespaces |->
                              IF n \in CachedUnder(ns) THEN verdict ELSE nsCache[n]]
            /\ Judged(flight[ns], verdict)
    BY <1>3 DEF CheckNamespace
  <2>2. verdict \in Verdicts
    BY DEF IInv, Verdicts
  <2>3. item' \in [Repos -> Item]
    BY <2>1, <2>2, JudgedRows DEF IInv
  <2>4. nsCache' \in [Namespaces -> Verdicts \cup {None}]
    BY <2>1, <2>2 DEF IInv
  <2>5. QED
    BY <1>3, <2>3, <2>4 DEF CheckNamespace, IInv
<1>4. ASSUME NEW r \in Repos, GetVariable(r) PROVE TypeOK'
  BY <1>4 DEF GetVariable, IInv
<1>5. ASSUME NEW r \in Repos, GetFuncYaml(r) PROVE TypeOK'
  <2>1. item[r] \in Item /\ repo[r].key \in Keys
    BY DEF IInv
  <2>2. /\ [item[r] EXCEPT !.err = "unread"] \in Item
        /\ [item[r] EXCEPT !.err = "invalid"] \in Item
        /\ [item[r] EXCEPT !.key = repo[r].key] \in Item
    BY <2>1 DEF Item
  <2>3. item' \in [Repos -> Item]
    BY <1>5, <2>2 DEF GetFuncYaml, Marked, IInv
  <2>4. QED
    BY <1>5, <2>3 DEF GetFuncYaml, IInv
<1>6. ASSUME NEW r \in Repos, LoadVerdict(r) PROVE TypeOK'
  <2>1. item' \in [Repos -> Item]
    <3>1. CASE item' = item
      BY <3>1 DEF IInv
    <3>2. CASE Judged({r}, nsCache[Ns(r)]) /\ nsCache[Ns(r)] # None
      <4>1. Ns(r) \in Namespaces
        BY <1>6 DEF LoadVerdict, IInv, RowInv, Keys, Ns
      <4>2. QED
        BY <3>2, <4>1, JudgedRows DEF IInv
    <3>3. QED
      BY <1>6, <3>1, <3>2 DEF LoadVerdict
  <2>2. QED
    BY <1>6, <2>1 DEF LoadVerdict, IInv
<1>7. ASSUME NEW r \in Repos, Do(r) PROVE TypeOK'
  BY <1>7 DEF Do, IInv, RowInv, Keys, Ns
<1>8. CASE ListRepos \/ ReposListed
  BY <1>8 DEF ListRepos, ReposListed, Outcomes, IInv
<1>9. CASE ListClusterFunctions
  BY <1>9 DEF ListClusterFunctions, Outcomes, IInv
<1>10. CASE Merge
  <2>1. answer' \in Answers
    BY <1>10 DEF Merge, Answers, RepoRows, IInv
  <2>2. QED
    BY <1>10, <2>1 DEF Merge, IInv
<1>11. CASE UNCHANGED vars
  BY <1>11 DEF vars, IInv
<1>12. QED
  BY <1>1, <1>2, <1>3, <1>4, <1>5, <1>6, <1>7, <1>8, <1>9, <1>10, <1>11 DEF Next

\* A step of one repository's goroutine moves no other's.
LEMMA RowStepKeeps ==
    ASSUME IInv, NEW r \in Repos,
           GetVariable(r) \/ GetFuncYaml(r) \/ LoadVerdict(r) \/ Do(r)
    PROVE  /\ UNCHANGED <<sources, nsCache>>
           /\ \A q \in Repos \ {r} : /\ pc'[q] = pc[q] /\ item'[q] = item[q]
                                     /\ q \in excluded' <=> q \in excluded
           /\ pc[r] \in {"variable", "funcYaml", "load", "do"}
           /\ pc'[r] \in {"funcYaml", "load", "do", "wait", "done"}
<1>1. /\ UNCHANGED <<sources, nsCache>>
      /\ pc[r] \in {"variable", "funcYaml", "load", "do"}
      /\ \E step \in {"funcYaml", "load", "do", "wait", "done"} :
             pc' = [pc EXCEPT ![r] = step]
      /\ excluded' = excluded \/ excluded' = excluded \cup {r}
  BY DEF GetVariable, GetFuncYaml, LoadVerdict, Do, Goto
<1>2. ASSUME NEW q \in Repos \ {r} PROVE item'[q] = item[q]
  <2>1. CASE item' = item
    BY <2>1
  <2>2. CASE \E err : Marked(r, err)
    BY <2>2 DEF Marked, IInv, TypeOK
  <2>3. CASE item' = [item EXCEPT ![r].key = repo[r].key]
    BY <2>3 DEF IInv, TypeOK
  <2>4. CASE Judged({r}, nsCache[Ns(r)])
    BY <2>4 DEF Judged
  <2>5. QED
    BY <2>1, <2>2, <2>3, <2>4 DEF GetVariable, GetFuncYaml, LoadVerdict, Do
<1>3. QED
  BY <1>1, <1>2 DEF IInv, TypeOK

LEMMA RowInvStep == IInv /\ [Next]_vars => \A q \in Repos : RowInv(q)'
<1>. SUFFICES ASSUME IInv, [Next]_vars, NEW q \in Repos PROVE RowInv(q)'
  OBVIOUS
<1>. USE DEF IInv
<1>1. ASSUME UNCHANGED <<pc, item, excluded>>,
             \A ns \in Namespaces : found[ns] \subseteq found'[ns]
      PROVE  RowInv(q)'
  <2>1. item[q].key # None => Ns(q) \in Namespaces
    BY DEF TypeOK, Item, Keys, Ns
  <2>2. Ns(q)' = Ns(q)
    BY <1>1 DEF Ns
  <2>3. item[q].key # None /\ Earned(q) => Earned(q)'
    BY <1>1, <2>1, <2>2 DEF Earned
  <2>4. QED
    BY <1>1, <2>3 DEF RowInv
<1>2. ASSUME NEW ns \in Namespaces, NamespaceMoves(ns) PROVE RowInv(q)'
  <2>1. UNCHANGED <<pc, item, excluded>>
    BY <1>2 DEF NamespaceMoves, request
  <2>2. \A n \in Namespaces : found[n] \subseteq found'[n]
    BY <1>2 DEF NamespaceMoves, TypeOK
  <2>3. QED
    BY <1>1, <2>1, <2>2
<1>3. ASSUME NEW ns \in Namespaces, CheckNamespace(ns) PROVE RowInv(q)'
  <2>1. PICK verdict \in {access[ns], "failed"} : Judged(flight[ns], verdict)
    BY <1>3 DEF CheckNamespace
  <2>2. /\ verdict \in Verdicts /\ verdict \in found[ns] \cup {"failed"}
        /\ flight[ns] \in SUBSET Repos
        /\ \A r \in flight[ns] : pc[r] = "wait" /\ Ns(r) = ns
    BY DEF CheckInv, TypeOK, Verdicts
  <2>3. UNCHANGED <<excluded, found>>
        /\ pc' = [r \in Repos |-> IF r \in flight[ns] THEN "done" ELSE pc[r]]
    BY <1>3 DEF CheckNamespace, sources, world
  <2>4. CASE q \in flight[ns]
    <3>1. /\ item'[q].key = item[q].key
          /\ item'[q].err = IF verdict = "ok" THEN item[q].err ELSE verdict
          /\ item[q].err = "none"
      BY <2>1, <2>2, <2>4, JudgedRows DEF RowInv
    <3>2. pc'[q] = "done" /\ Ns(q)' = ns
      BY <2>2, <2>3, <2>4, <3>1 DEF Ns
    <3>3. Earned(q)'
      BY <2>2, <2>3, <3>1, <3>2 DEF Earned
    <3>4. QED
      BY <3>2, <3>3 DEF RowInv
  <2>5. CASE q \notin flight[ns]
    <3>1. item'[q] = item[q] /\ pc'[q] = pc[q]
      BY <2>1, <2>2, <2>3, <2>5, JudgedRows
    <3>2. QED
      BY <2>3, <3>1 DEF RowInv, Earned, Ns
  <2>6. QED
    BY <2>4, <2>5
<1>4. ASSUME NEW r \in Repos, GetVariable(r) \/ GetFuncYaml(r) \/ LoadVerdict(r) \/ Do(r)
      PROVE  RowInv(q)'
  <2>1. UNCHANGED found
    BY <1>4, RowStepKeeps DEF sources, world
  <2>2. CASE q # r
    <3>1. pc'[q] = pc[q] /\ item'[q] = item[q] /\ (q \in excluded' <=> q \in excluded)
      BY <1>4, <2>2, RowStepKeeps
    <3>2. QED
      BY <2>1, <3>1 DEF RowInv, Earned, Ns
  <2>3. CASE q = r /\ GetVariable(r)
    BY <2>3 DEF GetVariable, Goto, RowInv, TypeOK
  <2>4. CASE q = r /\ GetFuncYaml(r)
    <3>1. item[q] = [key |-> None, err |-> "none"] /\ item[q] \in Item
      BY <2>4 DEF GetFuncYaml, RowInv, TypeOK
    <3>2. CASE Marked(q, "unread") \/ Marked(q, "invalid")
      <4>1. item'[q].key = None /\ pc'[q] = "done"
        BY <2>4, <3>1, <3>2 DEF GetFuncYaml, Marked, Goto, TypeOK
      <4>2. QED
        BY <4>1 DEF RowInv
    <3>3. CASE /\ item' = [item EXCEPT ![q].key = repo[q].key]
               /\ pc'[q] = "load" \/ (pc'[q] = "done" /\ q \in excluded')
      <4>1. item'[q].key = repo[q].key /\ item'[q].err = "none" /\ repo[q].key \in Keys
        BY <3>1, <3>3 DEF TypeOK
      <4>2. QED
        BY <3>3, <4>1 DEF RowInv
    <3>4. QED
      BY <2>4, <3>2, <3>3 DEF GetFuncYaml, Goto, TypeOK
  <2>5. CASE q = r /\ LoadVerdict(r)
    <3>1. item[q].key \in Keys /\ item[q].err = "none" /\ Ns(q) \in Namespaces
      BY <2>5 DEF LoadVerdict, RowInv, Ns, Keys
    <3>2. CASE Judged({q}, nsCache[Ns(q)]) /\ nsCache[Ns(q)] # None /\ pc'[q] = "done"
      <4>1. nsCache[Ns(q)] \in Verdicts /\ nsCache[Ns(q)] \in found[Ns(q)] \cup {"failed"}
        BY <3>1, <3>2 DEF CheckInv, TypeOK
      <4>2. /\ item'[q].key = item[q].key
            /\ item'[q].err = IF nsCache[Ns(q)] = "ok" THEN "none" ELSE nsCache[Ns(q)]
        BY <3>1, <3>2, <4>1, JudgedRows
      <4>3. Earned(q)'
        BY <2>1, <4>1, <4>2 DEF Earned, Ns
      <4>4. QED
        BY <3>2, <4>3 DEF RowInv
    <3>3. CASE item' = item /\ pc'[q] = "do"
      BY <3>1, <3>3 DEF RowInv
    <3>4. QED
      BY <2>5, <3>2, <3>3 DEF LoadVerdict, Goto, TypeOK
  <2>6. CASE q = r /\ Do(r)
    BY <2>6 DEF Do, Goto, RowInv, TypeOK
  <2>7. QED
    BY <1>4, <2>2, <2>3, <2>4, <2>5, <2>6
<1>5. CASE ListRepos
  BY <1>5 DEF ListRepos, RowInv, world
<1>6. CASE (\E key \in Keys : Deploy(key)) \/ ListClusterFunctions \/ ReposListed \/ Merge
           \/ UNCHANGED vars
  <2>1. UNCHANGED <<pc, item, excluded, found>>
    BY <1>6 DEF Deploy, ListClusterFunctions, ReposListed, Merge, vars, world, request
  <2>2. QED
    BY <1>1, <2>1
<1>7. QED
  BY <1>2, <1>3, <1>4, <1>5, <1>6 DEF Next

LEMMA NamedStep == IInv /\ [Next]_vars => \A q \in Repos : Named(q)'
<1>. SUFFICES ASSUME IInv, [Next]_vars, NEW q \in Repos PROVE Named(q)'
  OBVIOUS
<1>. USE DEF IInv
<1>1. repo' = repo
  BY DEF Next, Deploy, NamespaceMoves, CheckNamespace, ListRepos, ListClusterFunctions,
         ReposListed, Merge, GetVariable, GetFuncYaml, LoadVerdict, Do, sources, request, vars
<1>2. /\ repo[q].key \in Keys /\ None \notin Keys
      /\ pc[q] \in {"load", "do", "wait"} => item[q].key \in Keys
  BY ListFunctionsAssumption DEF TypeOK, RowInv, Keys
<1>3. CASE item'[q] = item[q] /\ pc'[q] = pc[q] /\ (q \in excluded' <=> q \in excluded)
  BY <1>1, <1>3 DEF Named
<1>4. CASE \E ns \in Namespaces : CheckNamespace(ns)
  <2>1. PICK ns \in Namespaces : CheckNamespace(ns)
    BY <1>4
  <2>2. PICK verdict \in {access[ns], "failed"} : Judged(flight[ns], verdict)
    BY <2>1 DEF CheckNamespace
  <2>3. verdict \in Verdicts /\ flight[ns] \in SUBSET Repos
    BY DEF TypeOK, Verdicts
  <2>4. CASE q \in flight[ns]
    <3>1. pc[q] = "wait" /\ item'[q].key = item[q].key
      BY <2>2, <2>3, <2>4, JudgedRows DEF CheckInv
    <3>2. QED
      BY <1>1, <1>2, <3>1 DEF Named
  <2>5. CASE q \notin flight[ns]
    <3>1. item'[q] = item[q] /\ pc'[q] = pc[q] /\ excluded' = excluded
      BY <2>1, <2>2, <2>3, <2>5, JudgedRows DEF CheckNamespace
    <3>2. QED
      BY <1>3, <3>1
  <2>6. QED
    BY <2>4, <2>5
<1>5. ASSUME NEW r \in Repos, GetVariable(r) \/ GetFuncYaml(r) \/ LoadVerdict(r) \/ Do(r)
      PROVE  Named(q)'
  <2>1. CASE q # r
    BY <1>3, <1>5, <2>1, RowStepKeeps
  <2>2. CASE q = r /\ GetVariable(r)
    BY <1>1, <2>2 DEF GetVariable, Goto, Named, TypeOK
  <2>3. CASE q = r /\ GetFuncYaml(r)
    <3>1. item[q] = [key |-> None, err |-> "none"] /\ item[q] \in Item
      BY <2>3 DEF GetFuncYaml, RowInv, TypeOK
    <3>2. CASE Marked(q, "unread") \/ Marked(q, "invalid")
      <4>1. item'[q].key = None /\ item'[q].err \in {"unread", "invalid"}
        BY <3>1, <3>2 DEF Marked, TypeOK
      <4>2. QED
        BY <1>1, <4>1 DEF Named
    <3>3. CASE item' = [item EXCEPT ![q].key = repo[q].key]
      <4>1. item'[q].key = repo[q].key
        BY <3>1, <3>3 DEF TypeOK
      <4>2. QED
        BY <1>1, <1>2, <4>1 DEF Named
    <3>4. QED
      BY <2>3, <3>2, <3>3 DEF GetFuncYaml
  <2>4. CASE q = r /\ LoadVerdict(r)
    <3>1. pc[q] = "load" /\ Ns(q) \in Namespaces
      BY <1>2, <2>4 DEF LoadVerdict, Ns, Keys
    <3>2. item'[q].key = item[q].key
      <4>1. CASE Judged({q}, nsCache[Ns(q)]) /\ nsCache[Ns(q)] # None
        BY <3>1, <4>1, JudgedRows DEF TypeOK
      <4>2. QED
        BY <2>4, <4>1 DEF LoadVerdict
    <3>3. QED
      BY <1>1, <1>2, <3>1, <3>2 DEF Named
  <2>5. CASE q = r /\ Do(r)
    BY <1>1, <1>2, <2>5 DEF Do, Named
  <2>6. QED
    BY <1>5, <2>1, <2>2, <2>3, <2>4, <2>5
<1>6. CASE ListRepos
  BY <1>1, <1>6 DEF ListRepos, Named
<1>7. CASE \/ \E key \in Keys : Deploy(key)
           \/ \E ns \in Namespaces : NamespaceMoves(ns)
           \/ ListClusterFunctions \/ ReposListed \/ Merge \/ UNCHANGED vars
  BY <1>3, <1>7 DEF Deploy, NamespaceMoves, ListClusterFunctions, ReposListed, Merge, vars,
                    request
<1>8. QED
  BY <1>4, <1>5, <1>6, <1>7 DEF Next

LEMMA CheckInvStep == IInv /\ [Next]_vars => \A n \in Namespaces : CheckInv(n)'
<1>. SUFFICES ASSUME IInv, [Next]_vars, NEW n \in Namespaces PROVE CheckInv(n)'
  OBVIOUS
<1>. USE DEF IInv
<1>1. ASSUME NEW ns \in Namespaces, NamespaceMoves(ns) PROVE CheckInv(n)'
  BY <1>1 DEF NamespaceMoves, request, CheckInv, TypeOK, Ns
<1>2. ASSUME NEW ns \in Namespaces, CheckNamespace(ns) PROVE CheckInv(n)'
  <2>1. PICK verdict \in {access[ns], "failed"} :
            /\ nsCache' = [m \in Namespaces |->
                              IF m \in CachedUnder(ns) THEN verdict ELSE nsCache[m]]
            /\ Judged(flight[ns], verdict)
    BY <1>2 DEF CheckNamespace
  <2>2. verdict \in Verdicts /\ flight[ns] \in SUBSET Repos
    BY DEF TypeOK, Verdicts
  <2>3. UNCHANGED <<access, found>> /\ flight' = [flight EXCEPT ![ns] = {}]
        /\ pc' = [r \in Repos |-> IF r \in flight[ns] THEN "done" ELSE pc[r]]
    BY <1>2 DEF CheckNamespace, sources, world
  <2>4. access'[n] \in found'[n]
    BY <2>3 DEF CheckInv
  <2>5. nsCache'[n] # None => nsCache'[n] \in found'[n] \cup {"failed"}
    BY <2>1, <2>3 DEF CheckInv, CachedUnder
  <2>6. ASSUME NEW r \in flight'[n] PROVE pc'[r] = "wait" /\ Ns(r)' = n
    <3>1. r \in Repos /\ n # ns /\ r \in flight[n]
      BY <2>3, <2>6 DEF TypeOK
    <3>2. r \notin flight[ns]
      BY <3>1 DEF CheckInv
    <3>3. item'[r].key = item[r].key
      BY <2>1, <2>2, <3>1, JudgedRows
    <3>4. QED
      BY <2>3, <3>1, <3>2, <3>3 DEF CheckInv, Ns
  <2>7. QED
    BY <2>4, <2>5, <2>6 DEF CheckInv
<1>3. ASSUME NEW r \in Repos, GetVariable(r) \/ GetFuncYaml(r) \/ LoadVerdict(r) \/ Do(r)
      PROVE  CheckInv(n)'
  <2>1. UNCHANGED <<access, found, nsCache>>
    BY <1>3, RowStepKeeps DEF sources, world
  <2>2. ASSUME NEW q \in flight[n] PROVE pc'[q] = "wait" /\ Ns(q)' = n
    <3>1. q \in Repos /\ q # r /\ pc[q] = "wait"
      BY <1>3, <2>2, RowStepKeeps DEF CheckInv, TypeOK
    <3>2. QED
      BY <1>3, <2>2, <3>1, RowStepKeeps DEF CheckInv, Ns
  <2>3. CASE flight' = flight
    BY <2>1, <2>2, <2>3 DEF CheckInv
  <2>4. CASE Do(r)
    <3>1. pc'[r] = "wait" /\ Ns(r)' = Ns(r)
      BY <2>4 DEF Do, Goto, Ns, TypeOK
    <3>2. \A q \in flight'[n] : q \in flight[n] \/ (q = r /\ Ns(r) = n)
      BY <2>4 DEF Do, TypeOK
    <3>3. QED
      BY <2>1, <2>2, <3>1, <3>2 DEF CheckInv
  <2>5. QED
    BY <1>3, <2>3, <2>4 DEF GetVariable, GetFuncYaml, LoadVerdict
<1>4. CASE ListRepos
  <2>1. UNCHANGED <<access, found, nsCache, flight, item>>
        /\ \A r \in Repos : pc[r] = "off"
    BY <1>4 DEF ListRepos, world
  <2>2. flight[n] = {}
    BY <2>1 DEF CheckInv, TypeOK
  <2>3. QED
    BY <2>1, <2>2 DEF CheckInv
<1>5. CASE (\E key \in Keys : Deploy(key)) \/ ListClusterFunctions \/ ReposListed \/ Merge
           \/ UNCHANGED vars
  <2>1. UNCHANGED <<access, found, nsCache, flight, item, pc>>
    BY <1>5 DEF Deploy, ListClusterFunctions, ReposListed, Merge, vars, world, request
  <2>2. QED
    BY <2>1 DEF CheckInv, Ns
<1>6. QED
  BY <1>1, <1>2, <1>3, <1>4, <1>5 DEF Next

LEMMA MergeInvStep == IInv /\ [Next]_vars => MergeInv'
<1>. SUFFICES ASSUME IInv, [Next]_vars PROVE MergeInv'
  OBVIOUS
<1>. USE DEF IInv
<1>1. ASSUME UNCHANGED <<scope, repoList, clusterList, clusterRows, excluded, item, pc, answer>>,
             steady' \subseteq steady
      PROVE  MergeInv'
  BY <1>1 DEF MergeInv, InScope, RowsNeed, RepoRows, Covers
<1>2. CASE \/ \E key \in Keys : Deploy(key)
           \/ \E ns \in Namespaces : NamespaceMoves(ns)
           \/ UNCHANGED vars
  BY <1>1, <1>2 DEF Deploy, NamespaceMoves, request, vars, world
<1>3. CASE \/ \E ns \in Namespaces : CheckNamespace(ns)
           \/ \E r \in Repos : GetVariable(r) \/ GetFuncYaml(r) \/ LoadVerdict(r) \/ Do(r)
  <2>1. UNCHANGED <<scope, repoList, clusterList, clusterRows, answer, steady>>
    BY <1>3 DEF CheckNamespace, GetVariable, GetFuncYaml, LoadVerdict, Do, sources, world
  <2>2. \E r \in Repos : pc[r] \notin {"off", "done"}
    <3>1. ASSUME NEW ns \in Namespaces, CheckNamespace(ns)
          PROVE  \E r \in Repos : pc[r] \notin {"off", "done"}
      <4>1. PICK r \in flight[ns] : TRUE
        BY <3>1 DEF CheckNamespace
      <4>2. QED
        BY <4>1 DEF CheckInv, TypeOK
    <3>2. QED
      BY <1>3, <3>1 DEF GetVariable, GetFuncYaml, LoadVerdict, Do
  <2>3. repoList = "pending" /\ answer = None
    BY <2>2 DEF MergeInv, TypeOK, Outcomes
  <2>4. QED
    BY <2>1, <2>3 DEF MergeInv, InScope
<1>4. CASE ListRepos
  BY <1>4 DEF ListRepos, MergeInv, InScope, world
<1>5. CASE ReposListed
  BY <1>5 DEF ReposListed, MergeInv, InScope, world
<1>6. CASE ListClusterFunctions
  BY <1>6 DEF ListClusterFunctions, MergeInv, InScope, world, TypeOK
<1>7. CASE Merge
  BY <1>7 DEF Merge, MergeInv, InScope, world, RowsNeed, RepoRows, Covers, TypeOK
<1>8. QED
  BY <1>2, <1>3, <1>4, <1>5, <1>6, <1>7 DEF Next

LEMMA IInvCorrect == Spec => []IInv
<1>1. IInv /\ [Next]_vars => IInv'
  BY TypeStep, RowInvStep, NamedStep, CheckInvStep, MergeInvStep DEF IInv
<1>2. QED
  BY <1>1, Initially, PTL DEF Spec

\* Every variable keeps its type.
THEOREM TypeCorrect == Spec => []TypeOK
<1>1. IInv => TypeOK
  BY DEF IInv
<1>2. QED
  BY <1>1, IInvCorrect, PTL

\* A deployed function is listed by name whatever call failed in whatever goroutine,
\* and beside a repository of it only if that one's func.yaml was not understood.
THEOREM ShownByName == Spec => []DeployedShown
<1>1. IInv => DeployedShown
  <2>. SUFFICES ASSUME IInv, answer # None, clusterList = "listed",
                       repoList # "unauthorized"
                PROVE  /\ Rows
                       /\ \A key \in steady : InScope(key) =>
                              LET its == {r \in answer.repos : repo[r].key = key}
                              IN  /\ \/ key \in answer.cluster
                                     \/ \E r \in its : item[r].key = key
                                  /\ key \in answer.cluster =>
                                         \A r \in its : item[r].err \in {"unread", "invalid"}
    BY DEF DeployedShown
  <2>1. answer = [status |-> "ok", repos |-> RepoRows,
                  cluster |-> {key \in clusterRows : \A r \in RepoRows : ~Covers(r, key)}]
    BY DEF IInv, MergeInv, RowsNeed
  <2>2. \A key \in steady : InScope(key) => key \in clusterRows
    BY DEF IInv, MergeInv
  <2>3. ASSUME NEW r \in RepoRows
        PROVE  /\ item[r].key \in {None, repo[r].key}
               /\ item[r].key = None => item[r].err \in {"unread", "invalid"}
    <3>1. r \in Repos /\ r \notin excluded /\ pc[r] = "done"
      BY DEF RepoRows, IInv, MergeInv
    <3>2. QED
      BY <3>1 DEF IInv, Named
  <2>4. \A key \in steady : key \in Keys /\ None \notin Keys
    BY ListFunctionsAssumption DEF IInv, TypeOK, Keys
  <2>5. QED
    BY <2>1, <2>2, <2>3, <2>4 DEF Rows, Covers
<1>2. QED
  BY <1>1, IInvCorrect, PTL

\* Sharing checks among goroutines never marks a row with what its namespace was
\* not during the request.
THEOREM MarksEarned == Spec => []MarksAreOfThisRequest
<1>1. IInv => MarksAreOfThisRequest
  <2>. SUFFICES ASSUME IInv, Rows, NEW r \in answer.repos, item[r].key # None
                PROVE  Earned(r)
    BY DEF MarksAreOfThisRequest, Earned
  <2>1. /\ RowsNeed /\ repoList # "unauthorized"
        /\ answer.repos = RepoRows
    BY DEF Rows, IInv, MergeInv
  <2>2. r \in Repos /\ r \notin excluded /\ repoList = "listed"
    BY <2>1 DEF RepoRows
  <2>3. QED
    BY <2>2 DEF IInv, MergeInv, RowInv
<1>2. QED
  BY <1>1, IInvCorrect, PTL

=============================================================================
