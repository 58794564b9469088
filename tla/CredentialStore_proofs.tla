------------------------ MODULE CredentialStore_proofs ------------------------
(***************************************************************************)
(* Proofs about CredentialStore for any number of requests and users, any  *)
(* bound on retries and any lifetimes.                                     *)
(***************************************************************************)
EXTENDS CredentialStore, FiniteSetTheorems, TLAPS

\* What a request may be about to do, and what it holds then.
StageInv ==
    \A r \in Requests :
        /\ pc[r] \in {"verify", "create", "update"} => op[r] = "save"
        /\ pc[r] \in {"read", "drop"} => op[r] = "get"
        /\ pc[r] = "delete" => op[r] = "delete"
        /\ pc[r] \in {"resolve", "create", "update"} /\ op[r] = "save" =>
               data[r] \in Secret /\ data[r].user = caller[r]
        /\ pc[r] = "drop" => data[r] \in Secret /\ data[r].expiresAt < now
        /\ pc[r] # "done" => attempts[r] < Retries
        /\ unfound[r] <= attempts[r]

\* A Secret is where its user's requests look for it.
OwnInv == \A n \in SecretNames : secrets[n] # NoSecret => SecretName(secrets[n].user) = n

\* A request that is about to miss its Secret has one more removal to count.
Missing(r) == pc[r] = "update" /\ secrets[Name(r)] = NoSecret
BackInv ==
    \A r \in Requests :
        /\ attempts[r] <= Cardinality(Removers(r)) + unfound[r]
        /\ Missing(r) => attempts[r] < Cardinality(Removers(r)) + unfound[r]

IInv == TypeOK /\ StageInv /\ OwnInv /\ BackInv

LEMMA Numbers ==
    /\ IsFiniteSet(Requests)
    /\ Retries \in Nat /\ Retries # 0 /\ TTL \in Nat /\ MaxTime \in Nat
    /\ Times = 0..(MaxTime + TTL)
    /\ NoSecret \notin Secret
BY CredentialStoreAssumption, NoSecretAssumption DEF Times

LEMMA NamesApart ==
    ASSUME NEW user \in Users
    PROVE  /\ SecretName(user) \in SecretNames
           /\ \A other \in Users : SecretName(other) = SecretName(user) => other = user
<1>1. SecretName(user) \in SecretNames
  BY DEF SecretName, SecretNames
<1>2. ASSUME NEW other \in Users, SecretName(other) = SecretName(user) PROVE other = user
  <2>1. /\ user = [name |-> user.name, uid |-> user.uid]
        /\ other = [name |-> other.name, uid |-> other.uid]
        /\ user.uid = other.uid /\ user.uid # "" => user = other
    BY CredentialStoreAssumption
  <2>2. CASE user.uid # "" /\ other.uid # ""
    BY <1>2, <2>1, <2>2 DEF SecretName
  <2>3. CASE user.uid = "" /\ other.uid = ""
    <3>1. user.name = other.name
      BY <1>2, <2>3 DEF SecretName
    <3>2. QED
      BY <2>1, <2>3, <3>1
  <2>4. CASE (user.uid = "") # (other.uid = "")
    BY <1>2, <2>4 DEF SecretName
  <2>5. QED
    BY <2>2, <2>3, <2>4
<1>3. QED
  BY <1>1, <1>2

LEMMA Initially == Init => IInv
<1>. SUFFICES ASSUME Init PROVE IInv
  OBVIOUS
<1>1. PICK stored \in SUBSET Users, pat \in Pats, expiresAt \in {0, MaxTime} :
          secrets = [n \in SecretNames |->
               IF \E user \in stored : SecretName(user) = n
                 THEN [user |-> CHOOSE user \in stored : SecretName(user) = n,
                       pat |-> pat, expiresAt |-> expiresAt]
                 ELSE NoSecret]
  BY DEF Init
<1>2. ASSUME NEW n \in SecretNames
      PROVE  /\ secrets[n] \in Secret \cup {NoSecret}
             /\ secrets[n] # NoSecret => SecretName(secrets[n].user) = n
  <2>1. CASE \E user \in stored : SecretName(user) = n
    <3>1. PICK user \in stored : user = CHOOSE u \in stored : SecretName(u) = n
      BY <2>1
    <3>2. SecretName(user) = n
      BY <2>1, <3>1
    <3>3. secrets[n] = [user |-> user, pat |-> pat, expiresAt |-> expiresAt]
      BY <1>1, <2>1, <3>1
    <3>4. expiresAt \in Times
      BY Numbers
    <3>5. QED
      BY <3>2, <3>3, <3>4 DEF Secret
  <2>2. CASE ~\E user \in stored : SecretName(user) = n
    BY <1>1, <2>2
  <2>3. QED
    BY <2>1, <2>2
<1>3. TypeOK
  <2>1. secrets \in [SecretNames -> Secret \cup {NoSecret}]
    BY <1>1, <1>2
  <2>2. QED
    BY <2>1, Numbers DEF Init, TypeOK
<1>4. StageInv /\ OwnInv
  BY <1>2, Numbers DEF Init, StageInv, OwnInv
<1>5. BackInv
  <2>1. \A r \in Requests : Cardinality(Removers(r)) = 0
    BY FS_EmptySet DEF Init, Removers
  <2>2. QED
    BY <2>1 DEF Init, BackInv, Missing
<1>6. QED
  BY <1>3, <1>4, <1>5 DEF IInv

-----------------------------------------------------------------------------
\* A request moves itself only, and writes only the Secret of its caller.
LEMMA Frame ==
    ASSUME TypeOK, NEW r \in Requests, Step(r)
    PROVE  /\ UNCHANGED <<now, op, caller>>
           /\ \A q \in Requests \ {r} :
                  /\ pc'[q] = pc[q] /\ data'[q] = data[q]
                  /\ attempts'[q] = attempts[q] /\ unfound'[q] = unfound[q]
           /\ Name(r) \in SecretNames
           /\ \A n \in SecretNames \ {Name(r)} : secrets'[n] = secrets[n]
           /\ pc[r] # "done"
<1>. USE DEF Step, Begin, Verify, Resolve, Read, Drop, Delete, Create, Update
<1>1. UNCHANGED <<now, op, caller>> /\ pc[r] # "done"
  BY DEF asked
<1>2. pc' = [pc EXCEPT ![r] = pc'[r]]
  BY DEF TypeOK, Goto, Answered, Ended, NoBearer, Vanished
<1>3. data' = [data EXCEPT ![r] = data'[r]]
  BY DEF TypeOK, Ended
<1>4. /\ attempts' = [attempts EXCEPT ![r] = attempts'[r]]
      /\ unfound' = [unfound EXCEPT ![r] = unfound'[r]]
  BY DEF TypeOK, Vanished
<1>5. secrets' = secrets \/ \E secret : secrets' = [secrets EXCEPT ![Name(r)] = secret]
  BY DEF Remove, Store
<1>6. Name(r) \in SecretNames
  BY NamesApart DEF TypeOK, Name
<1>7. QED
  <2>1. \A q \in Requests \ {r} :
            /\ pc'[q] = pc[q] /\ data'[q] = data[q]
            /\ attempts'[q] = attempts[q] /\ unfound'[q] = unfound[q]
    BY <1>2, <1>3, <1>4 DEF TypeOK
  <2>2. \A n \in SecretNames \ {Name(r)} : secrets'[n] = secrets[n]
    BY <1>5 DEF TypeOK
  <2>3. QED
    BY <1>1, <1>6, <2>1, <2>2

\* What a request does to its Secret.
LEMMA Writes ==
    ASSUME IInv, NEW r \in Requests, Step(r)
    PROVE  \/ secrets' = secrets
           \/ /\ op[r] = "save" /\ pc[r] \in {"create", "update"}
              /\ secrets' = [secrets EXCEPT ![Name(r)] = data[r]]
              /\ data[r] \in Secret /\ data[r].user = caller[r]
           \/ /\ op[r] # "save" /\ pc[r] \in {"drop", "delete"} /\ pc'[r] = "done"
              /\ secrets' = [secrets EXCEPT ![Name(r)] = NoSecret]
<1>. USE DEF IInv, StageInv, TypeOK
<1>1. CASE Create(r) \/ Update(r)
  BY <1>1 DEF Create, Update, Store
<1>2. CASE Drop(r) \/ Delete(r)
  BY <1>2 DEF Drop, Delete, Remove, Store, Answered, Ended
<1>3. CASE Begin(r) \/ Verify(r) \/ Resolve(r) \/ Read(r)
  BY <1>3 DEF Begin, Verify, Resolve, Read
<1>4. QED
  BY <1>1, <1>2, <1>3 DEF Step

LEMMA TypeStep == IInv /\ [Next]_vars => TypeOK'
<1>. SUFFICES ASSUME IInv, [Next]_vars PROVE TypeOK'
  OBVIOUS
<1>. USE DEF IInv, TypeOK
<1>1. CASE Tick
  BY <1>1, Numbers DEF Tick, asked
<1>2. ASSUME NEW r \in Requests, Step(r) PROVE TypeOK'
  <2>1. secrets' \in [SecretNames -> Secret \cup {NoSecret}]
    BY <1>2, Writes
  <2>2. UNCHANGED <<now, op, caller>>
    BY <1>2, Frame
  <2>3. CASE Begin(r)
    BY <2>1, <2>2, <2>3 DEF Begin, Goto, Answered, NoBearer, Answers
  <2>4. CASE Verify(r)
    <3>1. TokenExpirations \subseteq Times
      BY Numbers DEF TokenExpirations, Untold
    <3>2. \A pat \in Pats, expiresAt \in TokenExpirations :
              [user |-> caller[r], pat |-> pat, expiresAt |-> expiresAt] \in Secret
      BY <3>1 DEF Secret
    <3>3. QED
      BY <2>1, <2>2, <2>4, <3>2 DEF Verify, Goto, Answered, Answers
  <2>5. CASE Resolve(r)
    <3>1. op[r] = "save" => Dated(data[r]) \in Secret
      <4>1. now + TTL \in Times
        BY Numbers
      <4>2. op[r] = "save" => data[r] \in Secret
        BY <2>5 DEF Resolve, StageInv
      <4>3. QED
        BY <4>1, <4>2 DEF Dated, Secret
    <3>2. FirstCall(r) \in {"create", "read", "delete"}
      BY DEF FirstCall, Operations
    <3>3. QED
      BY <2>1, <2>2, <2>5, <3>1, <3>2 DEF Resolve, Goto, Answered, Ended, Answers
  <2>6. CASE Read(r)
    <3>1. secrets[Name(r)] \in Secret \cup {NoSecret}
      BY <1>2, Frame
    <3>2. QED
      BY <2>1, <2>2, <2>6, <3>1 DEF Read, Goto, Answered, Answers
  <2>7. CASE Drop(r) \/ Delete(r)
    BY <2>1, <2>2, <2>7 DEF Drop, Delete, Answered, Ended, Answers
  <2>8. CASE Create(r)
    <3>1. /\ attempts[r] < Retries
          /\ unfound[r] <= attempts[r]
      BY <2>8 DEF Create, StageInv
    <3>2. attempts[r] + 1 \in 0..Retries /\ unfound[r] + 1 \in 0..Retries
      BY <3>1, Numbers
    <3>3. QED
      BY <2>1, <2>2, <2>8, <3>2 DEF Create, Vanished, Goto, Answered, Ended, Answers
  <2>9. CASE Update(r)
    <3>1. pc[r] = "update" /\ attempts[r] < Retries
      BY <2>9 DEF Update, StageInv
    <3>2. attempts[r] + 1 \in 0..Retries
      BY <3>1, Numbers
    <3>3. QED
      BY <2>1, <2>2, <2>9, <3>2 DEF Update, Vanished, Goto, Answered, Ended, Answers
  <2>10. QED
    BY <1>2, <2>3, <2>4, <2>5, <2>6, <2>7, <2>8, <2>9 DEF Step
<1>3. CASE UNCHANGED vars
  BY <1>3 DEF vars
<1>4. QED
  BY <1>1, <1>2, <1>3 DEF Next

LEMMA StageStep == IInv /\ [Next]_vars => StageInv'
<1>. SUFFICES ASSUME IInv, [Next]_vars PROVE StageInv'
  OBVIOUS
<1>. USE DEF IInv, TypeOK, StageInv
<1>1. CASE Tick
  <2>1. ASSUME NEW r \in Requests, pc[r] = "drop" PROVE data[r].expiresAt < now + 1
    <3>1. data[r].expiresAt \in Nat /\ data[r].expiresAt < now
      BY <2>1, Numbers DEF Secret
    <3>2. QED
      BY <3>1, Numbers
  <2>2. QED
    BY <1>1, <2>1 DEF Tick, asked
<1>2. ASSUME NEW r \in Requests, Step(r) PROVE StageInv'
  <2>1. /\ UNCHANGED <<now, op, caller>>
        /\ \A q \in Requests \ {r} :
               /\ pc'[q] = pc[q] /\ data'[q] = data[q]
               /\ attempts'[q] = attempts[q] /\ unfound'[q] = unfound[q]
    BY <1>2, Frame
  <2>. DEFINE Stage(q) ==
        /\ pc[q] \in {"verify", "create", "update"} => op[q] = "save"
        /\ pc[q] \in {"read", "drop"} => op[q] = "get"
        /\ pc[q] = "delete" => op[q] = "delete"
        /\ pc[q] \in {"resolve", "create", "update"} /\ op[q] = "save" =>
               data[q] \in Secret /\ data[q].user = caller[q]
        /\ pc[q] = "drop" => data[q] \in Secret /\ data[q].expiresAt < now
        /\ pc[q] # "done" => attempts[q] < Retries
        /\ unfound[q] <= attempts[q]
  <2>2. Stage(r)'
    <3>1. CASE Begin(r)
      BY <2>1, <3>1 DEF Begin, Goto, Answered, NoBearer
    <3>2. CASE Verify(r)
      <4>1. TokenExpirations \subseteq Times
        BY Numbers DEF TokenExpirations, Untold
      <4>2. \A pat \in Pats, expiresAt \in TokenExpirations :
              [user |-> caller[r], pat |-> pat, expiresAt |-> expiresAt] \in Secret
        BY <4>1 DEF Secret
      <4>3. CASE pc'[r] = "done"
        BY <2>1, <3>2, <4>3 DEF Verify
      <4>4. CASE pc'[r] # "done"
        BY <2>1, <3>2, <4>2, <4>4 DEF Verify, Goto, Answered
      <4>5. QED
        BY <4>3, <4>4
    <3>3. CASE Resolve(r)
      <4>1. now + TTL \in Times
        BY Numbers
      <4>2. op[r] = "save" => /\ Dated(data[r]) \in Secret
                              /\ Dated(data[r]).user = caller[r]
        BY <3>3, <4>1 DEF Resolve, Dated, Secret
      <4>3. QED
        BY <2>1, <3>3, <4>2 DEF Resolve, Goto, Answered, Ended, FirstCall, Operations
    <3>4. CASE Read(r)
      <4>1. secrets[Name(r)] \in Secret \cup {NoSecret}
        BY <1>2, Frame
      <4>2. CASE pc'[r] = "drop"
        <5>1. /\ data'[r] = secrets[Name(r)] /\ secrets[Name(r)] # NoSecret
              /\ now > secrets[Name(r)].expiresAt /\ pc[r] = "read"
              /\ UNCHANGED <<attempts, unfound>>
          BY <3>4, <4>2 DEF Read, Goto, Answered, Bound, Expired
        <5>2. secrets[Name(r)] \in Secret /\ secrets[Name(r)].expiresAt \in Nat
          BY <4>1, <5>1, Numbers DEF Secret
        <5>3. QED
          BY <2>1, <4>2, <5>1, <5>2, Numbers
      <4>3. CASE pc'[r] # "drop"
        BY <2>1, <3>4, <4>3 DEF Read, Goto, Answered
      <4>4. QED
        BY <4>2, <4>3
    <3>5. CASE Drop(r) \/ Delete(r)
      BY <2>1, <3>5 DEF Drop, Delete, Answered, Ended
    <3>6. CASE Create(r)
      <4>1. CASE /\ Vanished(r) /\ UNCHANGED data /\ pc[r] = "create"
                 /\ unfound' = [unfound EXCEPT ![r] = @ + 1]
        BY <2>1, <4>1, Numbers DEF Vanished, Goto, Answered
      <4>2. CASE Goto(r, "update") /\ UNCHANGED <<data, attempts, unfound>> /\ pc[r] = "create"
        BY <2>1, <4>2 DEF Goto
      <4>3. CASE pc'[r] = "done" /\ UNCHANGED <<attempts, unfound>>
        BY <2>1, <4>3
      <4>4. QED
        BY <3>6, <4>1, <4>2, <4>3 DEF Create, Answered, Ended
    <3>7. CASE Update(r)
      <4>1. CASE Vanished(r) /\ UNCHANGED <<data, unfound>> /\ pc[r] = "update"
        BY <2>1, <4>1, Numbers DEF Vanished, Goto, Answered
      <4>2. CASE pc'[r] = "done" /\ UNCHANGED <<attempts, unfound>>
        BY <2>1, <4>2
      <4>3. QED
        BY <3>7, <4>1, <4>2 DEF Update, Answered, Ended
    <3>8. QED
      BY <1>2, <3>1, <3>2, <3>3, <3>4, <3>5, <3>6, <3>7 DEF Step
  <2>3. \A q \in Requests : Stage(q)'
    BY <2>1, <2>2
  <2>4. QED
    BY <2>3
<1>3. CASE UNCHANGED vars
  BY <1>3 DEF vars
<1>4. QED
  BY <1>1, <1>2, <1>3 DEF Next

LEMMA OwnStep == IInv /\ [Next]_vars => OwnInv'
<1>. SUFFICES ASSUME IInv, [Next]_vars, NEW n \in SecretNames, secrets'[n] # NoSecret
              PROVE  SecretName(secrets'[n].user) = n
  BY DEF OwnInv
<1>1. CASE secrets' = secrets
  BY <1>1 DEF IInv, OwnInv
<1>2. ASSUME NEW r \in Requests, Step(r) PROVE SecretName(secrets'[n].user) = n
  <2>1. CASE n = Name(r) /\ secrets' # secrets
    <3>1. secrets'[n] = data[r] /\ data[r].user = caller[r]
      BY <1>2, <2>1, Writes DEF IInv, TypeOK
    <3>2. QED
      BY <2>1, <3>1 DEF Name
  <2>2. CASE ~(n = Name(r) /\ secrets' # secrets)
    BY <1>2, <2>2, Frame DEF IInv, OwnInv
  <2>3. QED
    BY <2>1, <2>2
<1>3. QED
  BY <1>1, <1>2 DEF Next, Tick, vars

\* No step removes a request from those that may have removed a Secret; one that
\* does remove it joins them.
LEMMA RemoversGrow ==
    ASSUME IInv, NEW r \in Requests, Step(r), NEW q \in Requests
    PROVE  /\ Cardinality(Removers(q)) \in Nat /\ Cardinality(Removers(q)') \in Nat
           /\ Cardinality(Removers(q)) <= Cardinality(Removers(q)')
           /\ op[r] # "save" /\ Name(r) = Name(q) /\ pc'[r] = "done" =>
                  Cardinality(Removers(q)) < Cardinality(Removers(q)')
<1>1. IsFiniteSet(Removers(q)) /\ IsFiniteSet(Removers(q)')
  BY Numbers, FS_Subset DEF Removers
<1>2. Removers(q) \subseteq Removers(q)'
  BY Frame DEF Removers, Name, IInv
<1>3. ASSUME op[r] # "save", Name(r) = Name(q), pc'[r] = "done"
      PROVE  Removers(q) # Removers(q)'
  <2>1. r \in Removers(q)'
    BY <1>3, Frame DEF Removers, Name, IInv
  <2>2. r \notin Removers(q)
    BY Frame DEF Removers, IInv
  <2>3. QED
    BY <2>1, <2>2
<1>4. QED
  BY <1>1, <1>2, <1>3, FS_Subset, FS_CardinalityType

LEMMA BackStep == IInv /\ [Next]_vars => BackInv'
<1>. SUFFICES ASSUME IInv, [Next]_vars, NEW q \in Requests
              PROVE  /\ attempts'[q] <= Cardinality(Removers(q)') + unfound'[q]
                     /\ Missing(q)' => attempts'[q] < Cardinality(Removers(q)') + unfound'[q]
  BY DEF BackInv
<1>1. CASE UNCHANGED <<secrets, pc, op, caller, attempts, unfound>>
  BY <1>1 DEF IInv, BackInv, Missing, Removers, Name
<1>2. ASSUME NEW r \in Requests, Step(r)
      PROVE  /\ attempts'[q] <= Cardinality(Removers(q)') + unfound'[q]
             /\ Missing(q)' => attempts'[q] < Cardinality(Removers(q)') + unfound'[q]
  <2>1. /\ Cardinality(Removers(q)) \in Nat /\ Cardinality(Removers(q)') \in Nat
        /\ Cardinality(Removers(q)) <= Cardinality(Removers(q)')
        /\ op[r] # "save" /\ Name(r) = Name(q) /\ pc'[r] = "done" =>
               Cardinality(Removers(q)) < Cardinality(Removers(q)')
    BY <1>2, RemoversGrow
  <2>2. /\ attempts[q] \in Nat /\ unfound[q] \in Nat
        /\ attempts[q] <= Cardinality(Removers(q)) + unfound[q]
        /\ Missing(q) => attempts[q] < Cardinality(Removers(q)) + unfound[q]
    BY DEF IInv, BackInv, TypeOK
  <2>3. caller' = caller /\ Name(q)' = Name(q) /\ Name(q) \in SecretNames
    BY <1>2, Frame, NamesApart DEF IInv, TypeOK, Name
  <2>4. CASE q = r
    <3>1. CASE Update(r) /\ attempts' # attempts
      <4>1. /\ Missing(r) /\ Vanished(r)
        BY <3>1 DEF Update, Missing, IInv, TypeOK
      <4>2. attempts'[r] = attempts[r] + 1 /\ unfound' = unfound /\ ~Missing(r)'
        BY <3>1, <4>1 DEF Update, Vanished, Goto, Answered, Missing, IInv, TypeOK
      <4>3. QED
        BY <2>1, <2>2, <2>4, <4>1, <4>2
    <3>2. CASE UNCHANGED <<attempts, unfound>> /\ ~Missing(r)'
      BY <2>1, <2>2, <2>4, <3>2
    <3>3. attempts' = attempts => ~Missing(r)'
      <4>1. SUFFICES ASSUME attempts' = attempts, pc'[r] = "update"
                     PROVE  secrets'[Name(r)] # NoSecret
        BY <2>3, <2>4 DEF Missing
      <4>2. Create(r) /\ secrets[Name(r)] # NoSecret /\ secrets' = secrets
        BY <1>2, <4>1 DEF Step, Begin, Verify, Resolve, Read, Drop, Delete, Create, Update,
                Goto, Answered, Ended, NoBearer, Vanished, FirstCall, Operations, IInv, TypeOK
      <4>3. QED
        BY <2>3, <2>4, <4>2
    <3>4. CASE Create(r) /\ attempts' # attempts
      <4>1. /\ pc'[r] # "update" /\ attempts'[r] = attempts[r] + 1
            /\ unfound'[r] = unfound[r] + 1
        BY <3>4 DEF Create, Vanished, Goto, Answered, IInv, TypeOK
      <4>2. QED
        BY <2>1, <2>2, <2>4, <4>1 DEF Missing
    <3>5. /\ attempts' # attempts => Update(r) \/ Create(r)
          /\ attempts' = attempts => unfound' = unfound
      BY <1>2 DEF Step, Begin, Verify, Resolve, Read, Drop, Delete, Create, Update, Vanished,
              IInv, TypeOK
    <3>6. QED
      BY <3>1, <3>2, <3>3, <3>4, <3>5
  <2>5. CASE q # r
    <3>1. pc'[q] = pc[q] /\ attempts'[q] = attempts[q] /\ unfound'[q] = unfound[q]
      BY <1>2, <2>5, Frame DEF IInv
    <3>2. ASSUME Missing(q)', ~Missing(q)
          PROVE  op[r] # "save" /\ Name(r) = Name(q) /\ pc'[r] = "done"
      <4>1. secrets'[Name(q)] = NoSecret /\ secrets[Name(q)] # NoSecret
        BY <2>3, <3>1, <3>2 DEF Missing
      <4>2. Name(r) = Name(q)
        BY <1>2, <2>3, <4>1, Frame DEF IInv
      <4>3. secrets' # [secrets EXCEPT ![Name(r)] = data[r]] \/ data[r] \notin Secret
        BY <2>3, <4>1, <4>2, Numbers DEF IInv, TypeOK
      <4>4. QED
        BY <1>2, <4>1, <4>2, <4>3, Writes
    <3>3. QED
      BY <2>1, <2>2, <3>1, <3>2
  <2>6. QED
    BY <2>4, <2>5
<1>3. QED
  BY <1>1, <1>2 DEF Next, Tick, vars, asked

LEMMA IInvCorrect == Spec => []IInv
<1>1. IInv /\ [Next]_vars => IInv'
  BY TypeStep, StageStep, OwnStep, BackStep DEF IInv
<1>2. QED
  BY <1>1, Initially, PTL DEF Spec

\* Every variable keeps its type, for any number of requests and users.
THEOREM TypeCorrect == Spec => []TypeOK
<1>1. IInv => TypeOK
  BY DEF IInv
<1>2. QED
  BY <1>1, IInvCorrect, PTL

\* A save gives up only after as many removals by others as it has attempts.
THEOREM SetBackOnlyByRemovals == Spec => []SetBackByRemovals
<1>1. IInv => SetBackByRemovals
  BY DEF IInv, BackInv, SetBackByRemovals
<1>2. QED
  BY <1>1, IInvCorrect, PTL

\* No request touches the Secret of another user, however accounts come and go.
THEOREM OwnersOnly == Spec => OnlyOwnerTouches
<1>. DEFINE A == \A n \in SecretNames : secrets'[n] # secrets[n] =>
                    \E r \in Requests :
                        /\ pc'[r] # pc[r]
                        /\ secrets[n] # NoSecret => secrets[n].user = caller[r]
                        /\ secrets'[n] # NoSecret => secrets'[n].user = caller[r]
             B == \A r \in Requests :
                    data'[r] \notin {data[r], NoSecret} => data'[r].user = caller[r]
<1>1. IInv /\ [Next]_vars => A
  <2>. SUFFICES ASSUME IInv, [Next]_vars, NEW n \in SecretNames, secrets'[n] # secrets[n]
                PROVE  \E r \in Requests :
                           /\ pc'[r] # pc[r]
                           /\ secrets[n] # NoSecret => secrets[n].user = caller[r]
                           /\ secrets'[n] # NoSecret => secrets'[n].user = caller[r]
    OBVIOUS
  <2>1. PICK r \in Requests : Step(r)
    BY DEF Next, Tick, vars
  <2>2. n = Name(r) /\ caller[r] \in Users
    BY <2>1, Frame DEF IInv, TypeOK
  <2>3. ASSUME secrets[n] # NoSecret PROVE secrets[n].user = caller[r]
    <3>1. SecretName(secrets[n].user) = SecretName(caller[r]) /\ secrets[n].user \in Users
      BY <2>2, <2>3 DEF IInv, OwnInv, TypeOK, Secret, Name
    <3>2. QED
      BY <2>2, <3>1, NamesApart
  <2>4. ASSUME secrets'[n] # NoSecret PROVE secrets'[n].user = caller[r]
    BY <2>1, <2>2, <2>4, Writes DEF IInv, TypeOK
  <2>5. pc'[r] # pc[r]
    <3>1. CASE Create(r) \/ Update(r) \/ Drop(r) \/ Delete(r)
      BY <3>1 DEF Create, Update, Drop, Delete, Goto, Answered, Ended, Vanished, IInv, TypeOK
    <3>2. CASE Begin(r) \/ Verify(r) \/ Resolve(r) \/ Read(r)
      BY <3>2 DEF Begin, Verify, Resolve, Read
    <3>3. QED
      BY <2>1, <3>1, <3>2 DEF Step
  <2>6. QED
    BY <2>3, <2>4, <2>5
<1>2. IInv /\ [Next]_vars => B
  <2>. SUFFICES ASSUME IInv, [Next]_vars, NEW r \in Requests,
                       data'[r] \notin {data[r], NoSecret}
                PROVE  data'[r].user = caller[r]
    OBVIOUS
  <2>1. Step(r)
    BY Frame DEF Next, Tick, vars, IInv
  <2>2. caller[r] \in Users /\ Name(r) = SecretName(caller[r]) /\ Name(r) \in SecretNames
    BY <2>1, Frame DEF IInv, TypeOK, Name
  <2>3. CASE Verify(r)
    BY <2>3 DEF Verify, IInv, TypeOK
  <2>4. CASE Resolve(r)
    <3>1. op[r] = "save" /\ data'[r] = Dated(data[r])
      BY <2>4 DEF Resolve, Ended, IInv, TypeOK
    <3>2. pc[r] = "resolve" /\ data[r] \in Secret /\ data[r].user = caller[r]
      BY <2>4, <3>1 DEF Resolve, IInv, StageInv
    <3>3. QED
      BY <3>1, <3>2 DEF Dated, Secret
  <2>5. CASE Read(r)
    <3>1. data'[r] = secrets[Name(r)] /\ secrets[Name(r)] # NoSecret
      BY <2>5 DEF Read, Bound, IInv, TypeOK
    <3>2. secrets[Name(r)].user \in Users
      BY <2>2, <3>1 DEF IInv, TypeOK, Secret
    <3>3. SecretName(secrets[Name(r)].user) = SecretName(caller[r])
      BY <2>2, <3>1 DEF IInv, OwnInv
    <3>4. QED
      BY <2>2, <3>1, <3>2, <3>3, NamesApart
  <2>6. CASE Begin(r) \/ Drop(r) \/ Delete(r) \/ Create(r) \/ Update(r)
    BY <2>6 DEF Begin, Drop, Delete, Create, Update, Ended, IInv, TypeOK
  <2>7. QED
    BY <2>1, <2>3, <2>4, <2>5, <2>6 DEF Step
<1>3. IInv /\ [Next]_vars => [A /\ B]_vars
  BY <1>1, <1>2
<1>4. Spec => [][/\ \A n \in SecretNames : secrets'[n] # secrets[n] =>
                        \E r \in Requests :
                            /\ pc'[r] # pc[r]
                            /\ secrets[n] # NoSecret => secrets[n].user = caller[r]
                            /\ secrets'[n] # NoSecret => secrets'[n].user = caller[r]
                 /\ \A r \in Requests :
                        data'[r] \notin {data[r], NoSecret}
                            => data'[r].user = caller[r]]_vars
  BY <1>3, IInvCorrect, PTL DEF Spec
<1>5. QED
  BY <1>4 DEF OnlyOwnerTouches

\* A credential is lost only to its user's disconnect, or to a request that read an
\* expired one.
THEOREM LostOnlyKnownWays == Spec => LostOnlyToStaleDrop
<1>. DEFINE A == \A n \in SecretNames : Gone(n) =>
          \E r \in Requests :
              /\ pc'[r] # pc[r] /\ Name(r) = n
              /\ \/ op[r] = "delete"
                 \/ data[r] # NoSecret /\ data[r].expiresAt < now
<1>1. IInv /\ [Next]_vars => A
  <2>. SUFFICES ASSUME IInv, [Next]_vars, NEW n \in SecretNames, Gone(n)
                PROVE  \E r \in Requests :
                           /\ pc'[r] # pc[r] /\ Name(r) = n
                           /\ \/ op[r] = "delete"
                              \/ data[r] # NoSecret /\ data[r].expiresAt < now
    OBVIOUS
  <2>1. PICK r \in Requests : Step(r)
    BY DEF Next, Tick, vars, Gone
  <2>2. n = Name(r)
    BY <2>1, Frame DEF IInv, Gone
  <2>3. pc[r] \in {"drop", "delete"} /\ pc'[r] = "done"
    BY <2>1, <2>2, Writes, Numbers DEF IInv, TypeOK, Gone
  <2>4. op[r] = "delete" \/ (data[r] # NoSecret /\ data[r].expiresAt < now)
    BY <2>3, Numbers DEF IInv, StageInv
  <2>5. QED
    BY <2>2, <2>3, <2>4
<1>2. IInv /\ [Next]_vars => [A]_vars
  BY <1>1
<1>3. Spec => [][A]_vars
  BY <1>2, IInvCorrect, PTL DEF Spec
<1>4. QED
  BY <1>3 DEF LostOnlyToStaleDrop

=============================================================================
