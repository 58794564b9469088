--------------------------- MODULE CredentialStore ---------------------------
(***************************************************************************)
(* The SCM credential of an OpenShift user lives in one Secret named after *)
(* the user's identity (scm/credentials, identity, handler/scm_credentials *)
(* and the RequireSCMCredential middleware).  Requests of several users    *)
(* run concurrently against the Secrets API: each call is answered, is     *)
(* refused, or is carried out with its answer lost.  Time passes between   *)
(* calls, so a credential expires under a request's hands.                 *)
(***************************************************************************)
EXTENDS Naturals, FiniteSets

CONSTANTS
    Requests,   \* one HTTP request each
    Users,      \* OpenShift identities: records of a name and a uid, "" for none
    Pats,       \* GitHub tokens
    NoSecret,   \* no Secret of that name
    Retries,    \* retry.DefaultRetry: attempts of one write
    TTL,        \* credentialTTL: lifetime of a token GitHub sees no expiry of
    MaxTime     \* bound: the clock

ASSUME CredentialStoreAssumption ==
    /\ IsFiniteSet(Requests)
    /\ Retries \in Nat \ {0}
    /\ TTL \in Nat \ {0} /\ MaxTime \in Nat
    /\ \A user \in Users :
           /\ user = [name |-> user.name, uid |-> user.uid]
           /\ user.name # ""
    /\ \A user, other \in Users : user.uid = other.uid /\ user.uid # "" => user = other

VARIABLES
    secrets,    \* secrets[n]: the Secret named n in the backend's namespace
    now,        \* the clock
    pc,         \* pc[r]: the call request r makes next
    op,         \* op[r]: what request r asks for
    caller,     \* caller[r]: whom r's OpenShift token authenticates as
    data,       \* data[r]: the credential r read, or is about to write
    attempts,   \* attempts[r]: writes of r that met NotFound
    unfound,    \* unfound[r]: those of them where Create met it (history)
    answer      \* answer[r]: how r was answered

vars == <<secrets, now, pc, op, caller, data, attempts, unfound, answer>>

\* Mutant: accounts are told apart by their name alone.
SecretNameByUser(user) == <<"user", user.name>>

\* The hash of the identity: the uid where there is one, else the name, prefixed.
SecretName(user) ==
    IF user.uid # "" THEN <<"uid", user.uid>> ELSE <<"user", user.name>>

SecretNames == UNION {{<<"uid", user.uid>>, <<"user", user.name>>} : user \in Users}

\* The longest expiry that is stored.
Times == 0..(MaxTime + TTL)
Secret == [user: Users, pat: Pats, expiresAt: Times]

ASSUME NoSecretAssumption == NoSecret \notin Secret

Operations == {"save", "get", "delete"}
Answers == {"ok", "noCredential", "unauthenticated", "unavailable"}

TypeOK ==
    /\ secrets \in [SecretNames -> Secret \cup {NoSecret}]
    /\ now \in 0..MaxTime
    /\ pc \in [Requests -> {"begin", "verify", "resolve", "read", "drop", "delete",
                            "create", "update", "done"}]
    /\ op \in [Requests -> Operations]
    /\ caller \in [Requests -> Users]
    /\ data \in [Requests -> Secret \cup {NoSecret}]
    /\ attempts \in [Requests -> 0..Retries]
    /\ unfound \in [Requests -> 0..Retries]
    /\ answer \in [Requests -> Answers \cup {"none"}]

\* Users may have connected before, their credential being live or long expired.
Init ==
    /\ now = 0
    /\ op \in [Requests -> Operations]
    /\ caller \in [Requests -> Users]
    /\ \E stored \in SUBSET Users, pat \in Pats, expiresAt \in {0, MaxTime} :
           secrets = [n \in SecretNames |->
               IF \E user \in stored : SecretName(user) = n
                 THEN [user |-> CHOOSE user \in stored : SecretName(user) = n,
                       pat |-> pat, expiresAt |-> expiresAt]
                 ELSE NoSecret]
    /\ pc = [r \in Requests |-> "begin"]
    /\ data = [r \in Requests |-> NoSecret]
    /\ attempts = [r \in Requests |-> 0]
    /\ unfound = [r \in Requests |-> 0]
    /\ answer = [r \in Requests |-> "none"]

-----------------------------------------------------------------------------
Goto(r, step) == pc' = [pc EXCEPT ![r] = step] /\ UNCHANGED answer
Answered(r, how) ==
    /\ pc' = [pc EXCEPT ![r] = "done"]
    /\ answer' = [answer EXCEPT ![r] = how]

\* The answer ends the request and what it held.
Ended(r, how) ==
    /\ Answered(r, how)
    /\ data' = [data EXCEPT ![r] = NoSecret]

Name(r) == SecretName(caller[r])
Store(r, secret) == secrets' = [secrets EXCEPT ![Name(r)] = secret]
Remove(r) == Store(r, NoSecret)

asked == <<op, caller>>

Tick ==
    /\ now < MaxTime
    /\ now' = now + 1
    /\ UNCHANGED <<secrets, pc, asked, data, attempts, unfound, answer>>

NoBearer(r) == Answered(r, "unauthenticated")

\* A request without a bearer token is refused; a save first asks GitHub.
Begin(r) ==
    /\ pc[r] = "begin"
    /\ \/ Goto(r, IF op[r] = "save" THEN "verify" ELSE "resolve")
       \/ NoBearer(r)
    /\ UNCHANGED <<secrets, now, asked, data, attempts, unfound>>

\* An expiry GitHub does not tell (time.Time's zero value).
Untold == 0

\* GetUser, for a token GitHub knows.
TokenExpirations == (now + 1)..MaxTime \cup {Untold}

\* GitHub refuses the token or is unreachable, or knows it: nothing is written
\* over a credential before that.
Verify(r) ==
    /\ pc[r] = "verify"
    /\ \/ /\ \E how \in {"unauthenticated", "unavailable"} : Answered(r, how)
          /\ UNCHANGED data
       \/ /\ \E pat \in Pats, expiresAt \in TokenExpirations :
                 data' = [data EXCEPT ![r] =
                     [user |-> caller[r], pat |-> pat, expiresAt |-> expiresAt]]
          /\ Goto(r, "resolve")
    /\ UNCHANGED <<secrets, now, asked, attempts, unfound>>

\* Mutant: the call after the review is named after the request.
FirstCallNamed(r) == op[r]

FirstCall(r) == [save |-> "create", get |-> "read", delete |-> "delete"][op[r]]

\* Save dates a token of untold expiry.
Dated(credential) ==
    [credential EXCEPT !.expiresAt = IF @ = Untold THEN now + TTL ELSE @]

\* Every operation of the store starts with a SelfSubjectReview.  A delete that
\* fails is only logged.
Resolve(r) ==
    /\ pc[r] = "resolve"
    /\ \/ /\ Goto(r, FirstCall(r))
          /\ data' = IF op[r] = "save" THEN [data EXCEPT ![r] = Dated(@)] ELSE data
       \/ \E how \in {"unauthenticated", "unavailable"} :
              Ended(r, IF op[r] = "delete" THEN "ok" ELSE how)
    /\ UNCHANGED <<secrets, now, asked, attempts, unfound>>

Matches(user, other) ==
    IF user.uid # "" \/ other.uid # "" THEN user = other ELSE user.name = other.name

\* Mutant: a credential is dropped at its expiry, not past it.
ExpiredEarly(secret) == now >= secret.expiresAt

Expired(secret) == now > secret.expiresAt

Bound(secret, user) == secret # NoSecret /\ Matches(secret.user, user)

Read(r) ==
    LET secret == secrets[Name(r)] IN
    /\ pc[r] = "read"
    /\ \/ Answered(r, "unavailable") /\ UNCHANGED data
       \/ /\ ~Bound(secret, caller[r])
          /\ Answered(r, "noCredential")
          /\ UNCHANGED data
       \/ /\ Bound(secret, caller[r])
          /\ data' = [data EXCEPT ![r] = secret]
          /\ IF Expired(secret) THEN Goto(r, "drop") ELSE Answered(r, "ok")
    /\ UNCHANGED <<secrets, now, asked, attempts, unfound>>

\* The expired credential is deleted by name; an error is only logged.
Drop(r) ==
    /\ pc[r] = "drop"
    /\ Remove(r) \/ UNCHANGED secrets
    /\ Ended(r, "noCredential")
    /\ UNCHANGED <<now, asked, attempts, unfound>>

\* The user disconnects; an error is only logged.
Delete(r) ==
    /\ pc[r] = "delete"
    /\ Remove(r) \/ UNCHANGED secrets
    /\ Answered(r, "ok")
    /\ UNCHANGED <<now, asked, data, attempts, unfound>>

\* Mutant: the update is retried, without a Create before it.
VanishedUpdates(r) ==
    /\ attempts' = [attempts EXCEPT ![r] = @ + 1]
    /\ IF attempts[r] + 1 < Retries THEN Goto(r, "update") ELSE Answered(r, "unavailable")

\* NotFound, and only that, is retried from Create.
Vanished(r) ==
    /\ attempts' = [attempts EXCEPT ![r] = @ + 1]
    /\ IF attempts[r] + 1 < Retries THEN Goto(r, "create") ELSE Answered(r, "unavailable")

\* Create meets NotFound where the namespace is missing.
Create(r) ==
    /\ pc[r] = "create"
    /\ \/ /\ secrets[Name(r)] = NoSecret
          /\ Store(r, data[r])
          /\ \E how \in {"ok", "unavailable"} : Ended(r, how)
          /\ UNCHANGED <<attempts, unfound>>
       \/ /\ secrets[Name(r)] # NoSecret
          /\ Goto(r, "update")
          /\ UNCHANGED <<secrets, data, attempts, unfound>>
       \/ /\ Vanished(r)
          /\ unfound' = [unfound EXCEPT ![r] = @ + 1]
          /\ UNCHANGED <<secrets, data>>
       \/ /\ Ended(r, "unavailable")
          /\ UNCHANGED <<secrets, attempts, unfound>>
    /\ UNCHANGED <<now, asked>>

Update(r) ==
    /\ pc[r] = "update"
    /\ \/ /\ secrets[Name(r)] # NoSecret
          /\ Store(r, data[r])
          /\ \E how \in {"ok", "unavailable"} : Ended(r, how)
          /\ UNCHANGED attempts
       \/ /\ secrets[Name(r)] = NoSecret
          /\ Vanished(r)
          /\ UNCHANGED <<secrets, data>>
       \/ /\ Ended(r, "unavailable")
          /\ UNCHANGED <<secrets, attempts>>
    /\ UNCHANGED <<now, asked, unfound>>

Step(r) ==
    \/ Begin(r)
    \/ Verify(r)
    \/ Resolve(r)
    \/ Read(r)
    \/ Drop(r)
    \/ Delete(r)
    \/ Create(r)
    \/ Update(r)

Next == Tick \/ \E r \in Requests : Step(r)

Spec == Init /\ [][Next]_vars

-----------------------------------------------------------------------------
(***************************************************************************)
(* Properties                                                              *)
(***************************************************************************)
Gone(n) == secrets[n] # NoSecret /\ secrets'[n] = NoSecret

\* A credential is read, changes or disappears only at the hands of a request that
\* proved to be the user it is bound to, and is only ever replaced by one of the same
\* user: an account that was deleted and created anew, with its old name, neither
\* reads, overwrites nor revokes anything of the old one.
OnlyOwnerTouches ==
    [][/\ \A n \in SecretNames : secrets'[n] # secrets[n] =>
              \E r \in Requests :
                  /\ pc'[r] # pc[r]
                  /\ secrets[n] # NoSecret => secrets[n].user = caller[r]
                  /\ secrets'[n] # NoSecret => secrets'[n].user = caller[r]
       /\ \A r \in Requests :
              data'[r] \notin {data[r], NoSecret} => data'[r].user = caller[r]]_vars

\* A credential that its user did not disconnect disappears only when it is past
\* its expiry, or in the one window a delete by name leaves open: the request that
\* drops it read an expired credential that was replaced since.
LostOnlyToStaleDrop ==
    [][\A n \in SecretNames : Gone(n) =>
          \E r \in Requests :
              /\ pc'[r] # pc[r] /\ Name(r) = n
              /\ \/ op[r] = "delete"
                 \/ data[r] # NoSecret /\ data[r].expiresAt < now]_vars

\* The requests that may have removed the Secret that r saves to.
Removers(r) ==
    {q \in Requests : op[q] # "save" /\ Name(q) = Name(r) /\ pc[q] = "done"}

\* A save is set back only by another request that removes its Secret between two
\* calls, and once by each, or by a Create that meets NotFound, whoever else saves to
\* it: so it gives up only after as many of these as it has attempts.
SetBackByRemovals ==
    \A r \in Requests : attempts[r] <= Cardinality(Removers(r)) + unfound[r]

=============================================================================
