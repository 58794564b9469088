-------------------------- MODULE KubeconfigRefresh --------------------------
(***************************************************************************)
(* PUT /api/v1/func/{owner}/{name}/files on one function repository        *)
(* (handler/files.go): before it pushes the edited files, the handler      *)
(* looks at KUBECONFIG_EXPIRE_AT and, when the deployment credential is    *)
(* close to its end, replaces it: a new service account token goes into    *)
(* the KUBECONFIG secret and its expiry into the variable.  The secret     *)
(* cannot be read back, so the variable is all that later requests know of *)
(* it.  Requests run concurrently, in several backend processes that may   *)
(* have been configured with different lifetimes, time passes between      *)
(* their calls, calls fail with or without effect, processes die.          *)
(***************************************************************************)
EXTENDS Sequences, TokenExpiry

CONSTANTS
    Edits,      \* one PUT request each
    Unset,      \* the variable is missing or malformed; no token requested
    Grants,     \* lifetimes that the API server gives a token, whatever was asked
    MaxTime     \* bound: the clock

ASSUME KubeconfigRefreshAssumption ==
    /\ MaxTime \in Nat
    /\ Unset \notin Nat
    /\ Grants \subseteq Nat

VARIABLES
    now,        \* the clock
    secret,     \* when the token in the KUBECONFIG secret expires
    variable,   \* KUBECONFIG_EXPIRE_AT
    log,        \* the branch: the edits pushed, oldest first
    pc,         \* pc[e]: the call edit e makes next
    minted,     \* minted[e]: expiry of the token e requested
    checked,    \* checked[e]: when e looked at the variable (history)
    base,       \* base[e]: the head of the branch e builds its commit on
    lifetime,   \* lifetime[e]: saTokenExpiry of the process that serves e
    overlap,    \* a secret was stored between token and last write of another (history)
    shortened   \* a token was granted that ends before the one in the secret (history)

history == <<overlap, shortened>>
vars == <<now, secret, variable, log, pc, minted, checked, base, lifetime, history>>

Steps == {"check", "funcYaml", "token", "secret", "variable",
          "getRef", "updateRef", "pushed", "failed"}

TypeOK ==
    /\ now \in 0..MaxTime
    /\ secret \in Nat
    /\ variable \in Nat \cup {Unset}
    /\ log \in Seq(Edits)
    /\ pc \in [Edits -> Steps]
    /\ minted \in [Edits -> Nat \cup {Unset}]
    /\ checked \in [Edits -> 0..MaxTime]
    /\ base \in [Edits -> Nat]
    /\ lifetime \in [Edits -> Lifetimes]
    /\ overlap \in BOOLEAN
    /\ shortened \in BOOLEAN

\* The function was created some time ago: its variable tells its secret's expiry,
\* or was lost or edited by hand since.
Init ==
    /\ now = 0
    /\ \E valid \in Grants : secret \in 0..valid
    /\ variable \in {secret, Unset}
    /\ log = <<>>
    /\ pc = [e \in Edits |-> "check"]
    /\ minted = [e \in Edits |-> Unset]
    /\ checked = [e \in Edits |-> 0]
    /\ base = [e \in Edits |-> 0]
    /\ lifetime \in [Edits -> Lifetimes]
    /\ overlap = FALSE
    /\ shortened = FALSE

-----------------------------------------------------------------------------
Goto(e, step) == pc' = [pc EXCEPT ![e] = step]

\* RefreshWindow: one sixth of the lifetime.
Window(e) == lifetime[e] \div 6

\* Mutant: only a credential that has already expired is replaced.
NeedsRefreshLate(e) == variable # Unset => variable <= now

NeedsRefresh(e) == variable # Unset => variable - now <= Window(e)

repository == <<secret, variable, log>>

Tick ==
    /\ now < MaxTime
    /\ now' = now + 1
    /\ UNCHANGED <<repository, pc, minted, checked, base, lifetime, history>>

\* GetVariable, in which a missing variable is no error.
Check(e) ==
    /\ pc[e] = "check"
    /\ \/ NeedsRefresh(e) /\ Goto(e, "funcYaml")
       \/ ~NeedsRefresh(e) /\ Goto(e, "getRef")
       \/ Goto(e, "failed")
    /\ checked' = [checked EXCEPT ![e] = now]
    /\ UNCHANGED <<now, repository, minted, base, lifetime, history>>

\* func.yaml names the namespace; it may be unreadable, broken or invalid.
ReadFuncYaml(e) ==
    /\ pc[e] = "funcYaml"
    /\ \E step \in {"token", "failed"} : Goto(e, step)
    /\ UNCHANGED <<now, repository, minted, checked, base, lifetime, history>>

\* The handler asks for the lifetime of its process and goes by the expiry that the
\* API server answers, which may cap or extend what it was asked for.
RequestToken(e) ==
    /\ pc[e] = "token"
    /\ \/ /\ \E granted \in Grants : minted' = [minted EXCEPT ![e] = now + granted]
          /\ shortened' = (shortened \/ minted'[e] < secret)
          /\ Goto(e, "secret")
       \/ /\ Goto(e, "failed")
          /\ UNCHANGED <<minted, shortened>>
    /\ UNCHANGED <<now, repository, checked, base, lifetime, overlap>>

\* Another edit is between its token and its last write.
Refreshing(e) == \E f \in Edits \ {e} : pc[f] \in {"secret", "variable"}

StoreSecret(e) ==
    /\ pc[e] = "secret"
    /\ \/ /\ secret' = minted[e]
          /\ overlap' = (overlap \/ Refreshing(e))
          /\ Goto(e, "variable") \/ Goto(e, "failed")
       \/ /\ Goto(e, "failed")
          /\ UNCHANGED <<secret, overlap>>
    /\ UNCHANGED <<now, variable, log, minted, checked, base, lifetime, shortened>>

\* Mutant: the variable tells the current time plus the lifetime.
ExpireAtNow(e) == now + lifetime[e]

ExpireAt(e) == minted[e]

StoreExpireAt(e) ==
    /\ pc[e] = "variable"
    /\ \/ /\ variable' = ExpireAt(e)
          /\ Goto(e, "getRef") \/ Goto(e, "failed")
       \/ /\ Goto(e, "failed")
          /\ UNCHANGED variable
    /\ UNCHANGED <<now, secret, log, minted, checked, base, lifetime, history>>

\* PushFiles reads the branch, and builds tree and commit on it ...
GetRef(e) ==
    /\ pc[e] = "getRef"
    /\ \/ /\ base' = [base EXCEPT ![e] = Len(log)]
          /\ Goto(e, "updateRef")
       \/ /\ Goto(e, "failed")
          /\ UNCHANGED base
    /\ UNCHANGED <<now, repository, minted, checked, lifetime, history>>

\* Mutant: the reference is updated by force.
PushedForced(e) == log' = Append(SubSeq(log, 1, base[e]), e)

\* ... and moves the branch to it, which GitHub does only as a fast-forward.
Pushed(e) == base[e] = Len(log) /\ log' = Append(log, e)

UpdateRef(e) ==
    /\ pc[e] = "updateRef"
    /\ \/ /\ Pushed(e)
          /\ \E step \in {"pushed", "failed"} : Goto(e, step)
       \/ /\ Goto(e, "failed")
          /\ UNCHANGED log
    /\ UNCHANGED <<now, secret, variable, minted, checked, base, lifetime, history>>

Edit(e) ==
    \/ Check(e)
    \/ ReadFuncYaml(e)
    \/ RequestToken(e)
    \/ StoreSecret(e)
    \/ StoreExpireAt(e)
    \/ GetRef(e)
    \/ UpdateRef(e)

\* A backend that dies leaves the repository as any failed call does.
Next == Tick \/ \E e \in Edits : Edit(e)

Spec == Init /\ [][Next]_vars

-----------------------------------------------------------------------------
(***************************************************************************)
(* Properties                                                              *)
(***************************************************************************)

\* The variable never promises more than the secret holds: a refresh that stops
\* halfway, between the two writes, errs on the side of refreshing again.
NeverLate == variable # Unset => variable <= secret

\* Nothing in the handler guards that promise but the order of its two writes and
\* the course of time.  Two refreshes at a time break it, if one stores its secret
\* between the token and the last write of the other; and so does a token that ends
\* before the one it replaces, because a process asked for less or the API server
\* granted less.  Nothing else does, whatever fails or dies.
LateOnlyAfterOverlap == overlap \/ shortened \/ NeverLate

\* A push starts the CI workflow, which deploys with the secret.  But for those two
\* causes, the secret is still live when the push lands, for every request that takes
\* no longer than the refresh window, or than the token lives that it was granted.
PushesOnLiveCredential ==
    [][\A e \in Edits : log' # log /\ pc'[e] # pc[e] =>
          \/ overlap \/ shortened
          \/ now - checked[e] > Window(e)
          \/ minted[e] # Unset /\ minted[e] <= now
          \/ secret > now]_vars

\* Concurrent pushes never undo one another: the branch only grows.
PushesOnlyAppend ==
    [][Len(log') >= Len(log) /\ SubSeq(log', 1, Len(log)) = log]_vars

=============================================================================
