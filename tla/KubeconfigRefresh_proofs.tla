------------------------ MODULE KubeconfigRefresh_proofs ------------------------
(***************************************************************************)
(* Proofs about KubeconfigRefresh for any number of concurrent edits, any  *)
(* lifetime and any length of time.                                        *)
(***************************************************************************)
EXTENDS KubeconfigRefresh, TLAPS

Writing(e) == pc[e] \in {"secret", "variable"}
Pushing(e) == pc[e] \in {"getRef", "updateRef"}

\* An edit that writes has a token.
MintedInv ==
    \A e \in Edits : checked[e] <= now /\ (Writing(e) => minted[e] \in Nat)

\* What is known of an edit by where it stands: a token it is about to store promises
\* no less than the variable does, the secret holds the token it has stored, and it
\* pushes knowing of its own token or of a credential that outlasts the window.
Told(e) ==
    /\ pc[e] = "secret" /\ variable # Unset => variable <= minted[e]
    /\ pc[e] = "variable" => secret = minted[e]
    /\ Pushing(e) => /\ variable # Unset
                     /\ \/ checked[e] + Window(e) < variable
                        \/ minted[e] # Unset /\ minted[e] <= variable

\* As long as refreshes have not come in one another's way and no token has ended
\* before the one it replaced, the refresh that has stored its token has the oldest.
FreshInv ==
    ~overlap /\ ~shortened =>
        /\ NeverLate
        /\ \A e, f \in Edits :
               pc[e] = "secret" /\ pc[f] = "variable" => minted[f] <= minted[e]
        /\ \A e \in Edits : Told(e)

IInv == TypeOK /\ MintedInv /\ FreshInv

LEMMA Parsed ==
    ASSUME NEW flag \in Flags, ParseSATokenExpiry(flag) # Refused
    PROVE  ParseSATokenExpiry(flag) \in Nat \ {0}
<1>. DEFINE secs == Truncated(ParseExpiryDuration(flag), Second)
<1>1. CASE flag = Empty
  BY <1>1, TokenExpiryAssumption DEF ParseSATokenExpiry
<1>2. CASE flag # Empty /\ flag # Malformed /\ secs > 0
  <2>1. flag.days \in Int /\ flag.rest \in Int /\ Second \in Nat \ {0} /\ Words \in Nat \ {0}
        /\ Day \in Nat
    BY <1>2, TokenExpiryAssumption DEF Durations
  <2>2. ASSUME NEW n \in Int PROVE Wrapped(n) \in Int
    BY <2>1 DEF Wrapped
  <2>3. flag.days * Day \in Int
    BY <2>1
  <2>4. ParseExpiryDuration(flag) \in Int
    BY <2>1, <2>2, <2>3 DEF ParseExpiryDuration
  <2>5. secs \in Int
    BY <2>1, <2>4 DEF Truncated
  <2>6. QED
    BY <1>2, <2>5 DEF ParseSATokenExpiry
<1>3. QED
  BY <1>1, <1>2 DEF ParseSATokenExpiry

LEMMA Numbers ==
    /\ MaxTime \in Nat /\ Unset \notin Nat
    /\ Lifetimes \subseteq Nat \ {0}
    /\ Grants \subseteq Nat
    /\ \A t : t \in 0..MaxTime => t \in Nat
<1>1. Lifetimes \subseteq Nat \ {0}
  BY Parsed DEF Lifetimes
<1>2. QED
  BY <1>1, KubeconfigRefreshAssumption

\* The arithmetic that the steps need: every value is a number where it is used.
LEMMA Values ==
    ASSUME TypeOK
    PROVE  /\ now \in Nat /\ secret \in Nat /\ variable \in Nat \cup {Unset}
           /\ \A e \in Edits :
                  /\ checked[e] \in Nat /\ lifetime[e] \in Nat \ {0}
                  /\ minted[e] \in Nat \cup {Unset}
                  /\ Window(e) \in Nat
<1>1. now \in Nat /\ secret \in Nat /\ variable \in Nat \cup {Unset}
  BY Numbers DEF TypeOK
<1>2. ASSUME NEW e \in Edits
      PROVE  /\ checked[e] \in Nat /\ lifetime[e] \in Nat \ {0}
             /\ minted[e] \in Nat \cup {Unset}
             /\ Window(e) \in Nat
  <2>1. checked[e] \in Nat /\ lifetime[e] \in Nat \ {0} /\ minted[e] \in Nat \cup {Unset}
    BY Numbers DEF TypeOK
  <2>2. QED
    BY <2>1 DEF Window
<1>3. QED
  BY <1>1, <1>2

LEMMA Initially == Init => IInv
<1>. SUFFICES ASSUME Init PROVE IInv
  OBVIOUS
<1>1. 0 \in 0..MaxTime /\ secret \in Nat
  BY Numbers DEF Init
<1>2. TypeOK
  <2>1. variable \in Nat \cup {Unset}
    BY <1>1 DEF Init
  <2>2. log \in Seq(Edits)
    BY DEF Init
  <2>3. /\ now \in 0..MaxTime /\ overlap \in BOOLEAN /\ shortened \in BOOLEAN
        /\ pc \in [Edits -> Steps]
        /\ minted \in [Edits -> Nat \cup {Unset}]
        /\ checked \in [Edits -> 0..MaxTime] /\ base \in [Edits -> Nat]
        /\ lifetime \in [Edits -> Lifetimes]
    BY <1>1 DEF Init, Steps
  <2>4. QED
    BY <1>1, <2>1, <2>2, <2>3 DEF TypeOK
<1>3. MintedInv
  BY Numbers, <1>1 DEF Init, MintedInv, Writing
<1>4. FreshInv
  BY Numbers, <1>1 DEF Init, FreshInv, Told, NeverLate, Pushing
<1>5. QED
  BY <1>2, <1>3, <1>4 DEF IInv

\* A step of one edit moves that edit only.
LEMMA EditSteps ==
    ASSUME IInv, NEW e \in Edits, Edit(e)
    PROVE  /\ now' = now
           /\ \E step \in Steps : pc' = [pc EXCEPT ![e] = step]
           /\ lifetime' = lifetime
           /\ \A f \in Edits \ {e} : /\ pc'[f] = pc[f]
                                     /\ minted'[f] = minted[f]
                                     /\ checked'[f] = checked[f]
<1>. USE DEF IInv, TypeOK, Goto, repository
<1>1. now' = now /\ lifetime' = lifetime
  BY DEF Edit, Check, ReadFuncYaml, RequestToken, StoreSecret, StoreExpireAt, GetRef, UpdateRef
<1>2. \E step \in Steps : pc' = [pc EXCEPT ![e] = step]
  BY DEF Edit, Check, ReadFuncYaml, RequestToken, StoreSecret, StoreExpireAt, GetRef, UpdateRef,
         Steps
<1>3. \/ UNCHANGED minted
      \/ \E granted \in Grants : minted' = [minted EXCEPT ![e] = now + granted]
  BY DEF Edit, Check, ReadFuncYaml, RequestToken, StoreSecret, StoreExpireAt, GetRef, UpdateRef
<1>4. \/ UNCHANGED checked \/ checked' = [checked EXCEPT ![e] = now]
  BY DEF Edit, Check, ReadFuncYaml, RequestToken, StoreSecret, StoreExpireAt, GetRef, UpdateRef
<1>5. QED
  BY <1>1, <1>2, <1>3, <1>4

LEMMA TypeStep == IInv /\ [Next]_vars => TypeOK'
<1>. SUFFICES ASSUME IInv, [Next]_vars PROVE TypeOK'
  OBVIOUS
<1>. USE DEF TypeOK, history
<1>1. CASE Tick
  BY <1>1, Numbers DEF Tick, repository, IInv
<1>2. ASSUME NEW e \in Edits, Edit(e) PROVE TypeOK'
  <2>1. pc' \in [Edits -> Steps] /\ now' \in 0..MaxTime
    BY <1>2, EditSteps DEF IInv
  <2>2. CASE Check(e)
    BY <2>1, <2>2 DEF Check, repository, IInv
  <2>3. CASE ReadFuncYaml(e)
    BY <2>1, <2>3 DEF ReadFuncYaml, repository, IInv
  <2>4. CASE RequestToken(e)
    <3>1. \A granted \in Grants : now + granted \in Nat
      BY Values, Numbers DEF IInv
    <3>2. minted' \in [Edits -> Nat \cup {Unset}]
      BY <2>4, <3>1 DEF RequestToken, IInv
    <3>3. shortened' \in BOOLEAN
      BY <2>4 DEF RequestToken, IInv
    <3>4. QED
      BY <2>1, <2>4, <3>2, <3>3 DEF RequestToken, repository, IInv
  <2>5. CASE StoreSecret(e)
    BY <2>1, <2>5, Values DEF StoreSecret, IInv, MintedInv, Writing
  <2>6. CASE StoreExpireAt(e)
    BY <2>1, <2>6, Values DEF StoreExpireAt, ExpireAt, IInv, Writing
  <2>7. CASE GetRef(e)
    <3>1. Len(log) \in Nat
      BY DEF IInv
    <3>2. QED
      BY <2>1, <2>7, <3>1 DEF GetRef, repository, IInv
  <2>8. CASE UpdateRef(e)
    <3>1. log' = log \/ log' = Append(log, e)
      BY <2>8 DEF UpdateRef, Pushed
    <3>2. log' \in Seq(Edits)
      <4>1. log \in Seq(Edits)
        BY DEF IInv
      <4>2. Append(log, e) \in Seq(Edits)
        BY <4>1
      <4>3. QED
        BY <3>1, <4>1, <4>2
    <3>3. QED
      BY <2>1, <2>8, <3>2 DEF UpdateRef, IInv
  <2>9. QED
    BY <1>2, <2>2, <2>3, <2>4, <2>5, <2>6, <2>7, <2>8 DEF Edit
<1>3. CASE UNCHANGED vars
  BY <1>3 DEF vars, IInv
<1>4. QED
  BY <1>1, <1>2, <1>3 DEF Next

LEMMA MintedStep == IInv /\ [Next]_vars => MintedInv'
<1>. SUFFICES ASSUME IInv, [Next]_vars PROVE MintedInv'
  OBVIOUS
<1>. USE DEF MintedInv, Writing
<1>1. CASE Tick
  BY <1>1, Values DEF Tick, repository, IInv
<1>2. ASSUME NEW e \in Edits, Edit(e) PROVE MintedInv'
  <2>1. ASSUME NEW f \in Edits \ {e}
        PROVE  checked'[f] <= now' /\ (Writing(f)' => minted'[f] \in Nat)
    BY <1>2, EditSteps DEF IInv
  <2>2. checked'[e] <= now' /\ (Writing(e)' => minted'[e] \in Nat)
    <3>. USE Values DEF IInv, TypeOK, Goto
    <3>1. now' = now /\ lifetime' = lifetime
      BY <1>2, EditSteps
    <3>2. CASE Check(e)
      BY <3>1, <3>2 DEF Check
    <3>3. CASE ReadFuncYaml(e) \/ GetRef(e) \/ UpdateRef(e)
      BY <3>1, <3>3 DEF ReadFuncYaml, GetRef, UpdateRef
    <3>4. CASE RequestToken(e)
      BY <3>1, <3>4, Numbers DEF RequestToken
    <3>5. CASE StoreSecret(e)
      BY <3>1, <3>5 DEF StoreSecret
    <3>6. CASE StoreExpireAt(e)
      BY <3>1, <3>6 DEF StoreExpireAt
    <3>7. QED
      BY <1>2, <3>2, <3>3, <3>4, <3>5, <3>6 DEF Edit
  <2>3. QED
    BY <2>1, <2>2
<1>3. CASE UNCHANGED vars
  BY <1>3 DEF vars, IInv
<1>4. QED
  BY <1>1, <1>2, <1>3 DEF Next

\* Without an overlap or a shortened token, an edit that stores its secret meets no
\* other that writes, and what the variable promises never decreases.
LEMMA Undisturbed ==
    ASSUME IInv, NEW e \in Edits, Edit(e), ~overlap', ~shortened'
    PROVE  /\ ~overlap /\ ~shortened
           /\ \/ secret' = secret
              \/ /\ secret' = minted[e] /\ pc[e] = "secret" /\ variable' = variable
                 /\ \A f \in Edits \ {e} : ~Writing(f)
           /\ \/ variable' = variable
              \/ variable' = minted[e] /\ pc[e] = "variable" /\ secret' = secret
           /\ variable # Unset => variable' # Unset /\ variable <= variable'
<1>. USE DEF repository, history
<1>1. CASE StoreSecret(e)
  <2>1. CASE UNCHANGED <<secret, overlap>>
    BY <1>1, <2>1, Values DEF StoreSecret, IInv
  <2>2. CASE secret' = minted[e] /\ overlap' = (overlap \/ Refreshing(e))
    <3>1. ~overlap /\ ~shortened /\ ~Refreshing(e)
      BY <1>1, <2>2 DEF StoreSecret
    <3>2. \A f \in Edits \ {e} : ~Writing(f)
      BY <3>1 DEF Refreshing, Writing
    <3>3. QED
      BY <1>1, <2>2, <3>1, <3>2, Values DEF StoreSecret, IInv
  <2>3. QED
    BY <1>1, <2>1, <2>2 DEF StoreSecret
<1>2. CASE StoreExpireAt(e)
  <2>1. pc[e] = "variable" /\ ~overlap /\ ~shortened /\ secret' = secret
        /\ (variable' = minted[e] \/ variable' = variable)
    BY <1>2 DEF StoreExpireAt, ExpireAt
  <2>2. secret = minted[e] /\ (variable # Unset => variable <= secret)
    BY <2>1 DEF IInv, FreshInv, Told, NeverLate
  <2>3. minted[e] # Unset
    BY <2>1, Numbers DEF IInv, MintedInv, Writing
  <2>4. QED
    BY <2>1, <2>2, <2>3, Values DEF IInv
<1>3. CASE UNCHANGED <<secret, variable>> /\ ~overlap /\ ~shortened
  BY <1>3, Values DEF IInv
<1>4. CASE Check(e)
  BY <1>3, <1>4 DEF Check
<1>5. CASE ReadFuncYaml(e) \/ RequestToken(e) \/ GetRef(e) \/ UpdateRef(e)
  BY <1>3, <1>5 DEF ReadFuncYaml, RequestToken, GetRef, UpdateRef
<1>6. QED
  BY <1>1, <1>2, <1>4, <1>5 DEF Edit

LEMMA FreshEdit ==
    ASSUME IInv, NEW e \in Edits, Edit(e), ~overlap', ~shortened', TypeOK'
    PROVE  /\ NeverLate'
           /\ \A f, g \in Edits :
                  pc'[f] = "secret" /\ pc'[g] = "variable" => minted'[g] <= minted'[f]
<1>1. ~overlap /\ ~shortened /\ lifetime' = lifetime /\ now' = now
  BY Undisturbed, EditSteps
<1>2. NeverLate'
  <2>1. CASE variable' = variable /\ secret' = secret
    BY <1>1, <2>1 DEF IInv, FreshInv, NeverLate
  <2>2. CASE variable' = variable /\ secret' = minted[e] /\ pc[e] = "secret"
    BY <1>1, <2>2 DEF IInv, FreshInv, Told, NeverLate
  <2>3. CASE variable' = minted[e] /\ pc[e] = "variable" /\ secret' = secret
    <3>1. variable' = secret'
      BY <1>1, <2>3 DEF IInv, FreshInv, Told
    <3>2. secret' \in Nat
      BY DEF TypeOK
    <3>3. QED
      BY <3>1, <3>2 DEF NeverLate
  <2>4. QED
    BY <2>1, <2>2, <2>3, Undisturbed
<1>3. ASSUME NEW f \in Edits, NEW g \in Edits, pc'[f] = "secret", pc'[g] = "variable"
      PROVE  minted'[g] <= minted'[f]
  <2>1. CASE f = e
    <3>1. \/ pc[e] = "token" /\ minted'[e] \in Nat /\ ~(minted'[e] < secret)
          \/ UNCHANGED <<pc, minted>>
      <4>1. CASE RequestToken(e)
        <5>1. pc[e] = "token" /\ shortened' = (shortened \/ minted'[e] < secret)
          BY <1>3, <2>1, <4>1 DEF RequestToken, Goto, IInv, TypeOK
        <5>2. minted'[e] \in Nat
          BY <1>3, <2>1, <4>1, Numbers, Values DEF RequestToken, Goto, IInv, TypeOK
        <5>3. QED
          BY <5>1, <5>2
      <4>2. CASE ~RequestToken(e)
        BY <1>3, <2>1, <4>2 DEF Edit, Check, ReadFuncYaml, StoreSecret,
                  StoreExpireAt, GetRef, UpdateRef, Goto, IInv, TypeOK
      <4>3. QED
        BY <4>1, <4>2
    <3>2. CASE pc[e] = "token" /\ minted'[e] \in Nat /\ ~(minted'[e] < secret)
      <4>1. g # e /\ pc[g] = "variable" /\ minted'[g] = minted[g]
        BY <1>3, <2>1, EditSteps
      <4>2. secret = minted[g] /\ secret \in Nat
        BY <1>1, <4>1, Values DEF IInv, FreshInv, Told
      <4>3. QED
        BY <2>1, <3>2, <4>1, <4>2
    <3>3. CASE UNCHANGED <<pc, minted>>
      BY <1>1, <1>3, <3>3 DEF IInv, FreshInv
    <3>4. QED
      BY <3>1, <3>2, <3>3
  <2>2. CASE f # e /\ g = e
    <3>1. \/ pc[e] = "secret" /\ ~(\E h \in Edits \ {e} : Writing(h))
          \/ UNCHANGED <<pc, minted>>
      <4>1. CASE StoreSecret(e)
        BY <1>3, <2>2, <4>1 DEF StoreSecret, Goto, IInv, TypeOK, Refreshing, Writing
      <4>2. CASE ~StoreSecret(e)
        BY <1>3, <2>2, <4>2 DEF Edit, Check, ReadFuncYaml, RequestToken,
                  StoreExpireAt, GetRef, UpdateRef, Goto, IInv, TypeOK
      <4>3. QED
        BY <4>1, <4>2
    <3>2. pc[f] = "secret"
      BY <1>3, <2>2, EditSteps
    <3>3. QED
      BY <1>1, <1>3, <2>2, <3>1, <3>2 DEF IInv, FreshInv, Writing
  <2>3. CASE f # e /\ g # e
    <3>1. pc[f] = "secret" /\ pc[g] = "variable" /\ minted'[f] = minted[f] /\ minted'[g] = minted[g]
      BY <1>3, <2>3, EditSteps
    <3>2. QED
      BY <1>1, <3>1 DEF IInv, FreshInv
  <2>4. QED
    BY <2>1, <2>2, <2>3
<1>4. QED
  BY <1>2, <1>3

LEMMA ToldOthers ==
    ASSUME IInv, NEW e \in Edits, Edit(e), ~overlap', ~shortened', TypeOK',
           NEW f \in Edits \ {e}
    PROVE  Told(f)'
<1>1. ~overlap /\ ~shortened /\ lifetime' = lifetime /\ now' = now
  BY Undisturbed, EditSteps
<1>2. pc'[f] = pc[f] /\ minted'[f] = minted[f] /\ checked'[f] = checked[f]
  BY EditSteps
<1>3. Told(f)
  BY <1>1 DEF IInv, FreshInv, Told
<1>4. ASSUME pc'[f] = "secret", variable' # Unset PROVE variable' <= minted'[f]
  <2>1. CASE variable' = variable
    BY <1>2, <1>3, <1>4, <2>1 DEF Told
  <2>2. CASE variable' = minted[e] /\ pc[e] = "variable"
    BY <1>1, <1>2, <1>4, <2>2 DEF IInv, FreshInv
  <2>3. QED
    BY <2>1, <2>2, Undisturbed
<1>5. pc'[f] = "variable" => secret' = minted'[f]
  BY <1>2, <1>3, Undisturbed DEF Told, Writing
<1>6. ASSUME Pushing(f)'
      PROVE  /\ variable' # Unset
             /\ \/ checked'[f] + Window(f)' < variable'
                \/ minted'[f] # Unset /\ minted'[f] <= variable'
  <2>1. /\ variable # Unset
        /\ checked[f] + Window(f) < variable \/ (minted[f] # Unset /\ minted[f] <= variable)
    BY <1>2, <1>3, <1>6 DEF Told, Pushing
  <2>2. variable' # Unset /\ variable <= variable'
    BY <2>1, Undisturbed
  <2>3. Window(f)' = Window(f)
    BY <1>1 DEF Window
  <2>4. /\ variable \in Nat /\ variable' \in Nat /\ checked[f] \in Nat /\ Window(f) \in Nat
        /\ minted[f] \in Nat \cup {Unset}
    BY <2>1, <2>2, Values DEF IInv, TypeOK
  <2>5. QED
    BY <1>2, <2>1, <2>2, <2>3, <2>4
<1>7. QED
  BY <1>4, <1>5, <1>6 DEF Told

LEMMA ToldItself ==
    ASSUME IInv, NEW e \in Edits, Edit(e), ~overlap', ~shortened', TypeOK'
    PROVE  Told(e)'
<1>1. /\ ~overlap /\ ~shortened /\ lifetime' = lifetime /\ now' = now
      /\ Window(e)' = Window(e)
  BY Undisturbed, EditSteps DEF Window
<1>2. Told(e)
  BY <1>1 DEF IInv, FreshInv, Told
<1>. USE Values DEF IInv, TypeOK, Goto, Pushing, repository, history, Told
<1>3. CASE Check(e)
  BY <1>1, <1>3 DEF Check, NeedsRefresh
<1>4. CASE ReadFuncYaml(e)
  BY <1>1, <1>2, <1>4 DEF ReadFuncYaml
<1>5. CASE RequestToken(e)
  <2>1. /\ pc'[e] \in {"secret", "failed"} /\ variable' = variable
        /\ pc'[e] = "secret" => minted'[e] \in Nat /\ secret <= minted'[e]
    BY <1>1, <1>5, Numbers DEF RequestToken
  <2>2. variable # Unset => variable <= secret
    BY <1>1 DEF FreshInv, NeverLate
  <2>3. ASSUME pc'[e] = "secret", variable' # Unset PROVE variable' <= minted'[e]
    <3>1. variable \in Nat /\ secret \in Nat
      BY <2>1, <2>3
    <3>2. QED
      BY <2>1, <2>2, <2>3, <3>1
  <2>4. QED
    BY <2>1, <2>3
<1>6. CASE StoreSecret(e)
  BY <1>1, <1>2, <1>6 DEF StoreSecret
<1>7. CASE StoreExpireAt(e)
  <2>1. /\ pc[e] = "variable" /\ minted' = minted
        /\ pc'[e] \in {"getRef", "failed"}
        /\ pc'[e] = "getRef" => variable' = minted[e]
    BY <1>7 DEF StoreExpireAt, ExpireAt
  <2>2. minted[e] \in Nat
    BY <2>1 DEF MintedInv, Writing
  <2>3. minted[e] # Unset
    BY <2>2, Numbers
  <2>4. QED
    BY SMTT(30), <1>1, <2>1, <2>2, <2>3
<1>8. CASE GetRef(e) \/ UpdateRef(e)
  BY <1>1, <1>2, <1>8 DEF GetRef, UpdateRef
<1>9. QED
  BY <1>3, <1>4, <1>5, <1>6, <1>7, <1>8 DEF Edit

LEMMA FreshStep == IInv /\ [Next]_vars => FreshInv'
<1>. SUFFICES ASSUME IInv, [Next]_vars PROVE FreshInv'
  OBVIOUS
<1>1. CASE Tick
  <2>1. UNCHANGED <<secret, variable, pc, minted, checked, lifetime, overlap, shortened>>
    BY <1>1 DEF Tick, repository, history
  <2>2. QED
    BY <2>1, Values DEF IInv, FreshInv, Told, NeverLate, Pushing, Window
<1>2. ASSUME NEW e \in Edits, Edit(e) PROVE FreshInv'
  <2>1. TypeOK'
    BY <1>2, TypeStep DEF Next
  <2>2. ASSUME ~overlap', ~shortened', NEW f \in Edits PROVE Told(f)'
    BY <1>2, <2>1, <2>2, ToldOthers, ToldItself
  <2>3. QED
    BY <1>2, <2>1, <2>2, FreshEdit DEF FreshInv, Told
<1>3. CASE UNCHANGED vars
  BY <1>3 DEF vars, history, IInv, FreshInv, Told, NeverLate, Pushing, Window
<1>4. QED
  BY <1>1, <1>2, <1>3 DEF Next

LEMMA IInvCorrect == Spec => []IInv
<1>1. IInv /\ [Next]_vars => IInv'
  BY TypeStep, MintedStep, FreshStep DEF IInv
<1>2. QED
  BY <1>1, Initially, PTL DEF Spec

\* Every variable keeps its type: no step writes a token it has not requested.
THEOREM TypeCorrect == Spec => []TypeOK
<1>1. IInv => TypeOK
  BY DEF IInv
<1>2. QED
  BY <1>1, IInvCorrect, PTL

\* However many edits fail at whatever call, the variable promises more than the
\* secret holds only after refreshes that overlapped or a token that ended before the
\* one it replaced.
THEOREM LateOnlyIfOverlapping == Spec => []LateOnlyAfterOverlap
<1>1. IInv => LateOnlyAfterOverlap
  BY DEF IInv, FreshInv, LateOnlyAfterOverlap
<1>2. QED
  BY <1>1, IInvCorrect, PTL

\* Without either, a push that comes within the window of its check, and within the
\* life of its own token if it has refreshed, finds a secret that is still live.
THEOREM PushedOnLiveCredential == Spec => PushesOnLiveCredential
<1>. DEFINE A == \A e \in Edits : log' # log /\ pc'[e] # pc[e] =>
          \/ overlap \/ shortened
          \/ now - checked[e] > Window(e)
          \/ minted[e] # Unset /\ minted[e] <= now
          \/ secret > now
<1>1. IInv /\ [Next]_vars => A
  <2>. SUFFICES ASSUME IInv, [Next]_vars, NEW e \in Edits,
                       log' # log, pc'[e] # pc[e], ~overlap, ~shortened
                PROVE  \/ now - checked[e] > Window(e)
                       \/ minted[e] # Unset /\ minted[e] <= now
                       \/ secret > now
    OBVIOUS
  <2>1. UpdateRef(e)
    <3>1. PICK f \in Edits : Edit(f)
      BY DEF Next, Tick, repository, vars
    <3>2. f = e
      BY <3>1, EditSteps
    <3>3. QED
      BY <3>1, <3>2 DEF Edit, Check, ReadFuncYaml, RequestToken, StoreSecret, StoreExpireAt,
                        GetRef, repository
  <2>2. /\ variable # Unset /\ variable <= secret
        /\ checked[e] + Window(e) < variable \/ (minted[e] # Unset /\ minted[e] <= variable)
    BY <2>1 DEF UpdateRef, Pushing, IInv, FreshInv, Told, NeverLate
  <2>3. QED
    BY <2>2, Values DEF IInv
<1>2. IInv /\ [Next]_vars => [A]_vars
  BY <1>1
<1>3. Spec => [][A]_vars
  BY <1>2, IInvCorrect, PTL DEF Spec
<1>4. QED
  BY <1>3 DEF PushesOnLiveCredential

\* The branch only grows, by the fast-forward rule of the reference update.
THEOREM BranchGrows == Spec => PushesOnlyAppend
<1>. DEFINE A == Len(log') >= Len(log) /\ SubSeq(log', 1, Len(log)) = log
<1>1. IInv /\ [Next]_vars => A
  <2>. SUFFICES ASSUME IInv, [Next]_vars PROVE A
    OBVIOUS
  <2>1. log \in Seq(Edits)
    BY DEF IInv, TypeOK
  <2>2. log' = log \/ \E e \in Edits : log' = Append(log, e)
    BY DEF Next, Tick, Edit, Check, ReadFuncYaml, RequestToken, StoreSecret, StoreExpireAt,
           GetRef, UpdateRef, Pushed, repository, vars
  <2>3. SubSeq(log, 1, Len(log)) = log
    BY <2>1
  <2>4. ASSUME NEW e \in Edits
        PROVE  Len(Append(log, e)) >= Len(log) /\ SubSeq(Append(log, e), 1, Len(log)) = log
    BY <2>1
  <2>5. QED
    BY <2>1, <2>2, <2>3, <2>4
<1>2. IInv /\ [Next]_vars => [A]_vars
  BY <1>1
<1>3. Spec => [][A]_vars
  BY <1>2, IInvCorrect, PTL DEF Spec
<1>4. QED
  BY <1>3 DEF PushesOnlyAppend

=============================================================================
