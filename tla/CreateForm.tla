----------------------------- MODULE CreateForm -----------------------------
(***************************************************************************)
(* The create page and its form (FunctionCreatePage.tsx,                   *)
(* CreateFunctionForm.tsx) with the session it runs in.  The form holds    *)
(* the owner, the namespace and rows of environment variables that name a  *)
(* key of a Secret or ConfigMap; what can be picked comes from a watch of  *)
(* the namespace, which follows the typing with a delay.  The form is      *)
(* there only while a user is connected, the page keeps its state beyond   *)
(* it.  Secrets and ConfigMaps are handled alike, so the module has one    *)
(* list of each; text fields that any value fills are taken as filled in.  *)
(***************************************************************************)
EXTENDS Sequences, FiniteSets, Navigation

CONSTANTS
    Users,        \* accounts that can connect
    Nobody,       \* no account
    Namespaces,
    Resources,    \* names of Secrets and ConfigMaps
    Keys,
    KeysOf,       \* KeysOf[ns][r]: the keys resource r of namespace ns has at any time
    VarNames,     \* what can be typed as the name of a variable
    ValidNames,   \* the names that validateEnvVarName accepts
    Blank,        \* an empty field
    MaxRows       \* bound: rows

ASSUME CreateFormAssumption ==
    /\ Nobody \notin Users
    /\ Blank \notin Namespaces \cup Resources \cup Keys \cup VarNames
    /\ KeysOf \in [Namespaces -> [Resources -> SUBSET Keys]]
    /\ ValidNames \subseteq VarNames
    /\ MaxRows \in Nat

VARIABLES
    shown,        \* whether the browser is on the page
    user,         \* authUser
    owner,        \* fields.owner, Nobody while there is no form
    namespace,    \* fields.namespace
    rows,         \* fields.secretEnvVars and .configMapEnvVars
    typed,        \* the page's namespace, set by onNamespaceChange
    debounced,    \* the namespace watched, 300 ms behind
    offered,      \* what can be picked: the resources of the watch, with their keys
    submitting    \* isSubmitting

fields == <<owner, namespace, rows>>
watch == <<debounced, offered>>
formVars == <<shown, user, fields, typed, watch, submitting, away>>

\* late: the key was picked from a list of another namespace (history).
Row == [name: VarNames \cup {Blank}, resource: Resources \cup {Blank},
        key: Keys \cup {Blank}, late: BOOLEAN]
NoRow == [name |-> Blank, resource |-> Blank, key |-> Blank, late |-> FALSE]
Typable == Namespaces \cup {Blank}
Offers == UNION {[there -> SUBSET Keys] : there \in SUBSET Resources}

FormTypeOK ==
    /\ shown \in BOOLEAN
    /\ user \in Users \cup {Nobody} /\ owner \in Users \cup {Nobody}
    /\ {namespace, typed, debounced} \subseteq Typable
    /\ rows \in Seq(Row) /\ Len(rows) <= MaxRows
    /\ offered \in Offers /\ submitting \in BOOLEAN
    /\ AwayTypeOK

NoOffer == [r \in {} |-> {}]

NewForm(account) == owner' = account /\ namespace' = Blank /\ rows' = <<>>

\* The page before it is opened, and as leaving it unmounts it.
FormInit ==
    /\ shown = FALSE
    /\ user = Nobody
    /\ owner = Nobody /\ namespace = Blank /\ rows = <<>>
    /\ typed = Blank /\ debounced = Blank
    /\ offered = NoOffer /\ submitting = FALSE
    /\ away = 0

Unmount ==
    /\ shown' = FALSE
    /\ user' = Nobody
    /\ NewForm(Nobody)
    /\ typed' = Blank /\ debounced' = Blank
    /\ offered' = NoOffer /\ submitting' = FALSE

-----------------------------------------------------------------------------
(***************************************************************************)
(* The session                                                             *)
(***************************************************************************)

\* The page opens once the credential is fetched; the form takes its owner from it.
OpenPage ==
    /\ ~shown /\ shown' = TRUE
    /\ user' \in Users \cup {Nobody}
    /\ NewForm(user')
    /\ UNCHANGED <<typed, watch, submitting, away>>

Connect ==
    /\ shown /\ user = Nobody
    /\ user' \in Users
    /\ NewForm(user')
    /\ UNCHANGED <<shown, typed, watch, submitting, away>>

\* Mutant: the form outlives the session.
ExpireKeepsForm == user' = Nobody /\ UNCHANGED fields

\* A 401 ends the session, and the form with it, whatever was filled in.
Expire == user' = Nobody /\ NewForm(Nobody)

Disconnect ==
    /\ shown /\ user # Nobody
    /\ SendAway
    /\ UNCHANGED <<shown, user, fields, typed, watch, submitting>>

\* "Cancel", any link of the console or the browser's back: nothing is asked.
Cancel ==
    /\ shown
    /\ Unmount
    /\ UNCHANGED away

-----------------------------------------------------------------------------
(***************************************************************************)
(* The namespace and what it offers                                        *)
(***************************************************************************)

\* Mutant: only the names of the resources are cleared.
ClearedName(row) == [row EXCEPT !.resource = Blank]

\* References do not carry over to another namespace.
Cleared(row) == [row EXCEPT !.resource = Blank, !.key = Blank, !.late = FALSE]

TypeNamespace(ns) ==
    /\ owner # Nobody /\ ns # namespace
    /\ namespace' = ns /\ typed' = ns
    /\ rows' = [i \in DOMAIN rows |-> Cleared(rows[i])]
    /\ UNCHANGED <<shown, user, owner, watch, submitting, away>>

\* The timer of the last change fires; the watch starts from nothing.
Debounce ==
    /\ debounced # typed
    /\ debounced' = typed /\ offered' = NoOffer
    /\ UNCHANGED <<shown, user, fields, typed, submitting, away>>

\* The watch brings what is there, first and whenever it changes: resources and keys
\* come and go while the form is open.
ResourcesArrive ==
    /\ debounced # Blank
    /\ offered' \in Offers \ {offered}
    /\ \A r \in DOMAIN offered' : offered'[r] \subseteq KeysOf[debounced][r]
    /\ UNCHANGED <<shown, user, fields, typed, debounced, submitting, away>>

-----------------------------------------------------------------------------
(***************************************************************************)
(* The rows                                                                *)
(***************************************************************************)

\* The list shows one empty row when it has none.
Visible == IF rows = <<>> THEN <<NoRow>> ELSE rows

ChangeRow(i, row) == rows' = [Visible EXCEPT ![i] = row]

AddRow ==
    /\ owner # Nobody
    /\ Len(Visible) < MaxRows
    /\ rows' = Append(Visible, NoRow)
    /\ UNCHANGED <<shown, user, owner, namespace, typed, watch, submitting, away>>

RemoveRow ==
    /\ Len(rows) > 1
    /\ rows' = SubSeq(rows, 1, Len(rows) - 1)
    /\ UNCHANGED <<shown, user, owner, namespace, typed, watch, submitting, away>>

RemoveRows ==
    /\ rows # <<>>
    /\ rows' = <<>>
    /\ UNCHANGED <<shown, user, owner, namespace, typed, watch, submitting, away>>

EditRow(i) ==
    /\ owner # Nobody
    /\ LET row == Visible[i] IN
       \/ \E name \in VarNames : ChangeRow(i, [row EXCEPT !.name = name])
       \/ /\ namespace # Blank
          /\ \E r \in DOMAIN offered :
                 ChangeRow(i, [Cleared(row) EXCEPT !.resource = r])
       \/ /\ row.resource \in DOMAIN offered
          /\ \E key \in offered[row.resource] :
                 ChangeRow(i, [row EXCEPT !.key = key, !.late = (debounced # namespace)])
    /\ UNCHANGED <<shown, user, owner, namespace, typed, watch, submitting, away>>

-----------------------------------------------------------------------------
(***************************************************************************)
(* Submitting                                                              *)
(***************************************************************************)

Filled(row) == row.name # Blank \/ row.resource # Blank \/ row.key # Blank

\* Mutant: a row without a key is let through.
CompleteNoKey(row) == row.name \in ValidNames /\ row.resource # Blank

Complete(row) == row.name \in ValidNames /\ row.resource # Blank /\ row.key # Blank

\* areEnvVarsValid: no name twice, every row that is filled in at all is complete.
EnvVarsValid ==
    /\ \A i, j \in DOMAIN rows : i # j => rows[i].name # rows[j].name \/ rows[i].name = Blank
    /\ \A i \in DOMAIN rows : Filled(rows[i]) => Complete(rows[i])

\* toEnvVars: the rows that are sent.
Sent == {i \in DOMAIN rows : Blank \notin {rows[i].name, rows[i].resource, rows[i].key}}

\* The button is disabled while a request runs or a field is not valid.
Submit ==
    /\ owner # Nobody /\ namespace # Blank /\ EnvVarsValid
    /\ ~submitting /\ submitting' = TRUE
    /\ SendAway
    /\ UNCHANGED <<shown, user, fields, typed, watch>>

\* The request fails: the error shows, and a 401 ends the session.
Refused ==
    /\ submitting /\ submitting' = FALSE
    /\ AnswerAway
    /\ Expire \/ UNCHANGED <<user, fields>>
    /\ UNCHANGED <<shown, typed, watch>>

\* The function is created, or a disconnect of this page is answered, or either
\* of an earlier visit: the browser leaves for the list, wherever it is.
Navigated ==
    /\ AnswerAway
    /\ Unmount

\* A request of an earlier visit fails.  A 401 is announced on the window and ends
\* the session of this visit, although another one was refused.
RefusedEarlier ==
    /\ away > (IF submitting THEN 1 ELSE 0)
    /\ AnswerAway
    /\ Expire \/ UNCHANGED <<user, fields>>
    /\ UNCHANGED <<shown, typed, watch, submitting>>

FormNext ==
    \/ OpenPage \/ Connect \/ Disconnect \/ Cancel
    \/ \E ns \in Namespaces : TypeNamespace(ns)
    \/ Debounce \/ ResourcesArrive
    \/ AddRow \/ RemoveRow \/ RemoveRows
    \/ \E i \in 1..MaxRows : i <= Len(Visible) /\ EditRow(i)
    \/ Submit \/ Refused \/ Navigated \/ RefusedEarlier

-----------------------------------------------------------------------------
(***************************************************************************)
(* Properties                                                              *)
(***************************************************************************)

\* What is sent is what the form shows, whatever sessions have ended and begun,
\* whatever namespaces have been typed and whatever resources have come and gone
\* meanwhile: the account is the one that is connected, no variable is left out, and
\* every key is one that the namespace the function goes to has, or had when it was
\* picked: a row keeps it when the resource goes.  A key picked before the list has
\* caught up with the typing is of another namespace, and is sent all the same.
SubmitsWhatIsShown ==
    [][submitting' /\ ~submitting =>
          /\ owner = user
          /\ \A i \in DOMAIN rows : Filled(rows[i]) =>
                 /\ i \in Sent
                 /\ rows[i].late \/ rows[i].key \in KeysOf[namespace][rows[i].resource]]_formVars

=============================================================================
