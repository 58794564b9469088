------------------------------- MODULE Pages -------------------------------
(***************************************************************************)
(* The create page and the editor page in one browser: the calls that the  *)
(* create page leaves behind are still under way when the user opens a     *)
(* function from the list.  The editor has one visit.                      *)
(***************************************************************************)
EXTENDS FunctionEditor, CreateForm

VARIABLE editing   \* the browser is, or has been, on the editor page

form == <<shown, user, fields, typed, watch, submitting>>
visit == <<branch, page, editor, load, current, saving, history>>
pagesVars == <<form, visit, away, editing>>

PagesTypeOK == TypeOK /\ FormTypeOK /\ editing \in BOOLEAN

PagesInit == FormInit /\ Init /\ editing = FALSE

OnCreatePage == ~editing /\ FormNext /\ UNCHANGED <<visit, editing>>

\* A row of the list links to the editor of its function.
OpenEditor ==
    /\ ~editing /\ ~shown
    /\ editing' = TRUE
    /\ UNCHANGED <<form, visit, away>>

OnEditPage == editing /\ Next /\ UNCHANGED <<form, editing>>

PagesNext == OnCreatePage \/ OpenEditor \/ OnEditPage

PagesSpec == PagesInit /\ [][PagesNext]_pagesVars

=============================================================================
