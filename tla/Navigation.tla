----------------------------- MODULE Navigation -----------------------------
(***************************************************************************)
(* Two calls of the frontend end in navigate('/faas') once they are        *)
(* answered, wherever the browser is by then: the POST of a new function,  *)
(* if it succeeds, and the DELETE of the stored credential, in any case.   *)
(* Navigating away from a page asks nothing and discards what it holds.    *)
(***************************************************************************)
EXTENDS Naturals

CONSTANT MaxAway    \* bound: such calls at a time

ASSUME NavigationAssumption == MaxAway \in Nat

VARIABLE away       \* such calls under way

AwayTypeOK == away \in 0..MaxAway

SendAway == away < MaxAway /\ away' = away + 1

AnswerAway == away > 0 /\ away' = away - 1

=============================================================================
