------------------------------ MODULE FreshGet ------------------------------
(***************************************************************************)
(* What a GET through the ETag cache promises its caller: the whole        *)
(* representation of the resource - body and headers, the pagination link  *)
(* among them - as the server had it at some moment while the request was  *)
(* under way, or an error.  Nothing is served from before the request.     *)
(***************************************************************************)
CONSTANTS Calls, Contents, None

VARIABLES
    content,  \* the resource at the server
    state,    \* state[c]: "new", "open", "answered" or "failed"
    during,   \* during[c]: what the resource was since c began (history)
    answer    \* answer[c]: the representation c was answered with

getVars == <<content, state, during, answer>>

Representation == [body: Contents, link: Contents]

GetInit ==
    /\ content \in Contents
    /\ state = [c \in Calls |-> "new"]
    /\ during = [c \in Calls |-> {}]
    /\ answer = [c \in Calls |-> None]

Change ==
    /\ content' \in Contents
    /\ during' = [c \in Calls |->
                     IF state[c] = "open" THEN during[c] \cup {content'} ELSE during[c]]
    /\ UNCHANGED <<state, answer>>

Ask(c) ==
    /\ state[c] = "new"
    /\ state' = [state EXCEPT ![c] = "open"]
    /\ during' = [during EXCEPT ![c] = {content}]
    /\ UNCHANGED <<content, answer>>

Answer(c) ==
    /\ state[c] = "open"
    /\ \/ /\ state' = [state EXCEPT ![c] = "answered"]
          /\ \E seen \in during[c] :
                 answer' = [answer EXCEPT ![c] = [body |-> seen, link |-> seen]]
       \/ /\ state' = [state EXCEPT ![c] = "failed"]
          /\ UNCHANGED answer
    /\ UNCHANGED <<content, during>>

GetNext == Change \/ \E c \in Calls : Ask(c) \/ Answer(c)

GetSpec == GetInit /\ [][GetNext]_getVars

=============================================================================
