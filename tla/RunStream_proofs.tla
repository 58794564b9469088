-------------------------- MODULE RunStream_proofs --------------------------
(***************************************************************************)
(* Proofs about both ends of the stream of workflow runs.                  *)
(*                                                                         *)
(* The browser's end: for any number of event sources, snapshots and       *)
(* troubles, only the source opened last reaches the page.  The invariant  *)
(* behind it is that one source at most receives, the one the clean-up of  *)
(* the effect would close.                                                 *)
(*                                                                         *)
(* The backend's end: for any repositories, moves of GitHub and failures,  *)
(* the loop of WatchWorkflowRuns implements the feed of StatusFeed.  The   *)
(* invariant behind it is that an event the loop blocks on stays worth     *)
(* sending until somebody takes it or the watch is stopped.                *)
(***************************************************************************)
EXTENDS StreamClient, WorkflowWatch, TLAPS

-----------------------------------------------------------------------------
(***************************************************************************)
(* The browser's end                                                       *)
(***************************************************************************)

OneReceives == \A s \in Streams : receiving[s] => s = current

\* A user who logs in or refreshes finds a source left within the bound.
Room == deps /\ connected => opened < MaxStreams

Inv == TypeOK /\ OneReceives /\ Room

\* A source not opened yet has no frames; the frames of one follow each other in
\* age, none is newer than the newest snapshot, and those of one that receives are
\* not older than what the page shows.
Unopened == \A s \in Streams : s > opened => phase[s] = "unused" /\ buffer[s] = <<>>

InAge == \A s \in Streams : \A i, j \in 1..Len(buffer[s]) :
             i <= j => buffer[s][i].version <= buffer[s][j].version

NotAhead == \A s \in Streams : \A i \in 1..Len(buffer[s]) : buffer[s][i].version <= latest

PageBehind ==
    /\ page.runs <= latest
    /\ \A s \in Streams : receiving[s] =>
           \A i \in 1..Len(buffer[s]) : page.runs <= buffer[s][i].version

AgeInv == Unopened /\ InAge /\ NotAhead /\ PageBehind

USE StreamClientAssumption

-----------------------------------------------------------------------------
(***************************************************************************)
(* Lemmas about the helpers                                                *)
(***************************************************************************)

\* A toggle closes and opens exactly what it is told to.
LEMMA ToggleType ==
    ASSUME NEW closing \in SUBSET Streams, NEW opening \in SUBSET Streams, TypeOK,
           Toggle(closing, opening)
    PROVE  /\ receiving' \in [Streams -> BOOLEAN]
           /\ aborted' \in [Streams -> BOOLEAN]
           /\ listening' \in [Streams -> BOOLEAN]
           /\ \A s \in Streams : receiving'[s] => (receiving[s] /\ s \notin closing) \/ s \in opening
<1>1. receiving' = [s \in Streams |-> (receiving[s] /\ s \notin closing) \/ s \in opening]
    BY DEF Toggle
<1>2. \A s \in Streams : ((receiving[s] /\ s \notin closing) \/ s \in opening) \in BOOLEAN
    BY DEF TypeOK
<1>3. aborted' = [s \in Streams |-> aborted[s] \/ s \in closing]
    BY DEF Toggle
<1>4. \A s \in Streams : (aborted[s] \/ s \in closing) \in BOOLEAN
    BY DEF TypeOK
<1>5. listening' = [s \in Streams |-> (listening[s] /\ s \notin closing) \/ s \in opening]
    BY DEF Toggle
<1>6. \A s \in Streams : ((listening[s] /\ s \notin closing) \/ s \in opening) \in BOOLEAN
    BY DEF TypeOK
<1> QED BY <1>1, <1>2, <1>3, <1>4, <1>5, <1>6, Zenon

\* An attempt that ends leaves the source waiting or done, and the page at most with
\* another problem.
LEMMA AttemptedType ==
    ASSUME NEW s \in Streams, NEW problem \in Problems, TypeOK, Attempted(s, problem)
    PROVE  /\ phase' \in [Streams -> Running \cup {"unused", "done"}]
           /\ buffer' \in [Streams -> Seq(Frames)]
           /\ page' \in [runs: Versions, problem: Problems]
           /\ phase'[s] \in {"waiting", "done"}
           /\ page' # page => receiving[s]
<1>1. phase' = [phase EXCEPT ![s] = IF receiving[s] THEN "waiting" ELSE "done"]
    BY DEF Attempted, Goto
<1>2. buffer' = [buffer EXCEPT ![s] = <<>>]
    BY DEF Attempted
<1>3. page' = page \/ (receiving[s] /\ page' = [page EXCEPT !.problem = problem])
    BY DEF Attempted, Shows
<1>4. <<>> \in Seq(Frames)
    OBVIOUS
<1> QED BY <1>1, <1>2, <1>3, <1>4 DEF TypeOK, Running

\* A frame can be sent on any source.
LEMMA SendType ==
    ASSUME NEW s \in Streams, NEW event \in {"status", "appError", "unauthorized"}, TypeOK,
           Send(s, event)
    PROVE  buffer' \in [Streams -> Seq(Frames)]
<1>1. [event |-> event, version |-> latest] \in Frames
    BY DEF TypeOK, Frames, Versions
<1>2. buffer[s] \in Seq(Frames)
    BY DEF TypeOK
<1>3. Append(buffer[s], [event |-> event, version |-> latest]) \in Seq(Frames)
    BY <1>1, <1>2
<1> QED BY <1>3 DEF Send, TypeOK

-----------------------------------------------------------------------------
(***************************************************************************)
(* The invariant                                                           *)
(***************************************************************************)

\* It holds when the page is mounted.
LEMMA Initially == Init => Inv
<1> SUFFICES ASSUME Init PROVE Inv
    OBVIOUS
<1>1. TypeOK
    <2>1. <<>> \in Seq(Frames)
        OBVIOUS
    <2> QED BY <2>1 DEF Init, TypeOK, Streams, Versions, Problems
<1> QED BY <1>1 DEF Init, Inv, OneReceives, Room

\* What a step of a source's run() may do to it: nothing but a closing changes who
\* receives, and the page hears only a source that receives and acts.
LEMMA TransportStep ==
    ASSUME Inv, NEW s \in Streams, Transport(s)
    PROVE  Inv' /\ (page' # page => receiving[s] /\ Acts(s))
<1>1. CASE FetchOk(s)
    <2>1. /\ phase' \in [Streams -> Running \cup {"unused", "done"}]
          /\ troubles' \in 0..MaxTroubles
        <3>1. phase' = [phase EXCEPT ![s] = "reading"] \/ phase' = [phase EXCEPT ![s] = "done"]
              \/ phase' = [phase EXCEPT ![s] = "fetching"]
            BY <1>1 DEF FetchOk, Goto
        <3>2. troubles' \in 0..MaxTroubles
            BY <1>1 DEF FetchOk, Trouble, Inv, TypeOK
        <3> QED BY <3>1, <3>2 DEF Inv, TypeOK, Running
    <2>2. told' \in [Streams -> Versions]
        <3>1. 0 \in Versions
            BY DEF Versions
        <3> QED BY <1>1, <3>1 DEF FetchOk, Inv, TypeOK
    <2>3. UNCHANGED <<connected, mounted, deps, current, opened, receiving, aborted, listening,
                      buffer, latest, page>>
        BY <1>1 DEF FetchOk, session, switches
    <2> QED BY <2>1, <2>2, <2>3 DEF Inv, TypeOK, OneReceives, Room
<1>2. CASE FetchFails(s)
    <2>1. PICK problem \in {"http", "lost"} : Attempted(s, problem)
        BY <1>2 DEF FetchFails
    <2>2. UNCHANGED <<connected, mounted, deps, current, opened, receiving, aborted, listening, told,
                      latest>>
        BY <1>2 DEF FetchFails, session, switches, backend
    <2>3. troubles' \in 0..MaxTroubles
        BY <1>2 DEF FetchFails, Trouble, Inv, TypeOK
    <2> QED BY <1>2, <2>1, <2>2, <2>3, AttemptedType
            DEF Inv, TypeOK, OneReceives, Room, Problems, Acts, FetchFails
<1>3. CASE FetchUnauthorized(s)
    <2>1. Attempted(s, "http") /\ connected' = FALSE /\ deps' \in BOOLEAN
        BY <1>3 DEF FetchUnauthorized
    <2>2. UNCHANGED <<mounted, current, opened, receiving, aborted, listening, told, latest>>
        BY <1>3 DEF FetchUnauthorized, switches, backend
    <2>3. troubles' \in 0..MaxTroubles
        BY <1>3 DEF FetchUnauthorized, Trouble, Inv, TypeOK
    <2> QED BY <1>3, <2>1, <2>2, <2>3, AttemptedType
            DEF Inv, TypeOK, OneReceives, Room, Problems, Acts, FetchUnauthorized
<1>4. CASE Aborted(s)
    <2>1. UNCHANGED <<connected, mounted, deps, current, opened, receiving, aborted, listening, told,
                      latest, troubles>>
        BY <1>4 DEF Aborted, session, switches, backend
    <2> QED BY <1>4, <2>1, AttemptedType DEF Inv, TypeOK, OneReceives, Room, Problems, Acts, Aborted
<1>5. CASE ConnectionEnds(s)
    <2>1. UNCHANGED <<connected, mounted, deps, current, opened, receiving, aborted, listening, told,
                      latest>>
        BY <1>5 DEF ConnectionEnds, session, switches, backend
    <2>2. troubles' \in 0..MaxTroubles
        BY <1>5 DEF ConnectionEnds, Trouble, Inv, TypeOK
    <2>3. CASE Attempted(s, "lost")
        BY <1>5, <2>1, <2>2, <2>3, AttemptedType
        DEF Inv, TypeOK, OneReceives, Room, Problems, Acts, ConnectionEnds
    <2>4. CASE /\ Goto(s, IF receiving[s] THEN "waiting" ELSE "done")
               /\ buffer' = [buffer EXCEPT ![s] = <<>>]
               /\ UNCHANGED page
        <3>1. <<>> \in Seq(Frames)
            OBVIOUS
        <3> QED BY <2>1, <2>2, <2>4, <3>1 DEF Inv, TypeOK, OneReceives, Room, Goto, Running
    <2> QED BY <1>5, <2>3, <2>4 DEF ConnectionEnds
<1>6. CASE DelayOver(s)
    BY <1>6 DEF Inv, TypeOK, OneReceives, Room, DelayOver, Goto, Running, session, switches, backend
<1>7. CASE Receive(s)
    <2> DEFINE frame == Head(buffer[s])
    <2>1. /\ buffer[s] \in Seq(Frames) /\ buffer[s] # <<>>
          /\ buffer' = [buffer EXCEPT ![s] = Tail(@)]
        BY <1>7 DEF Receive, Inv, TypeOK
    <2>2. frame \in Frames /\ Tail(buffer[s]) \in Seq(Frames) /\ Tail(buffer[s]) # buffer[s]
        <3>1. /\ Len(Tail(buffer[s])) = Len(buffer[s]) - 1 /\ Len(buffer[s]) \in Nat
              /\ Tail(buffer[s]) \in Seq(Frames)
            BY <2>1
        <3>2. ASSUME Tail(buffer[s]) = buffer[s] PROVE FALSE
            <4>1. Len(buffer[s]) = Len(buffer[s]) - 1
                BY <3>1, <3>2, Zenon
            <4> QED BY <3>1, <4>1
        <3>3. frame \in Frames
            BY <2>1
        <3> QED BY <3>1, <3>2, <3>3
    <2>3. Acts(s) /\ buffer' \in [Streams -> Seq(Frames)]
        BY <2>1, <2>2 DEF Acts, Inv, TypeOK
    <2>4. UNCHANGED <<connected, mounted, deps, current, opened, told, latest, troubles>>
        BY <1>7 DEF Receive, session, backend
    <2>5. phase' \in [Streams -> Running \cup {"unused", "done"}]
        BY <1>7 DEF Receive, Goto, Inv, TypeOK
    <2>6. /\ page' \in [runs: Versions, problem: Problems]
          /\ page' # page => receiving[s]
          /\ \/ UNCHANGED switches
             \/ Toggle({s}, {})
        <3>1. page \in [runs: Versions, problem: Problems] /\ frame.version \in Versions
            BY <2>2 DEF Inv, TypeOK, Frames
        <3>2. CASE receiving[s] /\ listening[s]
            <4>1. Handled(s, frame)
                BY <1>7, <3>2 DEF Receive
            <4> QED BY <3>1, <3>2, <4>1 DEF Handled, Close, Problems
        <3>3. CASE ~(receiving[s] /\ listening[s])
            BY <1>7, <3>1, <3>3 DEF Receive
        <3> QED BY <3>2, <3>3
    <2>7. /\ receiving' \in [Streams -> BOOLEAN]
          /\ aborted' \in [Streams -> BOOLEAN]
          /\ listening' \in [Streams -> BOOLEAN]
          /\ \A t \in Streams : receiving'[t] => receiving[t]
        <3>1. CASE UNCHANGED switches
            BY <3>1 DEF switches, Inv, TypeOK
        <3>2. CASE Toggle({s}, {})
            <4>1. {s} \in SUBSET Streams /\ {} \in SUBSET Streams
                OBVIOUS
            <4>2. TypeOK
                BY DEF Inv
            <4>3. /\ receiving' \in [Streams -> BOOLEAN]
                  /\ aborted' \in [Streams -> BOOLEAN]
                  /\ listening' \in [Streams -> BOOLEAN]
                  /\ \A t \in Streams :
                         receiving'[t] => (receiving[t] /\ t \notin {s}) \/ t \in {}
                BY <3>2, <4>1, <4>2, ToggleType, Zenon
            <4> QED BY <4>3
        <3> QED BY <2>6, <3>1, <3>2
    <2> QED BY <2>3, <2>4, <2>5, <2>6, <2>7 DEF Inv, TypeOK, OneReceives, Room
<1> QED BY <1>1, <1>2, <1>3, <1>4, <1>5, <1>6, <1>7 DEF Transport

\* What the backend, the user and the effect do keeps the invariant and the page.
LEMMA OtherStep ==
    ASSUME Inv,
           \/ \E s \in Streams : SendStatus(s) \/ SendError(s)
           \/ StatusChanges
           \/ LogInOrOut
           \/ Refresh
           \/ RunEffect
           \/ Leave
    PROVE  Inv' /\ UNCHANGED page
<1>1. ASSUME NEW s \in Streams, SendStatus(s) PROVE Inv' /\ UNCHANGED page
    <2>1. buffer' \in [Streams -> Seq(Frames)]
        BY <1>1, SendType DEF SendStatus, Inv
    <2>2. UNCHANGED <<connected, mounted, deps, current, opened, phase, receiving, aborted,
                      listening, latest, page, troubles>>
        BY <1>1 DEF SendStatus, untouched, session, switches
    <2>3. told' \in [Streams -> Versions]
        <3>1. latest \in Versions
            BY DEF Inv, TypeOK, Versions
        <3> QED BY <1>1, <3>1 DEF SendStatus, Inv, TypeOK
    <2> QED BY <2>1, <2>2, <2>3 DEF Inv, TypeOK, OneReceives, Room
<1>2. ASSUME NEW s \in Streams, SendError(s) PROVE Inv' /\ UNCHANGED page
    <2>1. buffer' \in [Streams -> Seq(Frames)]
        BY <1>2, SendType DEF SendError, Inv
    <2>2. UNCHANGED <<connected, mounted, deps, current, opened, phase, receiving, aborted,
                      listening, latest, page>>
        BY <1>2 DEF SendError, untouched, session, switches
    <2>3. told' \in [Streams -> Versions] /\ troubles' \in 0..MaxTroubles
        <3>1. 0 \in Versions
            BY DEF Versions
        <3> QED BY <1>2, <3>1 DEF SendError, Trouble, Inv, TypeOK
    <2> QED BY <2>1, <2>2, <2>3 DEF Inv, TypeOK, OneReceives, Room
<1>3. CASE StatusChanges
    BY <1>3 DEF StatusChanges, Inv, TypeOK, OneReceives, Room, untouched, session, switches
<1>4. CASE LogInOrOut
    BY <1>4 DEF LogInOrOut, Inv, TypeOK, OneReceives, Room, others, switches, backend
<1>5. CASE Refresh
    BY <1>5 DEF Refresh, Inv, TypeOK, OneReceives, Room, others, switches, backend
<1>6. CASE RunEffect
    <2>1. CleanedUp \in SUBSET Streams
        BY DEF CleanedUp, Inv, TypeOK, Streams
    <2>2. UNCHANGED <<connected, mounted, buffer, told, latest, page, troubles>> /\ deps' = FALSE
        BY <1>6 DEF RunEffect, backend
    <2>3. CASE connected
        <3>1. opened' = opened + 1 /\ current' = opened' /\ Toggle(CleanedUp, {opened'})
              /\ Goto(opened', "fetching")
            BY <1>6, <2>3 DEF RunEffect
        <3>2. opened' \in Streams
            BY <1>6, <2>3, <3>1 DEF RunEffect, Inv, TypeOK, Room, Streams
        <3>3. phase' \in [Streams -> Running \cup {"unused", "done"}]
            BY <3>1, <3>2 DEF Goto, Inv, TypeOK, Running
        <3>4. /\ receiving' \in [Streams -> BOOLEAN]
              /\ aborted' \in [Streams -> BOOLEAN]
              /\ listening' \in [Streams -> BOOLEAN]
              /\ \A s \in Streams :
                     receiving'[s] => (receiving[s] /\ s \notin CleanedUp) \/ s \in {opened'}
            BY <2>1, <3>1, <3>2, ToggleType DEF Inv
        <3>5. OneReceives'
            BY <3>1, <3>4 DEF Inv, OneReceives, CleanedUp, Streams
        <3>6. current' \in 0..MaxStreams /\ opened' \in 0..MaxStreams
            BY <3>1, <3>2 DEF Streams
        <3> QED BY <2>2, <3>3, <3>4, <3>5, <3>6 DEF Inv, TypeOK, Room
    <2>4. CASE ~connected
        <3>1. current' = 0 /\ Toggle(CleanedUp, {}) /\ UNCHANGED <<opened, phase>>
            BY <1>6, <2>4 DEF RunEffect
        <3>2. /\ receiving' \in [Streams -> BOOLEAN]
              /\ aborted' \in [Streams -> BOOLEAN]
              /\ listening' \in [Streams -> BOOLEAN]
              /\ \A s \in Streams : receiving'[s] => receiving[s] /\ s \notin CleanedUp
            <4>1. {} \in SUBSET Streams
                OBVIOUS
            <4> QED BY <2>1, <3>1, <4>1, ToggleType DEF Inv
        <3>3. OneReceives'
            BY <3>1, <3>2 DEF Inv, OneReceives, CleanedUp, Streams
        <3>4. current' \in 0..MaxStreams
            BY <3>1
        <3> QED BY <2>2, <3>1, <3>2, <3>3, <3>4 DEF Inv, TypeOK, Room
    <2> QED BY <2>3, <2>4
<1>7. CASE Leave
    <2>1. CleanedUp \in SUBSET Streams
        BY DEF CleanedUp, Inv, TypeOK, Streams
    <2>2. /\ mounted' = FALSE /\ deps' = FALSE /\ current' = 0 /\ Toggle(CleanedUp, {})
          /\ UNCHANGED <<connected, opened, phase, buffer, told, latest, page, troubles>>
        BY <1>7 DEF Leave, backend
    <2>3. /\ receiving' \in [Streams -> BOOLEAN]
          /\ aborted' \in [Streams -> BOOLEAN]
          /\ listening' \in [Streams -> BOOLEAN]
          /\ \A s \in Streams : receiving'[s] => receiving[s] /\ s \notin CleanedUp
        <3>1. {} \in SUBSET Streams
            OBVIOUS
        <3> QED BY <2>1, <2>2, <3>1, ToggleType DEF Inv
    <2>4. OneReceives'
        BY <2>2, <2>3 DEF Inv, OneReceives, CleanedUp, Streams
    <2>5. current' \in 0..MaxStreams
        BY <2>2
    <2> QED BY <2>2, <2>3, <2>4, <2>5 DEF Inv, TypeOK, Room
<1> QED BY <1>1, <1>2, <1>3, <1>4, <1>5, <1>6, <1>7

\* A step keeps the invariant, and changes the page only through the current source.
LEMMA Stepwise ==
    ASSUME Inv, [Next]_vars
    PROVE  /\ Inv'
           /\ page' # page => current # 0 /\ receiving[current] /\ Acts(current)
<1>1. CASE UNCHANGED vars
    BY <1>1 DEF vars, Inv, TypeOK, OneReceives, Room
<1>2. ASSUME NEW s \in Streams, Transport(s)
      PROVE  /\ Inv'
             /\ page' # page => current # 0 /\ receiving[current] /\ Acts(current)
    <2>1. receiving[s] => s = current /\ current # 0
        BY DEF Inv, OneReceives, Streams
    <2> QED BY <1>2, <2>1, TransportStep
<1>3. CASE \/ \E s \in Streams : SendStatus(s) \/ SendError(s)
           \/ StatusChanges
           \/ LogInOrOut
           \/ Refresh
           \/ RunEffect
           \/ Leave
    BY <1>3, OtherStep
<1> QED BY <1>1, <1>2, <1>3 DEF Next

-----------------------------------------------------------------------------
(***************************************************************************)
(* The age of the frames                                                   *)
(***************************************************************************)

\* Frames thrown away, or taken from the front, leave the rest in order.
LEMMA Fewer ==
    ASSUME Inv, AgeInv, NEW s \in Streams, opened' = opened, latest' = latest,
           phase[s] # "unused",
           \A t \in Streams \ {s} : phase'[t] = phase[t],
           \A t \in Streams : receiving'[t] => receiving[t],
           \/ buffer' = [buffer EXCEPT ![s] = <<>>]
           \/ buffer[s] # <<>> /\ buffer' = [buffer EXCEPT ![s] = Tail(@)],
           page'.runs = page.runs
    PROVE  AgeInv'
<1>1. \A t \in Streams : buffer[t] \in Seq(Frames)
    BY DEF Inv, TypeOK
<1>2. \A t \in Streams \ {s} : buffer'[t] = buffer[t]
    BY DEF Inv, TypeOK
<1>3. /\ Len(buffer'[s]) \in Nat /\ Len(buffer'[s]) <= Len(buffer[s])
      /\ \A i \in 1..Len(buffer'[s]) :
             i + 1 \in 1..Len(buffer[s]) /\ buffer'[s][i] = buffer[s][i + 1]
    <2>1. CASE buffer' = [buffer EXCEPT ![s] = <<>>]
        <3>1. buffer'[s] = <<>>
            BY <2>1 DEF Inv, TypeOK
        <3>2. Len(buffer[s]) \in Nat
            BY <1>1
        <3> QED BY <3>1, <3>2
    <2>2. CASE buffer[s] # <<>> /\ buffer' = [buffer EXCEPT ![s] = Tail(@)]
        <3>1. buffer'[s] = Tail(buffer[s])
            BY <2>2 DEF Inv, TypeOK
        <3>2. /\ Len(Tail(buffer[s])) = Len(buffer[s]) - 1 /\ Len(buffer[s]) \in Nat \ {0}
              /\ \A i \in 1..Len(Tail(buffer[s])) : Tail(buffer[s])[i] = buffer[s][i + 1]
            BY <1>1, <2>2
        <3> QED BY <3>1, <3>2
    <2> QED BY <2>1, <2>2
<1>4. Unopened'
    <2>1. ~(s > opened)
        BY DEF AgeInv, Unopened
    <2> QED BY <1>2, <2>1 DEF AgeInv, Unopened
<1>5. InAge'
    <2> SUFFICES ASSUME NEW t \in Streams, NEW i \in 1..Len(buffer'[t]),
                        NEW j \in 1..Len(buffer'[t]), i <= j
                 PROVE  buffer'[t][i].version <= buffer'[t][j].version
        BY DEF InAge
    <2>1. CASE t = s
        <3>1. i + 1 <= j + 1
            BY <1>3, <2>1
        <3> QED BY <1>3, <2>1, <3>1 DEF AgeInv, InAge
    <2>2. CASE t # s
        BY <1>2, <2>2 DEF AgeInv, InAge
    <2> QED BY <2>1, <2>2
<1>6. NotAhead'
    BY <1>2, <1>3 DEF AgeInv, NotAhead
<1>7. PageBehind'
    <2> SUFFICES ASSUME NEW t \in Streams, receiving'[t], NEW i \in 1..Len(buffer'[t])
                 PROVE  page'.runs <= buffer'[t][i].version
        BY DEF AgeInv, PageBehind
    <2>1. CASE t = s
        BY <1>3, <2>1 DEF AgeInv, PageBehind
    <2>2. CASE t # s
        BY <1>2, <2>2 DEF AgeInv, PageBehind
    <2> QED BY <2>1, <2>2
<1> QED BY <1>4, <1>5, <1>6, <1>7 DEF AgeInv

\* A frame sent last is as new as the newest snapshot.
LEMMA OneMore ==
    ASSUME Inv, AgeInv, NEW s \in Streams, NEW event \in {"status", "appError", "unauthorized"},
           Send(s, event), phase[s] # "unused",
           UNCHANGED <<opened, latest, phase, receiving, page>>
    PROVE  AgeInv'
<1> DEFINE frame == [event |-> event, version |-> latest]
<1>1. \A t \in Streams : buffer[t] \in Seq(Frames)
    BY DEF Inv, TypeOK
<1>2. \A t \in Streams \ {s} : buffer'[t] = buffer[t]
    BY DEF Send, Inv, TypeOK
<1>3. buffer'[s] = Append(buffer[s], frame)
    BY DEF Send, Inv, TypeOK
<1>4. frame \in Frames /\ frame.version = latest /\ latest \in Nat
    BY DEF Frames, Versions, Inv, TypeOK
<1>5. /\ Len(buffer[s]) \in Nat /\ Len(buffer'[s]) = Len(buffer[s]) + 1
      /\ \A i \in 1..Len(buffer[s]) : buffer'[s][i] = buffer[s][i]
      /\ buffer'[s][Len(buffer'[s])] = frame
    BY <1>1, <1>3, <1>4
<1>6. Unopened'
    BY <1>2 DEF AgeInv, Unopened
<1>7. \A i \in 1..Len(buffer'[s]) : i \in 1..Len(buffer[s]) \/ i = Len(buffer'[s])
    BY <1>5
<1>8. NotAhead'
    <2> SUFFICES ASSUME NEW t \in Streams, NEW i \in 1..Len(buffer'[t])
                 PROVE  buffer'[t][i].version <= latest
        BY DEF NotAhead
    <2>1. CASE t = s
        BY SMTT(30), <1>4, <1>5, <1>7, <2>1 DEF AgeInv, NotAhead
    <2>2. CASE t # s
        BY <1>2, <2>2 DEF AgeInv, NotAhead
    <2> QED BY <2>1, <2>2
<1>9. InAge'
    <2> SUFFICES ASSUME NEW t \in Streams, NEW i \in 1..Len(buffer'[t]),
                        NEW j \in 1..Len(buffer'[t]), i <= j
                 PROVE  buffer'[t][i].version <= buffer'[t][j].version
        BY DEF InAge
    <2>1. CASE t = s /\ j = Len(buffer'[s])
        BY <1>4, <1>5, <1>8, <2>1 DEF NotAhead
    <2>2. CASE t = s /\ j # Len(buffer'[s])
        <3>1. i \in 1..Len(buffer[s]) /\ j \in 1..Len(buffer[s])
            BY <1>5, <1>7, <2>2
        <3> QED BY <1>5, <2>2, <3>1 DEF AgeInv, InAge
    <2>3. CASE t # s
        BY <1>2, <2>3 DEF AgeInv, InAge
    <2> QED BY <2>1, <2>2, <2>3
<1>10. PageBehind'
    <2> SUFFICES ASSUME NEW t \in Streams, receiving[t], NEW i \in 1..Len(buffer'[t])
                 PROVE  page.runs <= buffer'[t][i].version
        BY DEF AgeInv, PageBehind
    <2>1. CASE t = s
        BY <1>4, <1>5, <1>7, <2>1 DEF AgeInv, PageBehind
    <2>2. CASE t # s
        BY <1>2, <2>2 DEF AgeInv, PageBehind
    <2> QED BY <2>1, <2>2
<1> QED BY <1>6, <1>8, <1>9, <1>10 DEF AgeInv

\* No step mixes up the ages, and none shows older runs.
LEMMA AgeStep ==
    ASSUME Inv, AgeInv, [Next]_vars
    PROVE  AgeInv' /\ page'.runs >= page.runs
<1>0. page.runs \in Nat /\ latest \in Nat /\ opened \in Nat
    BY DEF Inv, TypeOK, Versions
<1>1. CASE UNCHANGED vars
    BY <1>0, <1>1 DEF vars, AgeInv, Unopened, InAge, NotAhead, PageBehind
<1>2. ASSUME NEW s \in Streams, NEW problem \in Problems, Attempted(s, problem),
             phase[s] # "unused", UNCHANGED <<opened, latest, receiving>>
      PROVE  AgeInv' /\ page'.runs >= page.runs
    <2>1. page'.runs = page.runs
        BY <1>2 DEF Attempted, Shows, Inv, TypeOK
    <2>2. \A t \in Streams \ {s} : phase'[t] = phase[t]
        BY <1>2 DEF Attempted, Goto, Inv, TypeOK
    <2>3. buffer' = [buffer EXCEPT ![s] = <<>>]
        BY <1>2 DEF Attempted
    <2>4. \A t \in Streams : receiving'[t] => receiving[t]
        BY <1>2
    <2>5. opened' = opened /\ latest' = latest
        BY <1>2
    <2>6. AgeInv'
        BY <1>2, <2>1, <2>2, <2>3, <2>4, <2>5, Fewer, Zenon
    <2> QED BY <1>0, <2>1, <2>6
<1>3. ASSUME NEW s \in Streams, FetchOk(s) PROVE AgeInv' /\ page'.runs >= page.runs
    <2>1. \A t \in Streams \ {s} : phase'[t] = phase[t]
        BY <1>3 DEF FetchOk, Goto, Inv, TypeOK
    <2>2. phase[s] # "unused" /\ UNCHANGED <<opened, latest, receiving, buffer, page>>
        BY <1>3 DEF FetchOk, switches
    <2>3. Unopened'
        BY <2>1, <2>2 DEF AgeInv, Unopened
    <2> QED BY <1>0, <2>2, <2>3 DEF AgeInv, InAge, NotAhead, PageBehind
<1>4. ASSUME NEW s \in Streams, FetchFails(s) PROVE AgeInv' /\ page'.runs >= page.runs
    <2>1. PICK problem \in {"http", "lost"} : Attempted(s, problem)
        BY <1>4 DEF FetchFails
    <2> QED BY <1>2, <1>4, <2>1 DEF FetchFails, switches, backend, Problems
<1>5. ASSUME NEW s \in Streams, FetchUnauthorized(s) PROVE AgeInv' /\ page'.runs >= page.runs
    BY <1>2, <1>5 DEF FetchUnauthorized, switches, backend, Problems
<1>6. ASSUME NEW s \in Streams, Aborted(s) PROVE AgeInv' /\ page'.runs >= page.runs
    BY <1>2, <1>6 DEF Aborted, switches, backend, Problems
<1>7. ASSUME NEW s \in Streams, ConnectionEnds(s) PROVE AgeInv' /\ page'.runs >= page.runs
    <2>1. CASE Attempted(s, "lost")
        BY <1>2, <1>7, <2>1 DEF ConnectionEnds, switches, backend, Problems
    <2>2. CASE /\ Goto(s, IF receiving[s] THEN "waiting" ELSE "done")
               /\ buffer' = [buffer EXCEPT ![s] = <<>>]
               /\ UNCHANGED page
        <3>1. \A t \in Streams \ {s} : phase'[t] = phase[t]
            BY <2>2 DEF Goto, Inv, TypeOK
        <3>2. phase[s] # "unused" /\ UNCHANGED <<opened, latest, receiving>>
            BY <1>7 DEF ConnectionEnds, switches, backend
        <3>3. \A t \in Streams : receiving'[t] => receiving[t]
            BY <3>2
        <3>4. opened' = opened /\ latest' = latest /\ page'.runs = page.runs
            BY <2>2, <3>2
        <3>5. AgeInv'
            BY <2>2, <3>1, <3>2, <3>3, <3>4, Fewer, Zenon
        <3> QED BY <1>0, <3>4, <3>5
    <2> QED BY <1>7, <2>1, <2>2 DEF ConnectionEnds
<1>8. ASSUME NEW s \in Streams, DelayOver(s) PROVE AgeInv' /\ page'.runs >= page.runs
    <2>1. \A t \in Streams \ {s} : phase'[t] = phase[t]
        BY <1>8 DEF DelayOver, Goto, Inv, TypeOK
    <2>2. phase[s] # "unused" /\ UNCHANGED <<opened, latest, receiving, buffer, page>>
        BY <1>8 DEF DelayOver, switches, backend
    <2>3. Unopened'
        BY <2>1, <2>2 DEF AgeInv, Unopened
    <2> QED BY <1>0, <2>2, <2>3 DEF AgeInv, InAge, NotAhead, PageBehind
<1>9. ASSUME NEW s \in Streams, Receive(s) PROVE AgeInv' /\ page'.runs >= page.runs
    <2> DEFINE frame == Head(buffer[s])
    <2>1. /\ buffer[s] \in Seq(Frames) /\ buffer[s] # <<>> /\ phase[s] # "unused"
          /\ buffer' = [buffer EXCEPT ![s] = Tail(@)] /\ UNCHANGED <<opened, latest>>
        BY <1>9 DEF Receive, Inv, TypeOK, backend
    <2>2. \A t \in Streams \ {s} : phase'[t] = phase[t]
        BY <1>9 DEF Receive, Goto, Inv, TypeOK
    <2>3. \A t \in Streams : receiving'[t] => receiving[t]
        BY <1>9 DEF Receive, Handled, Close, Toggle, switches, Inv, TypeOK
    <2>4. page'.runs = page.runs \/ (receiving[s] /\ page'.runs = frame.version)
        BY <1>9 DEF Receive, Handled, Inv, TypeOK
    <2>5. CASE page'.runs = page.runs
        <3>1. opened' = opened /\ latest' = latest
            BY <2>1
        <3>2. AgeInv'
            BY <2>1, <2>2, <2>3, <2>5, <3>1, Fewer, Zenon
        <3> QED BY <1>0, <2>5, <3>2
    <2>6. CASE receiving[s] /\ page'.runs = frame.version
        <3>1. 1 \in 1..Len(buffer[s]) /\ frame = buffer[s][1] /\ frame.version \in Nat
            <4>1. Len(buffer[s]) \in Nat \ {0} /\ frame = buffer[s][1] /\ frame \in Frames
                BY <2>1
            <4> QED BY <4>1 DEF Frames, Versions
        <3>2. page.runs <= frame.version /\ frame.version <= latest
            BY <2>6, <3>1 DEF AgeInv, PageBehind, NotAhead
        <3>3. \A t \in Streams : receiving[t] => t = s
            BY <2>6 DEF Inv, OneReceives
        <3>4. /\ Len(buffer[s]) \in Nat \ {0} /\ buffer'[s] = Tail(buffer[s])
              /\ \A t \in Streams \ {s} : buffer'[t] = buffer[t]
            BY <2>1 DEF Inv, TypeOK
        <3>5. \A i \in 1..Len(buffer'[s]) :
                  i + 1 \in 1..Len(buffer[s]) /\ buffer'[s][i] = buffer[s][i + 1]
            <4>1. /\ Len(Tail(buffer[s])) = Len(buffer[s]) - 1
                  /\ \A i \in 1..Len(Tail(buffer[s])) : Tail(buffer[s])[i] = buffer[s][i + 1]
                BY <2>1
            <4> QED BY <3>4, <4>1
        <3>6. Unopened'
            <4>1. ~(s > opened)
                BY <2>1 DEF AgeInv, Unopened
            <4> QED BY <2>1, <2>2, <3>4, <4>1 DEF AgeInv, Unopened
        <3>7. InAge'
            <4> SUFFICES ASSUME NEW t \in Streams, NEW i \in 1..Len(buffer'[t]),
                                NEW j \in 1..Len(buffer'[t]), i <= j
                         PROVE  buffer'[t][i].version <= buffer'[t][j].version
                BY DEF InAge
            <4>1. CASE t = s
                <5>1. i + 1 <= j + 1
                    BY <3>4, <4>1
                <5> QED BY <3>5, <4>1, <5>1 DEF AgeInv, InAge
            <4>2. CASE t # s
                BY <3>4, <4>2 DEF AgeInv, InAge
            <4> QED BY <4>1, <4>2
        <3>8. NotAhead'
            BY <2>1, <3>4, <3>5 DEF AgeInv, NotAhead
        <3>9. PageBehind'
            <4>1. \A i \in 1..Len(buffer'[s]) : frame.version <= buffer'[s][i].version
                <5> SUFFICES ASSUME NEW i \in 1..Len(buffer'[s])
                             PROVE  frame.version <= buffer'[s][i].version
                    OBVIOUS
                <5>1. i + 1 \in 1..Len(buffer[s]) /\ 1 <= i + 1
                    BY <3>5
                <5>2. buffer[s][1].version <= buffer[s][i + 1].version
                    BY <3>1, <5>1 DEF AgeInv, InAge
                <5> QED BY <3>1, <3>5, <5>2
            <4> QED BY <2>1, <2>3, <2>6, <3>2, <3>3, <4>1 DEF PageBehind
        <3> QED BY <1>0, <2>6, <3>1, <3>2, <3>6, <3>7, <3>8, <3>9 DEF AgeInv
    <2> QED BY <2>4, <2>5, <2>6
<1>10. ASSUME NEW s \in Streams, SendStatus(s) PROVE AgeInv' /\ page'.runs >= page.runs
    BY <1>0, <1>10, OneMore DEF SendStatus, untouched, switches
<1>11. ASSUME NEW s \in Streams, SendError(s) PROVE AgeInv' /\ page'.runs >= page.runs
    BY <1>0, <1>11, OneMore DEF SendError, untouched, switches
<1>12. CASE StatusChanges
    <2>1. latest' = latest + 1 /\ UNCHANGED <<opened, phase, receiving, buffer, page>>
        BY <1>12 DEF StatusChanges, untouched, switches
    <2>2. NotAhead'
        <3>1. \A s \in Streams : \A i \in 1..Len(buffer[s]) : buffer[s][i].version \in Nat
            <4>1. \A s \in Streams : buffer[s] \in Seq(Frames)
                BY DEF Inv, TypeOK
            <4>2. \A s \in Streams : \A i \in 1..Len(buffer[s]) : buffer[s][i] \in Frames
                BY <4>1
            <4> QED BY <4>2 DEF Frames, Versions
        <3> QED BY <1>0, <2>1, <3>1 DEF AgeInv, NotAhead
    <2> QED BY <1>0, <2>1, <2>2 DEF AgeInv, Unopened, InAge, PageBehind
<1>13. CASE LogInOrOut
    BY <1>0, <1>13 DEF LogInOrOut, others, switches, backend, AgeInv, Unopened, InAge, NotAhead,
                       PageBehind
<1>14. CASE Refresh
    BY <1>0, <1>14 DEF Refresh, others, switches, backend, AgeInv, Unopened, InAge, NotAhead,
                       PageBehind
<1>15. CASE RunEffect
    <2>1. UNCHANGED <<buffer, latest, page>>
        BY <1>15 DEF RunEffect, backend
    <2>2. CASE connected
        <3>1. opened' = opened + 1 /\ Toggle(CleanedUp, {opened'}) /\ Goto(opened', "fetching")
            BY <1>15, <2>2 DEF RunEffect
        <3>2. opened' \in Streams
            BY <1>15, <2>2, <3>1 DEF RunEffect, Inv, TypeOK, Room, Streams
        <3>3. buffer[opened'] = <<>>
            BY <1>0, <3>1, <3>2 DEF AgeInv, Unopened
        <3>4. \A t \in Streams \ {opened'} : phase'[t] = phase[t]
            BY <3>1 DEF Goto, Inv, TypeOK
        <3>5. Unopened'
            BY <1>0, <2>1, <3>1, <3>2, <3>4 DEF AgeInv, Unopened, Streams
        <3>6. \A t \in Streams : receiving'[t] => receiving[t] \/ t = opened'
            BY <3>1 DEF Toggle
        <3>7. PageBehind'
            <4> SUFFICES ASSUME NEW t \in Streams, receiving'[t], NEW i \in 1..Len(buffer[t])
                         PROVE  page.runs <= buffer[t][i].version
                BY <2>1 DEF AgeInv, PageBehind
            <4>1. CASE t = opened'
                BY <3>3, <4>1
            <4>2. CASE receiving[t]
                BY <4>2 DEF AgeInv, PageBehind
            <4> QED BY <3>6, <4>1, <4>2
        <3> QED BY <1>0, <2>1, <3>5, <3>7 DEF AgeInv, InAge, NotAhead
    <2>3. CASE ~connected
        <3>1. Toggle(CleanedUp, {}) /\ UNCHANGED <<opened, phase>>
            BY <1>15, <2>3 DEF RunEffect
        <3>2. \A t \in Streams : receiving'[t] => receiving[t]
            BY <3>1 DEF Toggle
        <3> QED BY <1>0, <2>1, <3>1, <3>2 DEF AgeInv, Unopened, InAge, NotAhead, PageBehind
    <2> QED BY <2>2, <2>3
<1>16. CASE Leave
    <2>1. Toggle(CleanedUp, {}) /\ UNCHANGED <<opened, phase, buffer, latest, page>>
        BY <1>16 DEF Leave, backend
    <2>2. \A t \in Streams : receiving'[t] => receiving[t]
        BY <2>1 DEF Toggle
    <2> QED BY SMTT(30), <1>0, <2>1, <2>2 DEF AgeInv, Unopened, InAge, NotAhead, PageBehind
<1> QED BY <1>1, <1>3, <1>4, <1>5, <1>6, <1>7, <1>8, <1>9, <1>10, <1>11, <1>12, <1>13, <1>14,
           <1>15, <1>16 DEF Next, Transport

-----------------------------------------------------------------------------
(***************************************************************************)
(* Theorems                                                                *)
(***************************************************************************)

\* The variables keep their types; the effect never opens a source past the bound,
\* because a user who is dropped by a 401 while it is due opens none.
THEOREM TypeCorrect == Spec => []TypeOK
<1>1. Init => Inv
    BY Initially
<1>2. Inv /\ [Next]_vars => Inv'
    BY Stepwise
<1>3. Inv => TypeOK
    BY DEF Inv
<1> QED BY <1>1, <1>2, <1>3, PTL DEF Spec

\* Only the source the effect opened last, while it is open, changes the page.
THEOREM CurrentSpeaks == Spec => OnlyCurrentSpeaks
<1>1. Init => Inv
    BY Initially
<1>2. Inv /\ [Next]_vars => Inv'
    BY Stepwise
<1>3. Inv /\ [Next]_vars
        => [page' # page => current # 0 /\ receiving[current] /\ Acts(current)]_vars
    BY Stepwise
<1> QED BY <1>1, <1>2, <1>3, PTL DEF Spec, OnlyCurrentSpeaks

\* The runs shown never go back to an older snapshot.
THEOREM NeverBack == Spec => RunsNeverGoBack
<1>1. Init => Inv /\ AgeInv
    <2>1. ASSUME Init PROVE AgeInv
        BY <2>1 DEF Init, AgeInv, Unopened, InAge, NotAhead, PageBehind
    <2> QED BY <2>1, Initially
<1>2. Inv /\ AgeInv /\ [Next]_vars => (Inv /\ AgeInv)'
    BY Stepwise, AgeStep
<1>3. Inv /\ AgeInv /\ [Next]_vars => [page'.runs >= page.runs]_vars
    BY AgeStep
<1> QED BY <1>1, <1>2, <1>3, PTL DEF Spec, RunsNeverGoBack

HIDE StreamClientAssumption

-----------------------------------------------------------------------------
(***************************************************************************)
(* The watch loop and its handler                                          *)
(***************************************************************************)

\* What may be published now: Feed!Publish without its effect.
Publishable(event) ==
    /\ event.runs \in Snapshots
    /\ Feed!Faithful(event.runs)
    /\ \/ <<event.runs, event.err>> # <<prevRuns, prevErr>>
       \/ Feed!Unrecognisable(event.runs, event.err)

\* Whoever is about to send or to write an event has one.
InHands ==
    /\ hpc = "write" => inHand \in Events
    /\ lpc = "emit" => outbox \in Events

\* A repository read at any moment since the last event shows a recent status.
Witnessed == \A r \in Repos : DeriveStatus(run[r]) \in recent[r]

\* A poll in progress is faithful so far, and only a poll holds a snapshot.
PollInv ==
    /\ Feed!Faithful(snapshot)
    /\ lpc # "poll" => snapshot = NothingPolled

\* While the handler listens, the loop has only nil to repeat until the first
\* event is out, and what it is about to send is worth an event.
SendInv ==
    /\ cancelled => hpc = "ended"
    /\ ~cancelled /\ prevRuns = NoRuns => lpc \in {"off", "poll", "emit"}
    /\ ~cancelled /\ lpc = "emit" => Publishable(outbox)

WatchInv == WatchTypeOK /\ InHands /\ Witnessed /\ PollInv /\ SendInv

-----------------------------------------------------------------------------
LEMMA SameSnapshots == Feed!Snapshots = Snapshots
BY DEF Feed!Snapshots, Feed!WorkflowRun, Snapshots, WorkflowRun

LEMMA Derived == \A state : state \in RunStates => DeriveStatus(state) \in Statuses
BY DEF DeriveStatus, Statuses

LEMMA EmptyPoll ==
    /\ NothingPolled \in Snapshots
    /\ DOMAIN NothingPolled = {}
    /\ Feed!Faithful(NothingPolled)
<1>1. NothingPolled \in [{} -> WorkflowRun] /\ DOMAIN NothingPolled = {}
  BY DEF NothingPolled
<1>2. NothingPolled \in Snapshots
  BY <1>1 DEF Snapshots
<1>3. QED
  BY <1>1, <1>2 DEF Feed!Faithful

LEMMA SnapshotParts ==
    ASSUME NEW runs \in Snapshots
    PROVE  /\ DOMAIN runs \in SUBSET Repos
           /\ \A r \in DOMAIN runs : runs[r] \in WorkflowRun
BY DEF Snapshots

\* The status carried forward is a status, and the one shown last.
LEMMA Carried ==
    ASSUME WatchTypeOK, NEW r \in Repos, NEW err \in Errors
    PROVE  /\ CarryForward(r, err) \in WorkflowRun
           /\ CarryForward(r, err).error = err
           /\ CarryForward(r, err).status = Feed!Shown(r)
<1>1. prevRuns # NoRuns => prevRuns \in Snapshots
  BY DEF WatchTypeOK
<1>2. prevRuns # NoRuns /\ r \in DOMAIN prevRuns => prevRuns[r].status \in Statuses
  BY <1>1, SnapshotParts DEF WorkflowRun
<1>3. "None" \in Statuses
  BY DEF Statuses
<1>4. QED
  BY <1>2, <1>3 DEF CarryForward, WorkflowRun, Feed!Shown

\* Putting a repository's run extends the snapshot by it.
LEMMA PutExtends ==
    ASSUME snapshot \in Snapshots, NEW r \in Repos, NEW result \in WorkflowRun, Put(r, result)
    PROVE  /\ snapshot' \in Snapshots
           /\ DOMAIN snapshot' = DOMAIN snapshot \cup {r}
           /\ snapshot'[r] = result
           /\ \A s \in DOMAIN snapshot \ {r} : snapshot'[s] = snapshot[s]
<1>1. DOMAIN snapshot \in SUBSET Repos /\ \A s \in DOMAIN snapshot : snapshot[s] \in WorkflowRun
  BY SnapshotParts
<1>2. snapshot' = [known \in DOMAIN snapshot \cup {r} |->
                      IF known = r THEN result ELSE snapshot[known]]
  BY DEF Put
<1>3. snapshot' \in [DOMAIN snapshot \cup {r} -> WorkflowRun]
  BY <1>1, <1>2
<1>4. DOMAIN snapshot \cup {r} \in SUBSET Repos
  BY <1>1
<1>5. QED
  BY <1>2, <1>3, <1>4 DEF Snapshots

\* Emitting what differs, or what is one error away, is worth an event.
LEMMA EmitOutcome ==
    ASSUME NEW runs \in Snapshots \cup {NoRuns}, NEW err \in Errors, NEW sameRuns \in BOOLEAN,
           outbox \in Events \cup {NoEvent}, Emit(runs, err, sameRuns)
    PROVE  /\ outbox' \in Events \cup {NoEvent}
           /\ \/ lpc' = "idle" /\ sameRuns
              \/ /\ lpc' = "emit" /\ outbox' \in Events
                 /\ outbox'.runs = runs /\ outbox'.err = err
                 /\ ~sameRuns \/ err # prevErr \/ err = "net"
BY DEF Emit, Suppressed, ErrEqual, Events

LEMMA WatchStarts == WatchInit => WatchInv
<1>. SUFFICES ASSUME WatchInit PROVE WatchInv
  OBVIOUS
<1>. USE WorkflowWatchAssumption
<1>1. \A r \in Repos : DeriveStatus(run[r]) \in Statuses
  BY Derived DEF WatchInit
<1>2. recent \in [Repos -> SUBSET Statuses] /\ Witnessed
  BY <1>1 DEF WatchInit, Witnessed
<1>3. WatchTypeOK
  <2>1. "none" \in Errors /\ 0 \in 0..MaxChanges /\ 0 \in 0..MaxFaults
    BY DEF Errors
  <2>2. QED
    BY <1>2, <2>1, EmptyPoll DEF WatchInit, WatchTypeOK
<1>4. InHands /\ SendInv
  BY DEF WatchInit, InHands, SendInv
<1>5. PollInv
  BY EmptyPoll DEF WatchInit, PollInv
<1>6. QED
  BY <1>2, <1>3, <1>4, <1>5 DEF WatchInv

\* Well-typed steps, and whoever is about to send or to write holds an event.
LEMMA WatchTypeStep == WatchInv /\ [WatchNext]_watchVars => WatchTypeOK' /\ InHands'
<1>. SUFFICES ASSUME WatchInv, [WatchNext]_watchVars PROVE WatchTypeOK' /\ InHands'
  OBVIOUS
<1>. USE WorkflowWatchAssumption DEF WatchTypeOK, InHands, github, loopVars, handlerVars
<1>0. WatchTypeOK /\ InHands
  BY DEF WatchInv
<1>1. ASSUME NEW r \in Repos, RunMoves(r) PROVE WatchTypeOK' /\ InHands'
  <2>1. PICK state \in RunStates :
            /\ run' = [run EXCEPT ![r] = state]
            /\ recent' = [recent EXCEPT ![r] = @ \cup {DeriveStatus(state)}]
    BY <1>1 DEF RunMoves
  <2>2. run' \in [Repos -> RunStates] /\ recent' \in [Repos -> SUBSET Statuses]
    BY <1>0, <2>1, Derived
  <2>3. changes' \in 0..MaxChanges
    BY <1>0, <1>1 DEF RunMoves, Moves
  <2>4. QED
    BY <1>0, <1>1, <2>2, <2>3 DEF RunMoves
<1>2. ASSUME NEW r \in Repos, ListMoves(r) PROVE WatchTypeOK' /\ InHands'
  BY <1>0, <1>2 DEF ListMoves, Moves
<1>3. CASE TokenRevoked
  BY <1>0, <1>3 DEF TokenRevoked, Moves
<1>4. CASE BrowserLeaves
  BY <1>0, <1>4 DEF BrowserLeaves
<1>5. CASE Refuse
  BY <1>0, <1>5 DEF Refuse, Errors
<1>6. CASE DiscoveryFails
  <2>1. faults' \in 0..MaxFaults
    BY <1>0, <1>6 DEF DiscoveryFails, CallFails
  <2>2. QED
    BY <1>0, <1>6, <2>1 DEF DiscoveryFails
<1>7. CASE StartWatch
  BY <1>0, <1>7 DEF StartWatch, CallSucceeds
<1>8. ASSUME NEW r \in Repos, PollRepo(r) PROVE WatchTypeOK' /\ InHands'
  <2>1. faults' \in 0..MaxFaults
    BY <1>0, <1>8 DEF PollRepo, CallFails, CallSucceeds
  <2>2. Clean(r) \in WorkflowRun
    BY <1>0, Derived DEF Clean, WorkflowRun, Errors
  <2>3. snapshot' \in Snapshots
    BY <1>0, <1>8, <2>2, Carried, PutExtends DEF PollRepo
  <2>4. QED
    BY <1>0, <1>8, <2>1, <2>3 DEF PollRepo
<1>9. CASE PollDone
  <2>1. PICK sameRuns \in MayEqual(snapshot) : Emit(snapshot, "none", sameRuns)
    BY <1>9 DEF PollDone
  <2>2. sameRuns \in BOOLEAN /\ "none" \in Errors
    BY <2>1 DEF MayEqual, Errors
  <2>3. /\ outbox' \in Events \cup {NoEvent} /\ lpc' \in {"idle", "emit"}
        /\ lpc' = "emit" => outbox' \in Events
    BY <1>0, <2>1, <2>2, EmitOutcome
  <2>4. QED
    BY <1>0, <1>9, <2>3, EmptyPoll DEF PollDone
<1>10. ASSUME NEW t \in Tickers, TakeTick(t) PROVE WatchTypeOK' /\ InHands'
  BY <1>0, <1>10 DEF TakeTick, Tickers
<1>11. CASE Rediscover
  <2>1. PICK err \in Errors : Emit(prevRuns, err, TRUE)
    BY <1>11 DEF Rediscover, Errors
  <2>2. /\ outbox' \in Events \cup {NoEvent} /\ lpc' \in {"idle", "emit"}
        /\ lpc' = "emit" => outbox' \in Events
    BY <1>0, <2>1, EmitOutcome
  <2>3. CallSucceeds \/ \E failure \in Errors : CallFails(failure)
    BY <1>11 DEF Rediscover
  <2>4. faults' \in 0..MaxFaults
    BY <1>0, <2>3 DEF CallFails, CallSucceeds
  <2>5. repos' \in SUBSET Repos
    BY <1>0, <1>11 DEF Rediscover
  <2>6. QED
    BY <1>0, <1>11, <2>2, <2>4, <2>5 DEF Rediscover
<1>12. CASE SendEvent
  <2>1. outbox \in Events
    BY <1>0, <1>12 DEF SendEvent
  <2>2. recent' \in [Repos -> SUBSET Statuses]
    BY <1>0, <1>12, Derived DEF SendEvent
  <2>3. QED
    BY <1>0, <1>12, <2>1, <2>2 DEF SendEvent, Events
<1>13. CASE AbandonSend
  BY <1>0, <1>13 DEF AbandonSend
<1>14. CASE LoopEnds
  BY <1>0, <1>14 DEF LoopEnds
<1>15. CASE Write
  <2>1. inHand \in Events
    BY <1>0, <1>15 DEF Write
  <2>2. heard' \in [runs: Snapshots \cup {NoRuns}, err: Errors \cup {"store"}]
    BY <1>0, <1>15, <2>1 DEF Write, Written, Events
  <2>3. QED
    BY <1>0, <1>15, <2>2 DEF Write
<1>16. CASE HandlerEnds
  BY <1>0, <1>16 DEF HandlerEnds, Stop
<1>17. CASE WriteLost
  BY <1>0, <1>17 DEF WriteLost
<1>18. CASE UNCHANGED watchVars
  BY <1>0, <1>18 DEF watchVars
<1>19. QED
  BY <1>1, <1>2, <1>3, <1>4, <1>5, <1>6, <1>7, <1>8, <1>9, <1>10, <1>11, <1>12, <1>13,
     <1>14, <1>15, <1>16, <1>17, <1>18 DEF WatchNext

\* Only a move of a run and an event sent show in the feed.
LEMMA FeedTouched ==
    ASSUME WatchNext, \A r \in Repos : ~RunMoves(r), ~SendEvent
    PROVE  UNCHANGED <<run, recent, prevRuns, prevErr>>
BY DEF WatchNext, ListMoves, PollRepo, TokenRevoked, BrowserLeaves, Refuse, DiscoveryFails,
       StartWatch, PollDone, TakeTick, Rediscover, AbandonSend, LoopEnds, Write, HandlerEnds,
       WriteLost, Moves, github, loopVars, handlerVars

LEMMA WitnessedStep == WatchInv /\ [WatchNext]_watchVars => Witnessed'
<1>. SUFFICES ASSUME WatchInv, [WatchNext]_watchVars PROVE Witnessed'
  OBVIOUS
<1>0. WatchTypeOK /\ Witnessed
  BY DEF WatchInv
<1>1. ASSUME NEW r \in Repos, RunMoves(r) PROVE Witnessed'
  <2>1. PICK state \in RunStates :
            /\ run' = [run EXCEPT ![r] = state]
            /\ recent' = [recent EXCEPT ![r] = @ \cup {DeriveStatus(state)}]
    BY <1>1 DEF RunMoves
  <2>2. ASSUME NEW s \in Repos PROVE DeriveStatus(run'[s]) \in recent'[s]
    <3>1. CASE s = r
      BY <1>0, <2>1, <3>1 DEF WatchTypeOK
    <3>2. CASE s # r
      BY <1>0, <2>1, <3>2 DEF WatchTypeOK, Witnessed
    <3>3. QED
      BY <3>1, <3>2
  <2>3. QED
    BY <2>2 DEF Witnessed, DeriveStatus
<1>2. CASE SendEvent
  BY <1>2 DEF SendEvent, Witnessed, github, DeriveStatus
<1>3. CASE UNCHANGED <<run, recent>>
  BY <1>0, <1>3 DEF Witnessed, DeriveStatus
<1>4. QED
  BY <1>1, <1>2, <1>3, FeedTouched DEF watchVars

\* A snapshot stays faithful while the feed only sees runs move.
LEMMA FaithfulKept ==
    ASSUME WatchInv, [WatchNext]_watchVars, ~SendEvent, NEW runs \in Snapshots,
           Feed!Faithful(runs)
    PROVE  Feed!Faithful(runs)'
<1>1. prevRuns' = prevRuns /\ \A r \in Repos : recent[r] \subseteq recent'[r]
  <2>1. ASSUME NEW r \in Repos, RunMoves(r)
        PROVE  prevRuns' = prevRuns /\ \A s \in Repos : recent[s] \subseteq recent'[s]
    BY <2>1 DEF RunMoves, WatchInv, WatchTypeOK
  <2>2. CASE UNCHANGED <<recent, prevRuns>>
    BY <2>2
  <2>3. QED
    BY <2>1, <2>2, FeedTouched DEF watchVars
<1>2. \A r \in DOMAIN runs : r \in Repos
  BY SnapshotParts
<1>3. \A r \in Repos : Feed!Shown(r)' = Feed!Shown(r)
  BY <1>1 DEF Feed!Shown
<1>4. QED
  BY <1>1, <1>2, <1>3 DEF Feed!Faithful

LEMMA NothingNew == NothingPolled' = NothingPolled
BY DEF NothingPolled

LEMMA PollStep == WatchInv /\ [WatchNext]_watchVars => PollInv'
<1>. SUFFICES ASSUME WatchInv, [WatchNext]_watchVars PROVE PollInv'
  OBVIOUS
<1>0. /\ WatchTypeOK /\ Witnessed /\ PollInv
      /\ snapshot \in Snapshots
  BY DEF WatchInv, WatchTypeOK
<1>1. CASE SendEvent
  <2>1. snapshot' = NothingPolled' /\ lpc' = "idle"
    BY <1>0, <1>1, NothingNew DEF SendEvent, PollInv
  <2>2. DOMAIN snapshot' = {}
    BY <2>1, NothingNew, EmptyPoll
  <2>3. QED
    BY <2>1, <2>2 DEF PollInv, Feed!Faithful
<1>2. CASE snapshot' = snapshot /\ (lpc' # "poll" => lpc # "poll") /\ ~SendEvent
  <2>1. Feed!Faithful(snapshot)'
    BY <1>0, <1>2, FaithfulKept DEF PollInv, Feed!Faithful
  <2>2. QED
    BY <1>0, <1>2, <2>1, NothingNew DEF PollInv
<1>3. ASSUME NEW r \in Repos, PollRepo(r) PROVE PollInv'
  <2>1. UNCHANGED <<recent, prevRuns>> /\ lpc' = "poll"
    BY <1>3 DEF PollRepo
  <2>2. \A s \in Repos : Feed!Shown(s)' = Feed!Shown(s)
    BY <2>1 DEF Feed!Shown
  <2>3. PICK result \in WorkflowRun :
            /\ Put(r, result)
            /\ \/ result.error = "none" /\ result.status \in recent[r]
               \/ result.status = Feed!Shown(r)
    <3>1. CASE Put(r, Clean(r))
      BY <1>0, <3>1, Derived DEF Clean, WorkflowRun, Errors, Witnessed, WatchTypeOK
    <3>2. ASSUME NEW err \in Errors, Put(r, CarryForward(r, err))
          PROVE  \E result \in WorkflowRun : Put(r, result) /\ result.status = Feed!Shown(r)
      BY <1>0, <3>2, Carried
    <3>3. QED
      BY <1>3, <3>1, <3>2 DEF PollRepo
  <2>4. /\ snapshot' \in Snapshots
        /\ DOMAIN snapshot' = DOMAIN snapshot \cup {r}
        /\ snapshot'[r] = result
        /\ \A s \in DOMAIN snapshot \ {r} : snapshot'[s] = snapshot[s]
    BY <1>0, <2>3, PutExtends
  <2>5. \A s \in DOMAIN snapshot : s \in Repos
    BY <1>0, SnapshotParts
  <2>6. Feed!Faithful(snapshot)'
    BY <1>0, <2>1, <2>2, <2>3, <2>4, <2>5 DEF Feed!Faithful, PollInv
  <2>7. QED
    BY <2>1, <2>6 DEF PollInv
<1>4. CASE PollDone
  <2>1. snapshot' = NothingPolled'
    BY <1>4, NothingNew DEF PollDone
  <2>2. DOMAIN snapshot' = {}
    BY <2>1, NothingNew, EmptyPoll
  <2>3. QED
    BY <2>1, <2>2 DEF PollInv, Feed!Faithful
<1>5. CASE UNCHANGED watchVars
  BY <1>0, <1>2, <1>5, <1>1 DEF watchVars
<1>6. \/ SendEvent \/ PollDone \/ \E r \in Repos : PollRepo(r)
      \/ snapshot' = snapshot /\ (lpc' # "poll" => lpc # "poll")
  BY <1>5 DEF WatchNext, RunMoves, ListMoves, TokenRevoked, BrowserLeaves, Refuse,
     DiscoveryFails, StartWatch, TakeTick, Rediscover, AbandonSend, LoopEnds, Write,
     HandlerEnds, WriteLost, github, loopVars, handlerVars, watchVars
<1>7. QED
  BY <1>1, <1>2, <1>3, <1>4, <1>6

\* What was shown last may always be shown again.
LEMMA LastFaithful == prevRuns # NoRuns => Feed!Faithful(prevRuns)
BY DEF Feed!Faithful, Feed!Shown

\* Between two events, an event that was worth sending stays so.
LEMMA PublishableKept ==
    ASSUME WatchInv, [WatchNext]_watchVars, ~SendEvent, NEW event, Publishable(event)
    PROVE  Publishable(event)'
<1>1. UNCHANGED <<prevRuns, prevErr>>
  BY FeedTouched DEF RunMoves, watchVars
<1>2. Feed!Faithful(event.runs)'
  BY FaithfulKept DEF Publishable
<1>3. QED
  BY <1>1, <1>2 DEF Publishable, Feed!Unrecognisable

\* Emit blocks on what may be published only.
LEMMA PollPublishable ==
    ASSUME WatchInv, PollDone, lpc' = "emit"
    PROVE  Publishable(outbox')
<1>0. /\ outbox \in Events \cup {NoEvent} /\ snapshot \in Snapshots
      /\ Feed!Faithful(snapshot)
  BY DEF WatchInv, WatchTypeOK, PollInv
<1>1. PICK sameRuns \in MayEqual(snapshot) : Emit(snapshot, "none", sameRuns)
  BY DEF PollDone
<1>2. /\ sameRuns \in BOOLEAN /\ "none" \in Errors
      /\ ~sameRuns => snapshot # prevRuns \/ Feed!Unrecognisable(snapshot, "none")
  BY <1>1 DEF MayEqual, Errors, Feed!Unrecognisable
<1>3. /\ outbox'.runs = snapshot /\ outbox'.err = "none"
      /\ ~sameRuns \/ "none" # prevErr
  BY <1>0, <1>1, <1>2, EmitOutcome
<1>4. QED
  BY <1>0, <1>2, <1>3 DEF Publishable

LEMMA RediscoverPublishable ==
    ASSUME WatchInv, Rediscover, lpc' = "emit", ~cancelled
    PROVE  Publishable(outbox')
<1>0. /\ outbox \in Events \cup {NoEvent} /\ prevRuns \in Snapshots
  BY DEF WatchInv, WatchTypeOK, SendInv, Rediscover
<1>1. PICK err \in Errors : Emit(prevRuns, err, TRUE)
  BY DEF Rediscover, Errors
<1>2. outbox'.runs = prevRuns /\ outbox'.err = err /\ (err # prevErr \/ err = "net")
  BY <1>0, <1>1, EmitOutcome
<1>3. Feed!Faithful(prevRuns)
  BY <1>0, LastFaithful, NoRunsAssumption
<1>4. QED
  BY <1>0, <1>2, <1>3 DEF Publishable, Feed!Unrecognisable

\* Steps that touch neither the event nor what it is compared with, start no emit and
\* cancel only what has ended.
Kept ==
    /\ ~SendEvent
    /\ UNCHANGED <<prevRuns, outbox>>
    /\ lpc' = "emit" => lpc = "emit"
    /\ ~cancelled /\ prevRuns = NoRuns => lpc' \in {"off", "poll", "emit"}
    /\ cancelled => cancelled'
    /\ cancelled' => hpc' = "ended"

LEMMA SendStep == WatchInv /\ [WatchNext]_watchVars => SendInv'
<1>. SUFFICES ASSUME WatchInv, [WatchNext]_watchVars PROVE SendInv'
  OBVIOUS
<1>0. WatchTypeOK /\ SendInv
  BY DEF WatchInv
<1>1. CASE SendEvent
  <2>1. hpc = "select" /\ ~cancelled /\ ~cancelled' /\ lpc = "emit" /\ lpc' = "idle"
    BY <1>0, <1>1 DEF SendEvent, SendInv
  <2>2. prevRuns' \in Snapshots
    BY <1>0, <1>1, <2>1 DEF SendEvent, SendInv, Publishable
  <2>3. QED
    BY <2>1, <2>2, NoRunsAssumption DEF SendInv
<1>2. CASE PollDone
  <2>1. UNCHANGED <<prevRuns, prevErr, recent, cancelled, hpc>>
    BY <1>2 DEF PollDone, handlerVars
  <2>2. lpc' \in {"idle", "emit"}
    BY <1>2 DEF PollDone, Emit
  <2>3. lpc' = "emit" => Publishable(outbox')
    BY <1>2, PollPublishable
  <2>4. ASSUME lpc' = "idle", ~cancelled PROVE prevRuns # NoRuns
    <3>1. \E sameRuns \in MayEqual(snapshot) : sameRuns
      BY <1>2, <2>4 DEF PollDone, Emit, Suppressed
    <3>2. snapshot = prevRuns /\ snapshot \in Snapshots
      BY <1>0, <3>1 DEF MayEqual, WatchTypeOK
    <3>3. QED
      BY <3>2, NoRunsAssumption
  <2>5. Publishable(outbox') => Publishable(outbox)'
    BY <2>1 DEF Publishable, Feed!Faithful, Feed!Shown, Feed!Unrecognisable
  <2>6. QED
    BY <1>0, <2>1, <2>2, <2>3, <2>4, <2>5 DEF SendInv
<1>3. CASE Rediscover
  <2>1. UNCHANGED <<prevRuns, prevErr, recent, cancelled, hpc>> /\ lpc = "rediscover"
    BY <1>3 DEF Rediscover, handlerVars
  <2>2. lpc' = "emit" /\ ~cancelled => Publishable(outbox')
    BY <1>3, RediscoverPublishable
  <2>3. Publishable(outbox') => Publishable(outbox)'
    BY <2>1 DEF Publishable, Feed!Faithful, Feed!Shown, Feed!Unrecognisable
  <2>4. QED
    BY <1>0, <2>1, <2>2, <2>3 DEF SendInv
<1>4. CASE Kept
  <2>1. ~cancelled' /\ lpc' = "emit" => Publishable(outbox)'
    BY <1>0, <1>4, PublishableKept DEF Kept, Publishable, SendInv
  <2>2. QED
    BY <1>0, <1>4, <2>1 DEF Kept, SendInv
<1>5. CASE AbandonSend \/ LoopEnds
  BY <1>0, <1>5 DEF AbandonSend, LoopEnds, SendInv, handlerVars
<1>6. ASSUME NEW r \in Repos, RunMoves(r) \/ ListMoves(r) \/ PollRepo(r) PROVE Kept
  BY <1>0, <1>6 DEF Kept, RunMoves, ListMoves, PollRepo, SendEvent, SendInv, loopVars, handlerVars,
     Moves, github, WatchTypeOK
<1>7. ASSUME TokenRevoked \/ BrowserLeaves PROVE Kept
  BY <1>0, <1>7 DEF Kept, TokenRevoked, BrowserLeaves, SendEvent, SendInv, loopVars, handlerVars
<1>8. ASSUME Refuse \/ DiscoveryFails \/ StartWatch PROVE Kept
  BY <1>0, <1>8 DEF Kept, Refuse, DiscoveryFails, StartWatch, SendEvent, SendInv, loopVars
<1>9. ASSUME NEW t \in Tickers, TakeTick(t) PROVE Kept
  BY <1>0, <1>9 DEF Kept, TakeTick, Tickers, SendEvent, SendInv, handlerVars
<1>10. ASSUME Write \/ HandlerEnds \/ WriteLost PROVE Kept
  BY <1>0, <1>10 DEF Kept, Write, HandlerEnds, WriteLost, Stop, SendEvent, SendInv, loopVars
<1>11. ASSUME UNCHANGED watchVars PROVE Kept
  BY <1>0, <1>11 DEF Kept, SendEvent, SendInv, watchVars
<1>12. QED
  BY <1>1, <1>2, <1>3, <1>4, <1>5, <1>6, <1>7, <1>8, <1>9, <1>10, <1>11 DEF WatchNext

LEMMA WatchInvariant == WatchSpec => []WatchInv
<1>1. WatchInv /\ [WatchNext]_watchVars => WatchInv'
  BY WatchTypeStep, WitnessedStep, PollStep, SendStep DEF WatchInv
<1>2. QED
  BY WatchStarts, <1>1, PTL DEF WatchSpec

\* The types of the loop's and the handler's state, whatever GitHub reports: the
\* switch of deriveWorkflowRunStatus lets no other status through, and whoever
\* writes an event to the browser holds one.
THEOREM WatchTypeCorrect == WatchSpec => []WatchTypeOK
BY WatchInvariant, PTL DEF WatchInv

-----------------------------------------------------------------------------
LEMMA FeedStarts == WatchInit => Feed!FeedInit
<1>. SUFFICES ASSUME WatchInit PROVE Feed!FeedInit
  OBVIOUS
<1>1. [r \in Repos |-> DeriveStatus(run[r])] \in [Repos -> Statuses]
  BY Derived DEF WatchInit
<1>2. QED
  BY <1>1 DEF WatchInit, Feed!FeedInit

\* Every step of the loop, the handler, GitHub and the browser is a step of the feed.
LEMMA FeedStep == WatchInv /\ [WatchNext]_watchVars => [Feed!FeedNext]_Feed!feedVars
<1>. SUFFICES ASSUME WatchInv, [WatchNext]_watchVars PROVE [Feed!FeedNext]_Feed!feedVars
  OBVIOUS
<1>. DEFINE now == [r \in Repos |-> DeriveStatus(run[r])]
<1>0. WatchTypeOK /\ SendInv
  BY DEF WatchInv
<1>1. ASSUME NEW r \in Repos, RunMoves(r) PROVE Feed!RunMoves
  <2>1. PICK state \in RunStates :
            /\ run' = [run EXCEPT ![r] = state]
            /\ recent' = [recent EXCEPT ![r] = @ \cup {DeriveStatus(state)}]
    BY <1>1 DEF RunMoves
  <2>2. DeriveStatus(state) \in Statuses
    BY Derived
  <2>3. now' = [now EXCEPT ![r] = DeriveStatus(state)]
    <3>1. ASSUME NEW s \in Repos
          PROVE  now'[s] = [now EXCEPT ![r] = DeriveStatus(state)][s]
      <4>1. CASE s = r
        BY <1>0, <2>1, <4>1 DEF WatchTypeOK
      <4>2. CASE s # r
        BY <1>0, <2>1, <4>2 DEF WatchTypeOK, DeriveStatus
      <4>3. QED
        BY <4>1, <4>2
    <3>2. QED
      BY <3>1
  <2>4. UNCHANGED <<prevRuns, prevErr>>
    BY <1>1 DEF RunMoves
  <2>5. QED
    BY <2>1, <2>2, <2>3, <2>4 DEF Feed!RunMoves
<1>2. CASE SendEvent
  <2>1. lpc = "emit" /\ hpc = "select" /\ ~cancelled
    BY <1>0, <1>2 DEF SendEvent, SendInv
  <2>2. Publishable(outbox) /\ outbox \in Events
    BY <2>1 DEF WatchInv, SendInv, InHands
  <2>3. outbox.runs \in Feed!Snapshots /\ outbox.err \in Errors
    BY <2>2, SameSnapshots DEF Publishable, Events
  <2>4. now' = now /\ recent' = [r \in Repos |-> {now[r]}]
    BY <1>2 DEF SendEvent, github, DeriveStatus
  <2>5. prevRuns' = outbox.runs /\ prevErr' = outbox.err
    BY <1>2 DEF SendEvent
  <2>6. QED
    BY <2>2, <2>3, <2>4, <2>5 DEF Feed!FeedNext, Feed!Publish, Publishable
<1>3. CASE UNCHANGED <<run, recent, prevRuns, prevErr>>
  BY <1>3 DEF Feed!feedVars, DeriveStatus
<1>4. QED
  BY <1>1, <1>2, <1>3, FeedTouched DEF Feed!FeedNext, watchVars

\* Whatever fails, moves, appears or is revoked between two calls, and however many
\* repositories and runs there are, the events of WatchWorkflowRuns are a StatusFeed:
\* no status goes back, a repository that could not be polled keeps the one shown
\* last, and no event repeats the one before it.
THEOREM FeedImplemented == WatchSpec => ImplementsFeed
BY WatchInvariant, FeedStarts, FeedStep, PTL DEF WatchSpec, ImplementsFeed, Feed!FeedSpec

=============================================================================
