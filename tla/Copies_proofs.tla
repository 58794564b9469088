---------------------------- MODULE Copies_proofs ----------------------------
(***************************************************************************)
(* Proofs about the two copies the backend keeps of what others change:    *)
(* GitHub's answers (ETagCache), for any number of concurrent requests and *)
(* contents, and the certificate on disk (TLSReload), for any number of    *)
(* renewals and watcher failures.  Neither serves halves of two versions.  *)
(***************************************************************************)
EXTENDS ETagCache, TLSReload, TLAPS

-----------------------------------------------------------------------------
(***************************************************************************)
(* The ETag cache: its callers cannot tell it from FreshGet                *)
(***************************************************************************)

\* An entry's body and pagination link are those its ETag was sent for.
Whole(stored) == stored.body = stored.etag /\ stored.link = stored.etag

\* What the request looked up is whole, and whatever GitHub answers or confirms to
\* it, the resource was while the request was under way.
CallInv(c) ==
    /\ held[c] # None => Whole(held[c])
    /\ pc[c] = "sent" => content \in during[c]
    /\ pc[c] = "replied" =>
           /\ reply[c] \in Replies
           /\ reply[c].status = "notModified" => held[c] # None /\ held[c].etag \in during[c]
           /\ reply[c].status = "ok" =>
                  /\ reply[c].body \in during[c]
                  /\ reply[c].link = reply[c].body
                  /\ reply[c].etag # None => reply[c].etag = reply[c].body

CacheInv ==
    /\ entry # None => Whole(entry)
    /\ \A c \in Calls : CallInv(c)

FreshInv == CacheTypeOK /\ CacheInv

LEMMA CacheStarts == CacheInit => FreshInv
BY ETagCacheAssumption DEF CacheInit, FreshInv, CacheTypeOK, CacheInv, CallInv

LEMMA CacheTypeStep == FreshInv /\ [CacheNext]_cacheVars => CacheTypeOK'
<1>. SUFFICES ASSUME FreshInv, [CacheNext]_cacheVars PROVE CacheTypeOK'
  OBVIOUS
<1>. USE DEF CacheTypeOK, Goto, Answered, Failed, github
<1>1. CASE Change
  <2>1. content' \in Contents /\ changes' \in 0..MaxChanges
    BY <1>1, ETagCacheAssumption DEF Change, FreshInv
  <2>2. during' \in [Calls -> SUBSET Contents]
    BY <1>1, <2>1 DEF Change, FreshInv
  <2>3. QED
    BY <1>1, <2>1, <2>2 DEF Change, FreshInv
<1>2. ASSUME NEW c \in Calls, Lookup(c) PROVE CacheTypeOK'
  BY <1>2 DEF Lookup, FreshInv
<1>3. ASSUME NEW c \in Calls, Exchange(c) PROVE CacheTypeOK'
  <2>1. NotModified(content) \in Replies /\ \A etag \in {content, None} : Ok(etag) \in Replies
    BY DEF NotModified, Ok, Replies, FreshInv
  <2>2. QED
    BY <1>3, <2>1 DEF Exchange, FreshInv
<1>4. ASSUME NEW c \in Calls, Replay(c) PROVE CacheTypeOK'
  <2>1. Replayed(c) \in Representation
    BY <1>4 DEF Replay, Replayed, Representation, CacheEntry, FreshInv, CacheInv, CallInv
  <2>2. QED
    BY <1>4, <2>1 DEF Replay, FreshInv
<1>5. ASSUME NEW c \in Calls, Store(c) PROVE CacheTypeOK'
  <2>1. /\ reply[c] \in Replies
        /\ reply[c].body \in Contents /\ reply[c].link \in Contents
    BY <1>5 DEF Store, FreshInv, CacheInv, CallInv
  <2>2. QED
    BY <1>5, <2>1 DEF Store, FreshInv, Representation, CacheEntry, Replies
<1>6. CASE UNCHANGED cacheVars
  BY <1>6 DEF cacheVars, FreshInv
<1>7. QED
  BY <1>1, <1>2, <1>3, <1>4, <1>5, <1>6 DEF CacheNext

\* The steps of one request touch no other.
LEMMA OthersKept ==
    ASSUME FreshInv, NEW c \in Calls, Lookup(c) \/ Exchange(c) \/ Replay(c) \/ Store(c),
           NEW d \in Calls \ {c}
    PROVE  /\ content' = content
           /\ pc'[d] = pc[d] /\ held'[d] = held[d] /\ reply'[d] = reply[d]
           /\ during'[d] = during[d]
BY DEF Lookup, Exchange, Replay, Store, Goto, Answered, Failed, github, FreshInv, CacheTypeOK

LEMMA CacheStep == FreshInv /\ [CacheNext]_cacheVars => CacheInv'
<1>. SUFFICES ASSUME FreshInv, [CacheNext]_cacheVars
              PROVE  (entry' # None => Whole(entry')) /\ \A c \in Calls : CallInv(c)'
  BY DEF CacheInv
<1>1. (entry # None => Whole(entry)) /\ \A c \in Calls : CallInv(c)
  BY DEF FreshInv, CacheInv
<1>2. CASE Change
  <2>1. ASSUME NEW c \in Calls PROVE CallInv(c)'
    <3>1. UNCHANGED <<pc[c], held[c], reply[c]>>
      BY <1>2 DEF Change
    <3>2. pc[c] \in {"sent", "replied"} => during'[c] = during[c] \cup {content'}
      BY <1>2 DEF Change
    <3>3. QED
      BY <1>1, <3>1, <3>2 DEF CallInv, Whole
  <2>2. QED
    BY <1>1, <1>2, <2>1 DEF Change
<1>3. ASSUME NEW c \in Calls, Lookup(c) \/ Exchange(c) \/ Replay(c) \/ Store(c)
      PROVE  (entry' # None => Whole(entry')) /\ \A d \in Calls : CallInv(d)'
  <2>1. ASSUME NEW d \in Calls \ {c} PROVE CallInv(d)'
    BY <1>1, <1>3, <2>1, OthersKept DEF CallInv, Whole
  <2>2. CASE Lookup(c)
    <3>1. CallInv(c)'
      BY <1>1, <2>2 DEF Lookup, Goto, CallInv, FreshInv, CacheTypeOK
    <3>2. QED
      BY <1>1, <2>1, <2>2, <3>1 DEF Lookup
  <2>3. CASE Exchange(c)
    <3>1. UNCHANGED <<held, during, entry>>
      BY <2>3 DEF Exchange, github
    <3>2. CASE /\ pc'[c] = "replied" /\ content \in during[c]
               /\ \/ reply'[c] = NotModified(content) /\ held[c] # None /\ held[c].etag = content
                  \/ \E etag \in {content, None} : reply'[c] = Ok(etag)
      <4>1. content \in Contents /\ None \notin Contents
        BY ETagCacheAssumption DEF FreshInv, CacheTypeOK
      <4>2. CASE reply'[c] = NotModified(content) /\ held[c] # None /\ held[c].etag = content
        <5>1. reply'[c] \in Replies /\ reply'[c].status = "notModified"
          BY <4>1, <4>2 DEF NotModified, Replies
        <5>2. CallInv(c)'
          BY <1>1, <3>1, <3>2, <4>2, <5>1 DEF CallInv, Whole
        <5>3. QED
          BY <1>1, <2>1, <3>1, <5>2
      <4>3. ASSUME NEW etag \in {content, None}, reply'[c] = Ok(etag)
            PROVE  (entry' # None => Whole(entry')) /\ \A d \in Calls : CallInv(d)'
        <5>1. /\ reply'[c] \in Replies /\ reply'[c].status = "ok"
              /\ reply'[c].body = content /\ reply'[c].link = content /\ reply'[c].etag = etag
          BY <4>1, <4>3 DEF Ok, Replies
        <5>2. CallInv(c)'
          BY <1>1, <3>1, <3>2, <4>3, <5>1 DEF CallInv, Whole
        <5>3. QED
          BY <1>1, <2>1, <3>1, <5>2
      <4>4. QED
        BY <3>2, <4>2, <4>3
    <3>3. CASE pc'[c] = "failed"
      BY <1>1, <2>1, <3>1, <3>3 DEF CallInv
    <3>4. QED
      BY <1>1, <2>3, <3>2, <3>3 DEF Exchange, Goto, CallInv, FreshInv, CacheTypeOK
  <2>4. CASE Replay(c) \/ Store(c)
    <3>1. pc'[c] \in {"answered", "failed"} /\ UNCHANGED <<held, reply>>
      BY <2>4 DEF Replay, Store, Goto, Answered, Failed, FreshInv, CacheTypeOK
    <3>2. CallInv(c)'
      BY <1>1, <3>1 DEF CallInv, Whole
    <3>3. entry' # None => Whole(entry')
      <4>1. CASE entry' = entry
        BY <1>1, <4>1
      <4>2. CASE /\ pc[c] = "replied" /\ reply[c].status = "ok" /\ reply[c].etag # None
                 /\ entry' = [etag |-> reply[c].etag, body |-> reply[c].body, link |-> reply[c].link]
        BY <1>1, <4>2 DEF CallInv, Whole
      <4>3. QED
        BY <2>4, <4>1, <4>2 DEF Replay, Store
    <3>4. QED
      BY <2>1, <3>2, <3>3
  <2>5. QED
    BY <1>3, <2>2, <2>3, <2>4
<1>4. CASE UNCHANGED cacheVars
  BY <1>1, <1>4 DEF cacheVars, CallInv, Whole
<1>5. QED
  BY <1>2, <1>3, <1>4 DEF CacheNext

LEMMA FreshInvariant == CacheSpec => []FreshInv
<1>1. FreshInv /\ [CacheNext]_cacheVars => FreshInv'
  BY CacheTypeStep, CacheStep DEF FreshInv
<1>2. QED
  BY <1>1, CacheStarts, PTL DEF CacheSpec

\* Every variable keeps its type.
THEOREM CacheTypeCorrect == CacheSpec => []CacheTypeOK
<1>1. FreshInv => CacheTypeOK
  BY DEF FreshInv
<1>2. QED
  BY <1>1, FreshInvariant, PTL

\* What a caller is answered with was the resource at some moment of its request.
LEMMA AnswersFresh ==
    ASSUME FreshInv, NEW c \in Calls, Replay(c) \/ Store(c)
    PROVE  /\ pc[c] = "replied" /\ UNCHANGED <<content, during>>
           /\ \/ /\ pc' = [pc EXCEPT ![c] = "answered"]
                 /\ \E seen \in during[c] :
                        answer' = [answer EXCEPT ![c] = [body |-> seen, link |-> seen]]
              \/ pc' = [pc EXCEPT ![c] = "failed"] /\ UNCHANGED answer
<1>. USE DEF Goto, Answered, Failed, github
<1>1. CASE Replay(c)
  <2>1. held[c].body \in during[c] /\ held[c].link = held[c].body
    BY <1>1 DEF Replay, FreshInv, CacheInv, CallInv, Whole
  <2>2. QED
    BY <1>1, <2>1 DEF Replay, Replayed
<1>2. CASE Store(c)
  <2>1. reply[c].body \in during[c] /\ reply[c].link = reply[c].body
    BY <1>2 DEF Store, FreshInv, CacheInv, CallInv
  <2>2. QED
    BY <1>2, <2>1 DEF Store
<1>3. QED
  BY <1>1, <1>2

\* The cache implements FreshGet: every step is one of its steps or a stutter, so
\* no caller is answered with what the resource was before it asked, with half of
\* one representation and half of another, or without the pagination link.
THEOREM Fresh == CacheSpec => ImplementsFreshGet
<1>. USE DEF Get!getVars
<1>1. CacheInit => Get!GetInit
  BY DEF CacheInit, Get!GetInit
<1>2. FreshInv /\ [CacheNext]_cacheVars => [Get!GetNext]_(Get!getVars)
  <2>. SUFFICES ASSUME FreshInv, [CacheNext]_cacheVars PROVE [Get!GetNext]_(Get!getVars)
    OBVIOUS
  <2>. USE DEF FreshInv, CacheTypeOK, Goto, github
  <2>1. CASE Change
    <3>1. Get!Change
      BY <2>1 DEF Change, Get!Change
    <3>2. QED
      BY <3>1 DEF Get!GetNext
  <2>2. ASSUME NEW c \in Calls, Lookup(c) PROVE Get!Ask(c)
    BY <2>2 DEF Lookup, Get!Ask
  <2>3. ASSUME NEW c \in Calls, Exchange(c) PROVE UNCHANGED Get!getVars \/ Get!Answer(c)
    BY <2>3 DEF Exchange, Get!Answer
  <2>4. ASSUME NEW c \in Calls, Replay(c) \/ Store(c) PROVE Get!Answer(c)
    <3>1. pc[c] = "replied" /\ UNCHANGED <<content, during>>
      BY <2>4, AnswersFresh
    <3>2. ASSUME pc' = [pc EXCEPT ![c] = "answered"],
                 NEW seen \in during[c],
                 answer' = [answer EXCEPT ![c] = [body |-> seen, link |-> seen]]
          PROVE  Get!Answer(c)
      BY <3>1, <3>2 DEF Get!Answer
    <3>3. ASSUME pc' = [pc EXCEPT ![c] = "failed"], UNCHANGED answer
          PROVE  Get!Answer(c)
      BY <3>1, <3>3 DEF Get!Answer
    <3>4. QED
      BY <2>4, <3>2, <3>3, AnswersFresh
  <2>5. CASE UNCHANGED cacheVars
    BY <2>5 DEF cacheVars
  <2>6. QED
    BY <2>1, <2>2, <2>3, <2>4, <2>5 DEF CacheNext, Get!GetNext
<1>3. QED
  BY <1>1, <1>2, FreshInvariant, PTL DEF CacheSpec, ImplementsFreshGet, Get!GetSpec

-----------------------------------------------------------------------------
(***************************************************************************)
(* The certificate reloader                                                *)
(***************************************************************************)

\* The file system, the half that reload has read and the pair that is served
\* are ordered by version: what is there is never older than what was read of
\* it, and what was read never older than what is served.
OrderInv ==
    /\ current["cert"] = current["key"]
    /\ current["cert"] <= issued
    /\ \A f \in Files : disk[f] # Missing => current[f] <= disk[f] /\ disk[f] <= issued
    /\ step = "readKey" =>
           /\ certPEM # Missing
           /\ current["cert"] <= certPEM /\ certPEM <= issued
           /\ disk["cert"] # Missing => certPEM <= disk["cert"]

ReloadInv == ReloadTypeOK /\ OrderInv

LEMMA Numbers ==
    /\ MaxVersion \in Nat /\ MaxFaults \in Nat /\ Missing \notin Nat
    /\ Versions \subseteq Nat
    /\ Files = {"cert", "key"}
BY TLSReloadAssumption DEF Versions, Files

\* The installer's steps leave the reloader alone and only move files forward.
LEMMA InstallerSteps ==
    ASSUME ReloadInv,
           \/ Issue
           \/ \E f \in Files : Overwrite(f) \/ Rename(f) \/ Remove(f)
    PROVE  /\ UNCHANGED reloader
           /\ issued <= issued' /\ issued' \in Versions
           /\ disk' \in [Files -> Halves]
           /\ watched' \in SUBSET Files
           /\ events' \in SUBSET Events
           /\ \A f \in Files : \/ disk'[f] = disk[f]
                               \/ disk'[f] = issued'
                               \/ disk'[f] = Missing
<1>. USE Numbers DEF ReloadInv, ReloadTypeOK, Halves
<1>1. CASE Issue
  BY <1>1 DEF Issue, reloader, Versions
<1>2. ASSUME NEW f \in Files, Overwrite(f) \/ Rename(f) \/ Remove(f)
      PROVE  /\ UNCHANGED <<issued, reloader>>
             /\ disk' = [disk EXCEPT ![f] = issued] \/ disk' = [disk EXCEPT ![f] = Missing]
             /\ watched' \in SUBSET Files
             /\ events' \in SUBSET Events
  <2>1. /\ UNCHANGED <<issued, reloader>>
        /\ disk' = [disk EXCEPT ![f] = issued] \/ disk' = [disk EXCEPT ![f] = Missing]
        /\ watched' \in SUBSET Files
    BY <1>2 DEF Overwrite, Rename, Remove
  <2>2. events' = events \/ events' = events \cup {<<f, "written">>}
            \/ events' = events \cup {<<f, "gone">>}
    BY <1>2 DEF Overwrite, Rename, Remove, Notify
  <2>3. <<f, "written">> \in Events /\ <<f, "gone">> \in Events
    BY DEF Events
  <2>4. QED
    BY <2>1, <2>2, <2>3
<1>3. QED
  BY <1>1, <1>2

LEMMA ReloadStarts == ReloadInit => ReloadInv
<1>. SUFFICES ASSUME ReloadInit PROVE ReloadInv
  OBVIOUS
<1>1. ReloadTypeOK
  <2>1. 0 \in Versions /\ 0 \in 0..MaxFaults
    BY Numbers DEF Versions
  <2>2. QED
    BY <2>1 DEF ReloadInit, ReloadTypeOK, Halves
<1>2. OrderInv
  BY Numbers DEF ReloadInit, OrderInv
<1>3. QED
  BY <1>1, <1>2 DEF ReloadInv

\* Watching, restarting and handling events touch neither files nor pairs.
LEMMA WatchSteps ==
    ASSUME ReloadInv, StartWatch \/ AddKey \/ WatcherFails \/ HandleEvent \/ Tick
    PROVE  /\ UNCHANGED <<files, current, certPEM>>
           /\ step' \in {"select", "addKey", "readCert"}
           /\ ReloadTypeOK'
<1>. USE DEF ReloadInv, ReloadTypeOK, WatchFails, files
<1>. /\ \A n : n \in 0..MaxFaults /\ n < MaxFaults => n + 1 \in 0..MaxFaults
     /\ {"cert"} \in SUBSET Files /\ "cert" \in Files /\ "key" \in Files
  BY Numbers DEF Files
<1>0. Fault => faults' \in 0..MaxFaults
  BY DEF Fault
<1>1. CASE StartWatch
  BY <1>0, <1>1 DEF StartWatch
<1>2. CASE AddKey
  BY <1>0, <1>2 DEF AddKey
<1>3. CASE WatcherFails
  BY <1>0, <1>3 DEF WatcherFails
<1>4. CASE HandleEvent
  <2>1. PICK event \in events :
            /\ events' = events \ {event}
            /\ watched' = watched \/ watched' = watched \cup {event[1]}
            /\ faults' = faults \/ Fault
    BY <1>4 DEF HandleEvent
  <2>2. event[1] \in Files
    BY DEF Events
  <2>3. QED
    BY <1>0, <1>4, <2>1, <2>2 DEF HandleEvent
<1>5. CASE Tick
  BY <1>5 DEF Tick
<1>6. QED
  BY <1>1, <1>2, <1>3, <1>4, <1>5

\* A reload stores nothing but a whole pair that is newer than the one served.
LEMMA ReadKeyEffect ==
    ASSUME ReloadInv, ReadKey
    PROVE  \/ current' = current
           \/ /\ current' \in [Files -> Versions]
              /\ current'["cert"] = certPEM /\ current'["key"] = certPEM
              /\ disk["key"] = certPEM
              /\ current["cert"] < certPEM
<1>. USE Numbers DEF ReloadInv, ReloadTypeOK, Halves
<1>. DEFINE pair == [cert |-> certPEM, key |-> disk["key"]]
<1>1. current' = current \/ (current' = pair /\ Parses(pair))
  BY DEF ReadKey
<1>2. ASSUME current' = pair, Parses(pair), current' # current
      PROVE  /\ current' \in [Files -> Versions]
             /\ current'["cert"] = certPEM /\ current'["key"] = certPEM
             /\ disk["key"] = certPEM
             /\ current["cert"] < certPEM
  <2>1. disk["key"] = certPEM
    BY <1>2 DEF Parses
  <2>2. /\ certPEM \in Versions /\ current["cert"] <= certPEM
        /\ certPEM \in Nat /\ current["cert"] \in Nat
    BY DEF ReadKey, OrderInv
  <2>3. pair = [f \in Files |-> certPEM]
    BY <2>1
  <2>4. current["cert"] # certPEM
    <3>1. SUFFICES ASSUME current["cert"] = certPEM PROVE FALSE
      OBVIOUS
    <3>2. current = [f \in Files |-> certPEM]
      BY <3>1 DEF OrderInv
    <3>3. QED
      BY <1>2, <2>3, <3>2
  <2>5. current["cert"] < certPEM
    BY <2>2, <2>4
  <2>6. pair \in [Files -> Versions] /\ pair["cert"] = certPEM /\ pair["key"] = certPEM
    BY <2>1, <2>2, <2>3
  <2>7. QED
    BY <1>2, <2>1, <2>5, <2>6
<1>3. QED
  BY <1>1, <1>2

LEMMA ReloadStep == ReloadInv /\ [ReloadNext]_reloadVars => ReloadInv'
<1>. SUFFICES ASSUME ReloadInv, [ReloadNext]_reloadVars PROVE ReloadInv'
  OBVIOUS
<1>. USE Numbers DEF ReloadInv
<1>1. CASE \/ Issue
           \/ \E f \in Files : Overwrite(f) \/ Rename(f) \/ Remove(f)
  <2>1. ReloadTypeOK'
    BY <1>1, InstallerSteps DEF ReloadTypeOK, reloader
  <2>2. OrderInv'
    <3>1. /\ UNCHANGED <<current, step, certPEM>>
          /\ issued <= issued' /\ issued' \in Nat
          /\ \A f \in Files : disk'[f] = disk[f] \/ disk'[f] = issued' \/ disk'[f] = Missing
      BY <1>1, InstallerSteps DEF reloader
    <3>2. current["cert"] \in Nat /\ issued \in Nat /\ certPEM \in Nat \cup {Missing}
          /\ \A f \in Files : disk[f] \in Nat \cup {Missing} /\ current[f] = current["cert"]
      BY DEF ReloadTypeOK, OrderInv, Halves
    <3>3. \A f \in Files : disk'[f] # Missing => current[f] <= disk'[f] /\ disk'[f] <= issued'
      BY <3>1, <3>2 DEF OrderInv
    <3>4. step = "readKey" => certPEM <= issued' /\ (disk'["cert"] # Missing => certPEM <= disk'["cert"])
      BY <3>1, <3>2 DEF OrderInv
    <3>5. QED
      BY <3>1, <3>2, <3>3, <3>4 DEF OrderInv
  <2>3. QED
    BY <2>1, <2>2
<1>2. CASE StartWatch \/ AddKey \/ WatcherFails \/ HandleEvent \/ Tick
  <2>1. OrderInv'
    BY <1>2, WatchSteps DEF OrderInv, files
  <2>2. QED
    BY <1>2, <2>1, WatchSteps
<1>3. CASE ReadCert
  BY <1>3 DEF ReadCert, OrderInv, ReloadTypeOK, Halves, files
<1>4. CASE ReadKey
  <2>1. UNCHANGED <<files, watched, events, watching, faults>> /\ step' = "select"
        /\ certPEM' = Missing /\ step = "readKey"
    BY <1>4 DEF ReadKey
  <2>2. ReloadTypeOK'
    BY <1>4, <2>1, ReadKeyEffect DEF ReloadTypeOK, Halves, files
  <2>3. OrderInv'
    BY <1>4, <2>1, ReadKeyEffect DEF OrderInv, ReloadTypeOK, Halves, files
  <2>4. QED
    BY <2>2, <2>3
<1>5. CASE UNCHANGED reloadVars
  BY <1>5 DEF reloadVars, OrderInv, ReloadTypeOK
<1>6. QED
  BY <1>1, <1>2, <1>3, <1>4, <1>5 DEF ReloadNext, Run

LEMMA ReloadInvariant == ReloadSpec => []ReloadInv
BY ReloadStarts, ReloadStep, PTL DEF ReloadSpec

\* Only halves that exist are ever served, and every variable keeps its type.
THEOREM ReloadTypeCorrect == ReloadSpec => []ReloadTypeOK
<1>1. ReloadInv => ReloadTypeOK
  BY DEF ReloadInv
<1>2. QED
  BY <1>1, ReloadInvariant, PTL

\* However often and in whatever way the files are replaced between its two
\* reads, reload stores whole pairs only, and never an older one.
THEOREM WholePairsServed == ReloadSpec => ServesWholePairs
<1>. DEFINE A == current' # current =>
          current'["cert"] = current'["key"] /\ current'["cert"] > current["cert"]
<1>1. ReloadInv /\ [ReloadNext]_reloadVars => A
  <2>. SUFFICES ASSUME ReloadInv, [ReloadNext]_reloadVars, current' # current
                PROVE  /\ current'["cert"] = current'["key"]
                       /\ current'["cert"] > current["cert"]
    OBVIOUS
  <2>1. ReadKey
    BY InstallerSteps, WatchSteps DEF ReloadNext, Run, ReadCert, reloadVars, reloader
  <2>2. QED
    BY <2>1, ReadKeyEffect, Numbers DEF ReloadInv, ReloadTypeOK
<1>2. ReloadInv /\ [ReloadNext]_reloadVars => [A]_reloadVars
  BY <1>1
<1>3. ReloadSpec => [][A]_reloadVars
  BY <1>2, ReloadInvariant, PTL DEF ReloadSpec
<1>4. QED
  BY <1>3 DEF ServesWholePairs

=============================================================================
