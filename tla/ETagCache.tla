------------------------------ MODULE ETagCache ------------------------------
(***************************************************************************)
(* The caching round tripper of the GitHub client (scm/github/httpcache):  *)
(* concurrent GETs of one URL become conditional requests by way of an     *)
(* entry they share.  Looking the entry up, the exchange with the server   *)
(* and storing the answer are steps of their own, so answers are stored in *)
(* any order.  Contents come back, and with them their ETags.              *)
(***************************************************************************)
EXTENDS Naturals

CONSTANTS
    Calls,      \* GET requests of one URL
    Contents,   \* what the resource may be; a content has one ETag, itself
    None,       \* no entry, no If-None-Match, no body, no answer
    MaxChanges  \* bound: changes of the resource

ASSUME ETagCacheAssumption == None \notin Contents /\ MaxChanges \in Nat

VARIABLES
    content,  \* the resource at GitHub
    changes,  \* its changes so far
    entry,    \* the cache's entry
    pc,       \* pc[c]: where call c is
    held,     \* held[c]: the entry c looked up
    reply,    \* reply[c]: GitHub's answer to c
    answer,   \* answer[c]: what c's caller was given
    during    \* during[c]: what the resource was since c began (history)

cacheVars == <<content, changes, entry, pc, held, reply, answer, during>>

Representation == [body: Contents, link: Contents]
CacheEntry == [etag: Contents, body: Contents, link: Contents]

\* A 304 has no body, and of the headers only those that may have changed.
Replies == [status: {"ok", "notModified"}, etag: Contents \cup {None},
            body: Contents \cup {None}, link: Contents \cup {None}]
NotModified(etag) == [status |-> "notModified", etag |-> etag, body |-> None, link |-> None]
Ok(etag) == [status |-> "ok", etag |-> etag, body |-> content, link |-> content]

CacheTypeOK ==
    /\ content \in Contents
    /\ changes \in 0..MaxChanges
    /\ entry \in CacheEntry \cup {None}
    /\ pc \in [Calls -> {"new", "sent", "replied", "answered", "failed"}]
    /\ held \in [Calls -> CacheEntry \cup {None}]
    /\ reply \in [Calls -> Replies \cup {None}]
    /\ answer \in [Calls -> Representation \cup {None}]
    /\ during \in [Calls -> SUBSET Contents]

CacheInit ==
    /\ content \in Contents
    /\ changes = 0
    /\ entry = None
    /\ pc = [c \in Calls |-> "new"]
    /\ held = [c \in Calls |-> None]
    /\ reply = [c \in Calls |-> None]
    /\ answer = [c \in Calls |-> None]
    /\ during = [c \in Calls |-> {}]

-----------------------------------------------------------------------------
Goto(c, where) == pc' = [pc EXCEPT ![c] = where]
Answered(c, representation) ==
    /\ Goto(c, "answered")
    /\ answer' = [answer EXCEPT ![c] = representation]
Failed(c) == Goto(c, "failed") /\ UNCHANGED answer

github == <<content, changes, during>>

Change ==
    /\ changes < MaxChanges
    /\ changes' = changes + 1
    /\ content' \in Contents \ {content}
    /\ during' = [c \in Calls |-> IF pc[c] \in {"sent", "replied"}
                                    THEN during[c] \cup {content'} ELSE during[c]]
    /\ UNCHANGED <<entry, pc, held, reply, answer>>

\* The entry is copied out; its ETag goes into If-None-Match.
Lookup(c) ==
    /\ pc[c] = "new"
    /\ Goto(c, "sent")
    /\ held' = [held EXCEPT ![c] = entry]
    /\ during' = [during EXCEPT ![c] = {content}]
    /\ UNCHANGED <<content, changes, entry, reply, answer>>

\* GitHub answers the conditional request, with or without an ETag, or fails it.
Exchange(c) ==
    /\ pc[c] = "sent"
    /\ \/ /\ held[c] # None /\ held[c].etag = content
          /\ reply' = [reply EXCEPT ![c] = NotModified(content)]
          /\ Goto(c, "replied")
       \/ /\ held[c] # None => held[c].etag # content
          /\ \E etag \in {content, None} : reply' = [reply EXCEPT ![c] = Ok(etag)]
          /\ Goto(c, "replied")
       \/ /\ Goto(c, "failed")
          /\ UNCHANGED reply
    /\ UNCHANGED <<github, entry, held, answer>>

\* Mutant: the answer of a 304 is the entry of now.
ReplayedNow(c) == [body |-> entry.body, link |-> entry.link]

\* The entry that was looked up, with the headers the 304 has anew.
Replayed(c) == [body |-> held[c].body, link |-> held[c].link]

Replay(c) ==
    /\ pc[c] = "replied" /\ reply[c].status = "notModified"
    /\ Answered(c, Replayed(c))
    /\ UNCHANGED <<github, entry, held, reply>>

\* The body is read before the caller sees the response: it breaks off, or is
\* stored, or is answered without being stored (no ETag, or Close failed).
Store(c) ==
    /\ pc[c] = "replied" /\ reply[c].status = "ok"
    /\ \/ /\ reply[c].etag # None
          /\ entry' = [etag |-> reply[c].etag, body |-> reply[c].body, link |-> reply[c].link]
          /\ Answered(c, [body |-> reply[c].body, link |-> reply[c].link])
       \/ /\ Answered(c, [body |-> reply[c].body, link |-> reply[c].link])
          /\ UNCHANGED entry
       \/ /\ Failed(c)
          /\ UNCHANGED entry
    /\ UNCHANGED <<github, held, reply>>

CacheNext == Change \/ \E c \in Calls : Lookup(c) \/ Exchange(c) \/ Replay(c) \/ Store(c)

CacheSpec == CacheInit /\ [][CacheNext]_cacheVars

-----------------------------------------------------------------------------
(***************************************************************************)
(* Properties                                                              *)
(***************************************************************************)

\* Through stale entries, answers stored out of order and ETags that come back,
\* a caller gets what it would have got without the cache.
Get == INSTANCE FreshGet WITH
           state <- [c \in Calls |->
                        IF pc[c] \in {"sent", "replied"} THEN "open" ELSE pc[c]]

ImplementsFreshGet == Get!GetSpec

=============================================================================
