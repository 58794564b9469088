------------------------------ MODULE TLSReload ------------------------------
(***************************************************************************)
(* The certificate reloader (tlsreload/reloader.go).  Somebody else        *)
(* replaces the certificate and the key file, one after the other.  Run    *)
(* learns of it from file notifications, which are lost when a replaced    *)
(* file cannot be watched again or the watcher fails, and from a slow      *)
(* poll.  A reload reads the two files one after the other.                *)
(***************************************************************************)
EXTENDS Naturals

CONSTANTS
    Missing,     \* a file that is not there
    MaxVersion,  \* bound: key pairs issued after the first
    MaxFaults    \* bound: failures of the watcher

ASSUME TLSReloadAssumption ==
    /\ MaxVersion \in Nat /\ MaxFaults \in Nat
    /\ Missing \notin Nat

VARIABLES
    issued,    \* the key pair last issued
    disk,      \* disk[f]: the pair whose half is in file f
    watched,   \* files whose present inode is watched
    events,    \* undelivered notifications
    current,   \* what GetCertificate serves: the halves of the pair stored last
    step,      \* the step Run takes next
    watching,  \* Run is inside watch, rather than waiting to restart it
    certPEM,   \* the certificate that reload has read
    faults     \* failures so far

reloadVars ==
    <<issued, disk, watched, events, current, step, watching, certPEM, faults>>

Files == {"cert", "key"}
Versions == 0..MaxVersion
Halves == Versions \cup {Missing}
Events == Files \X {"written", "gone"}

ReloadTypeOK ==
    /\ issued \in Versions
    /\ disk \in [Files -> Halves]
    /\ watched \in SUBSET Files
    /\ events \in SUBSET Events
    /\ current \in [Files -> Versions]
    /\ step \in {"select", "addKey", "readCert", "readKey"}
    /\ watching \in BOOLEAN
    /\ certPEM \in Halves
    /\ faults \in 0..MaxFaults

\* New has loaded the first pair; Run starts its first watch.
ReloadInit ==
    /\ issued = 0
    /\ disk = [f \in Files |-> 0]
    /\ watched = {}
    /\ events = {}
    /\ current = [f \in Files |-> 0]
    /\ step = "select"
    /\ watching = FALSE
    /\ certPEM = Missing
    /\ faults = 0

-----------------------------------------------------------------------------
(***************************************************************************)
(* Whoever installs certificates.  A pair is complete before the next one  *)
(* is issued; each file is overwritten, replaced, or removed and created.  *)
(***************************************************************************)
reloader == <<current, step, watching, certPEM, faults>>

Notify(f, what) == events' = IF f \in watched THEN events \cup {<<f, what>>} ELSE events

Issue ==
    /\ disk = [f \in Files |-> issued]
    /\ issued < MaxVersion
    /\ issued' = issued + 1
    /\ UNCHANGED <<disk, watched, events, reloader>>

Overwrite(f) ==
    /\ disk[f] \notin {issued, Missing}
    /\ disk' = [disk EXCEPT ![f] = issued]
    /\ Notify(f, "written")
    /\ UNCHANGED <<issued, watched, reloader>>

\* The inode that was watched is gone, and the watch with it.
Rename(f) ==
    /\ disk[f] # issued
    /\ disk' = [disk EXCEPT ![f] = issued]
    /\ Notify(f, "gone")
    /\ watched' = watched \ {f}
    /\ UNCHANGED <<issued, reloader>>

Remove(f) ==
    /\ disk[f] \notin {issued, Missing}
    /\ disk' = [disk EXCEPT ![f] = Missing]
    /\ Notify(f, "gone")
    /\ watched' = watched \ {f}
    /\ UNCHANGED <<issued, reloader>>

-----------------------------------------------------------------------------
(***************************************************************************)
(* Run and watch.                                                          *)
(***************************************************************************)
files == <<issued, disk>>
Fault == faults < MaxFaults /\ faults' = faults + 1

\* watch returns with an error: its watcher is closed, Run waits to restart it.
WatchFails ==
    /\ step' = "select"
    /\ watching' = FALSE
    /\ watched' = {} /\ events' = {}

\* The restart timer fires: a new watcher, and its first Add.
StartWatch ==
    /\ step = "select" /\ ~watching
    /\ \/ /\ disk["cert"] # Missing
          /\ watched' = {"cert"}
          /\ step' = "addKey"
          /\ UNCHANGED <<watching, events, faults>>
       \/ disk["cert"] = Missing /\ WatchFails /\ UNCHANGED faults
       \/ WatchFails /\ Fault
    /\ UNCHANGED <<files, current, certPEM>>

AddKey ==
    /\ step = "addKey"
    /\ \/ /\ disk["key"] # Missing
          /\ watched' = watched \cup {"key"}
          /\ step' = "select"
          /\ watching' = TRUE
          /\ UNCHANGED <<events, faults>>
       \/ disk["key"] = Missing /\ WatchFails /\ UNCHANGED faults
       \/ WatchFails /\ Fault
    /\ UNCHANGED <<files, current, certPEM>>

\* An error of the watcher, or one of its channels closed.
WatcherFails ==
    /\ step = "select" /\ watching
    /\ Fault
    /\ WatchFails
    /\ UNCHANGED <<files, current, certPEM>>

\* A file that is gone is watched again, if it is already back; an error is only
\* logged, and the file is watched no more.
HandleEvent ==
    /\ step = "select" /\ watching
    /\ \E event \in events :
           /\ events' = events \ {event}
           /\ \/ /\ event[2] = "gone" => disk[event[1]] # Missing
                 /\ watched' = IF event[2] = "gone" THEN watched \cup {event[1]} ELSE watched
                 /\ UNCHANGED faults
              \/ /\ event[2] = "gone"
                 /\ \/ disk[event[1]] = Missing /\ UNCHANGED faults
                    \/ Fault
                 /\ UNCHANGED watched
    /\ step' = "readCert"
    /\ UNCHANGED <<files, current, watching, certPEM>>

\* Mutant: the poll is left to the time between two watches.
TickOnlyBetween == step = "select" /\ ~watching

\* The ticker is read inside watch and between two watches.
Ticks == step = "select"

Tick ==
    /\ Ticks
    /\ step' = "readCert"
    /\ UNCHANGED <<files, watched, events, current, watching, certPEM, faults>>

-----------------------------------------------------------------------------
(***************************************************************************)
(* reload.                                                                 *)
(***************************************************************************)
ReadCert ==
    /\ step = "readCert"
    /\ certPEM' = disk["cert"]
    /\ step' = IF disk["cert"] = Missing THEN "select" ELSE "readKey"
    /\ UNCHANGED <<files, watched, events, current, watching, faults>>

\* Mutant: whatever was read is stored.
ParsesAnything(pair) == pair["key"] # Missing

\* tls.X509KeyPair: the key is the certificate's.
Parses(pair) == pair["key"] = pair["cert"]

\* A pair that is stored already is not parsed again, which changes nothing.
ReadKey ==
    /\ step = "readKey"
    /\ LET pair == [cert |-> certPEM, key |-> disk["key"]] IN
           current' = IF Parses(pair) THEN pair ELSE current
    /\ certPEM' = Missing
    /\ step' = "select"
    /\ UNCHANGED <<files, watched, events, watching, faults>>

Run ==
    \/ StartWatch \/ AddKey
    \/ WatcherFails
    \/ HandleEvent
    \/ Tick
    \/ ReadCert \/ ReadKey

ReloadNext ==
    \/ Issue
    \/ \E f \in Files : Overwrite(f) \/ Rename(f) \/ Remove(f)
    \/ Run

ReloadSpec == ReloadInit /\ [][ReloadNext]_reloadVars

(***************************************************************************)
(* Run runs, and its select takes a tick that is ready again and again.    *)
(* Nothing is assumed of notifications, restarts or whoever installs.      *)
(***************************************************************************)
ReloadFairness ==
    /\ SF_reloadVars(Tick)
    /\ WF_reloadVars(AddKey) /\ WF_reloadVars(ReadCert) /\ WF_reloadVars(ReadKey)

ReloadFairSpec == ReloadSpec /\ ReloadFairness

-----------------------------------------------------------------------------
(***************************************************************************)
(* Properties                                                              *)
(***************************************************************************)

\* reload reads the two files while they are being replaced: whatever it finds,
\* handshakes are served a certificate with its own key, and never an older pair
\* than before.
ServesWholePairs ==
    [][current' # current =>
          current'["cert"] = current'["key"] /\ current'["cert"] > current["cert"]]_reloadVars

\* Whatever notifications are lost, the pair on disk is served in the end, also
\* when the reload that a notification started read half of it.
CatchesUp ==
    <>[](disk = [f \in Files |-> issued] => current = disk)

=============================================================================
