--------------------------- MODULE FunctionEditor ---------------------------
(***************************************************************************)
(* The editor page (FunctionEditPage.tsx, EditToolbar.tsx) and the backend *)
(* calls behind it: GetFiles reads the tree at HEAD, PushFiles commits on  *)
(* the head it finds.  The page loads the files anew for every namespace   *)
(* the console switches to; meanwhile the user edits, deletes, saves and   *)
(* leaves, and others push to the branch.  Any call may fail, and the      *)
(* answer of a push that landed may be lost.  Only the toolbar's own Back  *)
(* asks before edits are lost: a link of the console, the browser's back,  *)
(* a reload, and the answer to a disconnect or to a call that an earlier   *)
(* page has left behind, take the browser away without a word.             *)
(***************************************************************************)
EXTENDS Sequences, Navigation

CONSTANTS
    Paths,       \* file paths
    Contents,    \* what a file can hold
    Absent,      \* no such file
    None,        \* no path
    Handler,     \* the file a known runtime opens
    FuncYaml,    \* the file opened otherwise
    Folders,     \* the sets of paths that are one folder of the tree view
    MaxForeign,  \* bound: pushes of others
    MaxLoads,    \* bound: mounts and namespace switches
    MaxSaves     \* bound: clicks on "Save & Deploy"

ASSUME FunctionEditorAssumption ==
    /\ Absent \notin Contents /\ None \notin Paths
    /\ {Handler, FuncYaml} \subseteq Paths
    /\ Folders \subseteq SUBSET Paths
    /\ MaxForeign \in Nat /\ MaxSaves \in Nat
    /\ MaxLoads \in Nat \ {0}

VARIABLES
    log,        \* the trees the branch has had, the head last
    foreign,    \* pushes of others so far
    page,       \* on the page, asked whether to leave, left by Back, or gone
    files,      \* what the editor holds
    original,   \* originalFiles: what it takes the branch to hold
    repoInfo,   \* whether some load has brought the files
    selected,   \* selectedPath
    load,       \* load[l]: how far the l-th load is, and the tree it read
    current,    \* the load whose effect is not cleaned up yet
    save,       \* how far the running save is
    sent,       \* files and deletedFiles captured by that save
    base,       \* the head its commit builds on
    saves,      \* saves so far
    synced,     \* what the user last loaded or saved, path by path (history)
    shownAt,    \* the tree the last load showed (history)
    overlap     \* that load showed its files during a save (history)

branch == <<log, foreign>>
editor == <<files, original, repoInfo, selected>>
saving == <<save, sent, base, saves>>
history == <<synced, shownAt, overlap>>
vars == <<branch, page, editor, load, current, saving, history, away>>

Trees == [Paths -> Contents \cup {Absent}]
NoTree == [p \in Paths |-> Absent]
Present(t) == {p \in Paths : t[p] # Absent}
NothingSent == [files |-> NoTree, deleted |-> {}]
SaveSteps == {"idle", "getRef", "updateRef", "pushed", "failed"}

TypeOK ==
    /\ log \in Seq(Trees) /\ Len(log) \in 1..(1 + MaxForeign + MaxSaves)
    /\ foreign \in 0..MaxForeign
    /\ page \in {"open", "asking", "left", "gone"}
    /\ files \in Trees /\ original \in Trees
    /\ repoInfo \in BOOLEAN
    /\ selected \in Paths \cup {None}
    /\ load \in [1..MaxLoads -> [at: {"list", "files", "answer", "settled"}, tree: 0..Len(log)]]
    /\ current \in 1..MaxLoads
    /\ save \in SaveSteps
    /\ sent \in [files: Trees, deleted: SUBSET Paths]
    /\ base \in 0..Len(log)
    /\ saves \in 0..MaxSaves
    /\ synced \in Trees
    /\ shownAt \in 0..Len(log)
    /\ overlap \in BOOLEAN
    /\ AwayTypeOK

\* The page mounts on a repository that has files, and its first load starts.
Init ==
    /\ \E t \in Trees \ {NoTree} : log = <<t>>
    /\ foreign = 0
    /\ page = "open"
    /\ files = NoTree /\ original = NoTree
    /\ repoInfo = FALSE
    /\ selected = None
    /\ load = [l \in 1..MaxLoads |-> [at |-> "list", tree |-> 0]]
    /\ current = 1
    /\ save = "idle"
    /\ sent = NothingSent
    /\ base = 0
    /\ saves = 0
    /\ synced = NoTree
    /\ shownAt = 0
    /\ overlap = FALSE
    /\ away = 0

-----------------------------------------------------------------------------
(***************************************************************************)
(* The branch                                                              *)
(***************************************************************************)

ForeignPush ==
    /\ foreign < MaxForeign
    /\ \E t \in Trees \ {log[Len(log)]} : log' = Append(log, t)
    /\ foreign' = foreign + 1
    /\ UNCHANGED <<page, editor, load, current, saving, history, away>>

-----------------------------------------------------------------------------
(***************************************************************************)
(* Loading                                                                 *)
(***************************************************************************)

Mounted == page \in {"open", "asking"}

Started(l) == l <= current

\* The cleanup of the old effect sets its ignore flag; the new one loads.
SwitchNamespace ==
    /\ Mounted
    /\ current < MaxLoads
    /\ current' = current + 1
    /\ UNCHANGED <<branch, page, editor, load, saving, history, away>>

\* resolveRepoContent finds the repository in the list, or throws.
ListAnswers(l) ==
    /\ Started(l) /\ load[l].at = "list"
    /\ \E step \in {"files", "answer"} : load' = [load EXCEPT ![l].at = step]
    /\ UNCHANGED <<branch, page, editor, current, saving, history, away>>

\* GetFiles: the head's tree and all its blobs, or an error.
ReadTree == {Len(log), 0}

HandleGetFiles(l) ==
    /\ load[l].at = "files"
    /\ \E t \in ReadTree : load' = [load EXCEPT ![l] = [at |-> "answer", tree |-> t]]
    /\ UNCHANGED <<branch, page, editor, current, saving, history, away>>

\* Mutant: no ignore flag.
IgnoredNever(l) == FALSE

Ignored(l) == l # current

\* A failure, or a repository without files, leaves the editor as it is.
Brought(l) == load[l].tree # 0 /\ Present(log[load[l].tree]) # {}

\* Mutant: the handler map's answer is taken as it is.
OpenedUndefined(tree) == {IF Handler \in Present(tree) THEN Handler ELSE "undefined"}

\* determineHandler, or func.yaml if that names no runtime.
Opened(tree) == {IF Handler \in Present(tree) THEN Handler ELSE None, FuncYaml}

LoadEnds(l) ==
    /\ Mounted
    /\ load[l].at = "answer"
    /\ load' = [load EXCEPT ![l] = [at |-> "settled", tree |-> 0]]
    /\ IF Brought(l) /\ ~Ignored(l)
       THEN LET tree == log[load[l].tree] IN
            /\ files' = tree /\ original' = tree /\ synced' = tree
            /\ repoInfo' = TRUE
            /\ selected' \in Opened(tree)
            /\ shownAt' = load[l].tree
            /\ overlap' = (save # "idle")
       ELSE UNCHANGED <<editor, history>>
    /\ UNCHANGED <<branch, page, current, saving, away>>

-----------------------------------------------------------------------------
(***************************************************************************)
(* Editing                                                                 *)
(***************************************************************************)

DeletedFiles == Present(original) \ Present(files)

\* Mutant: only the selected file is compared.
DirtySelected == {p \in Present(files) \cap Present(original) :
                      p = selected /\ files[p] # original[p]}

DirtyFiles == {p \in Present(files) \cap Present(original) : files[p] # original[p]}

\* Mutant: deletions do not count.
HasEdits == DirtyFiles # {}

HasChanges == DirtyFiles # {} \/ DeletedFiles # {}

Select(p) ==
    /\ page = "open"
    /\ p \in Present(files) \ {selected}
    /\ selected' = p
    /\ UNCHANGED <<branch, page, files, original, repoInfo, load, current, saving, history, away>>

Change(content) ==
    /\ page = "open"
    /\ selected \in Present(files)
    /\ files' = [files EXCEPT ![selected] = content]
    /\ UNCHANGED <<branch, page, original, repoInfo, selected, load, current, saving, history, away>>

\* What the tree view offers to delete: a file, or all the files of a folder.
Deletable == {item \cap Present(files) : item \in Folders \cup {{p} : p \in Paths}} \ {{}}

Delete(gone) ==
    /\ page = "open"
    /\ files' = [p \in Paths |-> IF p \in gone THEN Absent ELSE files[p]]
    /\ selected' = IF selected \in gone THEN None ELSE selected
    /\ UNCHANGED <<branch, page, original, repoInfo, load, current, saving, history, away>>

-----------------------------------------------------------------------------
(***************************************************************************)
(* Saving                                                                  *)
(***************************************************************************)

\* handleSave: the button is disabled while a save runs and without changes.
Save ==
    /\ page = "open"
    /\ save = "idle" /\ HasChanges /\ repoInfo
    /\ saves < MaxSaves
    /\ saves' = saves + 1
    /\ save' = "getRef"
    /\ sent' = [files |-> files, deleted |-> DeletedFiles]
    /\ UNCHANGED <<branch, page, editor, load, current, base, history, away>>

\* HandlePutFiles up to the head of the branch; the credential's refresh may fail.
GetRef ==
    /\ save = "getRef"
    /\ \/ save' = "updateRef" /\ base' = Len(log)
       \/ save' = "failed" /\ UNCHANGED base
    /\ UNCHANGED <<branch, page, editor, load, current, sent, saves, history, away>>

\* buildTreeEntries on the tree of the base.
Committed == [p \in Paths |-> IF p \in Present(sent.files) \cup sent.deleted
                              THEN sent.files[p] ELSE log[base][p]]

\* Mutant: the reference is moved by force.
MovedForced == log' = Append(log, Committed)

Moved == base = Len(log) /\ log' = Append(log, Committed)

UpdateRef ==
    /\ save = "updateRef"
    /\ \/ Moved /\ save' \in {"pushed", "failed"}
       \/ save' = "failed" /\ UNCHANGED log
    /\ UNCHANGED <<foreign, page, editor, load, current, sent, base, saves, history, away>>

\* Mutant: the files of the moment become the baseline.
BaselineNow == files

\* setOriginalFiles(files), with the files the click captured.
Baseline == sent.files

Touched == Present(sent.files) \cup sent.deleted

SaveEnds ==
    /\ Mounted
    /\ save \in {"pushed", "failed"}
    /\ save' = "idle" /\ sent' = NothingSent /\ base' = 0
    /\ IF save = "pushed"
       THEN /\ original' = Baseline
            /\ synced' = [p \in Paths |-> IF p \in Touched THEN sent.files[p] ELSE synced[p]]
       ELSE UNCHANGED <<original, synced>>
    /\ UNCHANGED <<branch, page, files, repoInfo, selected, load, current, saves,
                   shownAt, overlap, away>>

-----------------------------------------------------------------------------
(***************************************************************************)
(* Leaving                                                                 *)
(***************************************************************************)

Back ==
    /\ page = "open"
    /\ page' = IF HasChanges THEN "asking" ELSE "left"
    /\ UNCHANGED <<branch, editor, load, current, saving, history, away>>

\* "Stay" or "Leave".
Reply ==
    /\ page = "asking"
    /\ page' \in {"open", "left"}
    /\ UNCHANGED <<branch, editor, load, current, saving, history, away>>

\* The menu of the user avatar.
LogOut ==
    /\ page = "open"
    /\ SendAway
    /\ UNCHANGED <<branch, page, editor, load, current, saving, history>>

\* The answer navigates to the list without a word, if it is not a creation refused.
CalledAway ==
    /\ AnswerAway
    /\ page' \in {page} \cup (IF Mounted THEN {"gone"} ELSE {})
    /\ UNCHANGED <<branch, editor, load, current, saving, history>>

\* A link of the console, the browser's back or a reload: nothing blocks them.
WalkAway ==
    /\ Mounted
    /\ page' = "gone"
    /\ UNCHANGED <<branch, editor, load, current, saving, history, away>>

Next ==
    \/ ForeignPush
    \/ SwitchNamespace
    \/ \E l \in 1..MaxLoads : ListAnswers(l) \/ HandleGetFiles(l) \/ LoadEnds(l)
    \/ \E p \in Paths : Select(p)
    \/ \E content \in Contents : Change(content)
    \/ \E gone \in Deletable : Delete(gone)
    \/ Save
    \/ GetRef
    \/ UpdateRef
    \/ SaveEnds
    \/ Back
    \/ Reply
    \/ LogOut
    \/ CalledAway
    \/ WalkAway

Spec == Init /\ [][Next]_vars

-----------------------------------------------------------------------------
(***************************************************************************)
(* Properties                                                              *)
(***************************************************************************)

\* Whether some tree the branch had holds these files.
OnBranch(tree) ==
    \E i \in 1..Len(log) : \A p \in Present(tree) : log[i][p] = tree[p]

\* What the editor compares with is no mixture: the branch held these files, all
\* at one time, whatever the user typed while they were on their way.
BaselineOnBranch == OnBranch(original)

\* When nothing is offered to be saved, the branch has held every file as the
\* editor shows it, unless the files were loaded anew while a save was running.
CleanShowsBranch == ~HasChanges => overlap \/ OnBranch(files)

\* Answers of an earlier namespace that come late never take the editor back to an
\* older state of the branch than a load has shown.  (The answer of the last load may
\* still be older than what a save has pushed since: nothing in the page orders them.)
LoadsNeverGoBack == [][shownAt' >= shownAt]_shownAt

\* A save commits on the head it found: files the editor never loaded, which
\* others have pushed in the meantime, come through every save unchanged.
SaveKeepsUnloaded ==
    [][log' # log /\ foreign' = foreign =>
          \A p \in Paths \ Touched : log'[Len(log')][p] = log[Len(log)][p]]_vars

\* Back leaves without a question only if the editor holds what was last loaded or
\* saved, path by path, whatever loads, saves and pushes of others came in between.
\* Edits it does not notice are in files that the baseline has never heard of, which
\* are in the editor only after a load has met a save.  The other ways to leave ask
\* nothing, whatever is lost.
BackLosesNothing ==
    [][page = "open" /\ page' = "left" =>
          \A p \in Paths :
              files[p] = synced[p] \/ (overlap /\ original[p] = Absent)]_vars

=============================================================================
