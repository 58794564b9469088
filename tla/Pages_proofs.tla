---------------------------- MODULE Pages_proofs ----------------------------
(***************************************************************************)
(* Proofs for the create page and the editor in one browser, for any       *)
(* repository, accounts, namespaces and bounds: what the form sends is     *)
(* what it shows; what the editor takes for saved has been on the branch,  *)
(* loads go forward, saves keep what they did not load, and Back loses     *)
(* nothing without asking but what the baseline does not know.             *)
(***************************************************************************)
EXTENDS Pages, SequenceTheorems, TLAPS

USE FunctionEditorAssumption, CreateFormAssumption, NavigationAssumption

-----------------------------------------------------------------------------
(***************************************************************************)
(* The invariant of the editor                                             *)
(***************************************************************************)

\* A push is one of the saves, and a save that has not pushed yet is still owed one.
Owed == IF save \in {"getRef", "updateRef"} THEN 1 ELSE 0
LogInv == Len(log) + Owed <= 1 + foreign + saves

\* Only a load that was answered holds a tree; a load not started holds none; and
\* the one that may show its tree has not read an older one than is shown.
LoadInv ==
    /\ \A l \in 1..MaxLoads : load[l].tree # 0 => load[l].at = "answer"
    /\ \A l \in 1..MaxLoads : l > current => load[l].at = "list"
    /\ load[current].tree # 0 => shownAt <= load[current].tree

\* A save that the branch has taken is there as it was sent.
SentInv ==
    /\ save = "updateRef" => base >= 1
    /\ save = "pushed" => OnBranch(sent.files)

\* Without a load during a save, nothing is in the editor that the baseline, or the
\* save that is about to replace it, does not have; the baseline is what the user last
\* loaded or saved, in any case so far as it goes; and what a save leaves out was no
\* file before it either.
SyncInv ==
    /\ \A p \in Present(original) : original[p] = synced[p]
    /\ ~overlap =>
        /\ Present(files) \subseteq Present(original)
        /\ original = synced
        /\ save # "idle" =>
               /\ Present(files) \subseteq Present(sent.files)
               /\ \A p \in Paths \ Touched : synced[p] = Absent

EditorInv == TypeOK /\ LogInv /\ LoadInv /\ SentInv /\ SyncInv /\ BaselineOnBranch

(***************************************************************************)
(* The invariant of the form                                               *)
(***************************************************************************)

\* A form belongs to the session; the lists are of the namespace watched; and a key
\* that is not late is one of the namespace the form shows.
KeyFits(row) ==
    row.key # Blank =>
        \/ row.late
        \/ /\ namespace # Blank /\ row.resource # Blank
           /\ row.key \in KeysOf[namespace][row.resource]

OfferFits ==
    \A r \in DOMAIN offered : debounced # Blank /\ offered[r] \subseteq KeysOf[debounced][r]

FormInv ==
    /\ owner = user
    /\ OfferFits
    /\ \A i \in 1..Len(rows) : KeyFits(rows[i])

IInv == FormTypeOK /\ FormInv /\ EditorInv /\ editing \in BOOLEAN

-----------------------------------------------------------------------------
(***************************************************************************)
(* Lemmas about the branch                                                 *)
(***************************************************************************)

\* A push of any tree keeps what the branch has had.
LEMMA Pushed ==
    ASSUME NEW t \in Trees, log \in Seq(Trees), log' = Append(log, t)
    PROVE  /\ log' \in Seq(Trees) /\ Len(log') = Len(log) + 1
           /\ \A i \in 1..Len(log) : log'[i] = log[i]
           /\ log'[Len(log')] = t
BY DEF Trees

\* What was on the branch once stays known to it.
LEMMA StillOnBranch ==
    ASSUME NEW tree, log \in Seq(Trees),
           log' = log \/ \E t \in Trees : log' = Append(log, t),
           OnBranch(tree)
    PROVE  \E i \in 1..Len(log') : \A p \in Present(tree) : log'[i][p] = tree[p]
<1>1. CASE log' = log
    BY <1>1 DEF OnBranch
<1>2. ASSUME NEW t \in Trees, log' = Append(log, t)
      PROVE  \E i \in 1..Len(log') : \A p \in Present(tree) : log'[i][p] = tree[p]
    <2>1. PICK i \in 1..Len(log) : \A p \in Present(tree) : log[i][p] = tree[p]
        BY DEF OnBranch
    <2>2. i \in 1..Len(log') /\ log'[i] = log[i]
        BY <1>2, Pushed
    <2> QED BY <2>1, <2>2
<1> QED BY <1>1, <1>2

\* The commit of a save holds the files that were sent, and leaves the others alone.
LEMMA CommitOfSave ==
    ASSUME TypeOK, base \in 1..Len(log)
    PROVE  /\ Committed \in Trees
           /\ \A p \in Present(sent.files) : Committed[p] = sent.files[p]
           /\ \A p \in Paths \ Touched : Committed[p] = log[base][p]
<1>1. log[base] \in Trees /\ sent.files \in Trees
    BY DEF TypeOK
<1> QED BY <1>1 DEF Committed, Trees, Touched, Present

-----------------------------------------------------------------------------
(***************************************************************************)
(* The editor                                                              *)
(***************************************************************************)

LEMMA EditorStarts ==
    ASSUME Init
    PROVE  EditorInv
<1>1. NoTree \in Trees /\ Present(NoTree) = {}
    BY DEF NoTree, Trees, Present
<1>2. PICK t \in Trees : log = <<t>>
    BY DEF Init
<1>3. log \in Seq(Trees) /\ Len(log) = 1
    BY <1>2
<1>4. TypeOK
    <2>1. sent \in [files: Trees, deleted: SUBSET Paths]
        BY <1>1 DEF Init, NothingSent
    <2>2. load \in [1..MaxLoads -> [at: {"list", "files", "answer", "settled"}, tree: 0..Len(log)]]
        BY <1>3 DEF Init
    <2>3. /\ foreign = 0 /\ page = "open" /\ repoInfo = FALSE /\ selected = None /\ current = 1
          /\ files = NoTree /\ original = NoTree /\ synced = NoTree
          /\ save = "idle" /\ base = 0 /\ saves = 0 /\ shownAt = 0 /\ overlap = FALSE /\ away = 0
        BY DEF Init
    <2>4. log \in Seq(Trees) /\ Len(log) \in 1..(1 + MaxForeign + MaxSaves)
        BY <1>3
    <2>5. /\ foreign \in 0..MaxForeign /\ current \in 1..MaxLoads /\ saves \in 0..MaxSaves
          /\ base \in 0..Len(log) /\ shownAt \in 0..Len(log) /\ away \in 0..MaxAway
        BY <1>3, <2>3
    <2>6. page \in {"open", "asking", "left"} /\ save \in SaveSteps
        BY <2>3 DEF SaveSteps
    <2>7. repoInfo \in BOOLEAN /\ overlap \in BOOLEAN /\ selected \in Paths \cup {None}
        BY <2>3
    <2> QED BY <1>1, <2>1, <2>2, <2>3, <2>4, <2>5, <2>6, <2>7 DEF TypeOK, AwayTypeOK
<1>5. BaselineOnBranch
    BY <1>1, <1>3 DEF Init, BaselineOnBranch, OnBranch
<1> QED BY <1>1, <1>3, <1>4, <1>5
        DEF Init, EditorInv, LogInv, Owed, LoadInv, SentInv, SyncInv

\* Pushes of others only make the branch longer.
LEMMA ForeignStep ==
    ASSUME EditorInv, ForeignPush
    PROVE  EditorInv'
<1>1. PICK t \in Trees : log' = Append(log, t)
    BY DEF ForeignPush
<1>2. log' \in Seq(Trees) /\ Len(log') = Len(log) + 1
    BY <1>1, Pushed DEF EditorInv, TypeOK
<1>3. Len(log) \in Nat
    BY DEF EditorInv, TypeOK
<1>4. LogInv' /\ foreign' \in 0..MaxForeign
    BY <1>2, <1>3 DEF ForeignPush, EditorInv, TypeOK, LogInv, Owed, saving
<1>5. TypeOK'
    BY <1>2, <1>3, <1>4 DEF ForeignPush, EditorInv, TypeOK, LogInv, Owed, editor, saving, history,
                     AwayTypeOK
<1>6. BaselineOnBranch'
    <2>1. UNCHANGED original
        BY DEF ForeignPush, editor
    <2>2. OnBranch(original) /\ log \in Seq(Trees)
        BY DEF EditorInv, TypeOK, BaselineOnBranch
    <2>3. \E i \in 1..Len(log') : \A p \in Present(original) : log'[i][p] = original[p]
        BY <1>1, <2>2, StillOnBranch
    <2> QED BY <2>1, <2>3 DEF BaselineOnBranch, OnBranch, Present
<1>7. SentInv'
    <2>1. UNCHANGED saving
        BY DEF ForeignPush
    <2>2. save' = "pushed" => OnBranch(sent.files)
        BY <2>1 DEF saving, EditorInv, SentInv
    <2>3. save' = "pushed" =>
              \E i \in 1..Len(log') : \A p \in Present(sent.files) : log'[i][p] = sent.files[p]
        BY <1>1, <2>2, StillOnBranch DEF EditorInv, TypeOK
    <2> QED BY <2>1, <2>3 DEF saving, EditorInv, SentInv, OnBranch, Present
<1>8. LoadInv' /\ SyncInv'
    BY DEF ForeignPush, EditorInv, LoadInv, SyncInv, Touched, Present, editor, saving, history
<1> QED BY <1>4, <1>5, <1>6, <1>7, <1>8 DEF EditorInv

\* Calls that neither show anything nor touch the branch: they move the loads along.
LEMMA CallStep ==
    ASSUME EditorInv,
           SwitchNamespace \/ \E l \in 1..MaxLoads : ListAnswers(l) \/ HandleGetFiles(l)
    PROVE  EditorInv'
<1>1. /\ UNCHANGED <<branch, page, editor, saving, history, away>>
      /\ current' \in 1..MaxLoads
    <2>1. CASE SwitchNamespace
        BY <2>1 DEF SwitchNamespace, EditorInv, TypeOK
    <2>2. CASE \E l \in 1..MaxLoads : ListAnswers(l) \/ HandleGetFiles(l)
        BY <2>2 DEF ListAnswers, HandleGetFiles, EditorInv, TypeOK
    <2> QED BY <2>1, <2>2
<1>2. load' \in [1..MaxLoads -> [at: {"list", "files", "answer", "settled"}, tree: 0..Len(log)]]
      /\ LoadInv'
    <2>1. CASE SwitchNamespace
        BY <2>1 DEF SwitchNamespace, EditorInv, TypeOK, LoadInv, history
    <2>2. ASSUME NEW l \in 1..MaxLoads, ListAnswers(l)
          PROVE  load' \in [1..MaxLoads -> [at: {"list", "files", "answer", "settled"}, tree: 0..Len(log)]]
                 /\ LoadInv'
        BY SMTT(30), <2>2 DEF ListAnswers, Started, EditorInv, TypeOK, LoadInv, history
    <2>3. ASSUME NEW l \in 1..MaxLoads, HandleGetFiles(l)
          PROVE  load' \in [1..MaxLoads -> [at: {"list", "files", "answer", "settled"}, tree: 0..Len(log)]]
                 /\ LoadInv'
        BY <2>3 DEF HandleGetFiles, ReadTree, EditorInv, TypeOK, LoadInv, history
    <2> QED BY <2>1, <2>2, <2>3
<1>3. TypeOK'
    BY <1>1, <1>2 DEF EditorInv, TypeOK, branch, editor, saving, history, AwayTypeOK
<1> QED BY <1>1, <1>2, <1>3
        DEF EditorInv, LogInv, Owed, SentInv, SyncInv, Touched, Present, BaselineOnBranch, OnBranch,
            branch, editor, saving, history

\* A load shows what it read, all of it, or changes nothing.
LEMMA LoadStep ==
    ASSUME EditorInv, NEW l \in 1..MaxLoads, LoadEnds(l)
    PROVE  EditorInv' /\ shownAt' >= shownAt
<1>1. /\ UNCHANGED <<branch, page, current, saving, away>>
      /\ load' = [load EXCEPT ![l] = [at |-> "settled", tree |-> 0]]
    BY DEF LoadEnds
<1>2. /\ load' \in [1..MaxLoads -> [at: {"list", "files", "answer", "settled"}, tree: 0..Len(log)]]
      /\ load[l].at = "answer" /\ load[l].tree \in 0..Len(log)
    BY <1>1 DEF LoadEnds, EditorInv, TypeOK
<1>3. CASE Brought(l) /\ ~Ignored(l)
    <2> DEFINE tree == log[load[l].tree]
    <2>1. /\ files' = tree /\ original' = tree /\ synced' = tree /\ repoInfo' = TRUE
          /\ selected' \in Opened(tree) /\ shownAt' = load[l].tree /\ overlap' = (save # "idle")
        BY <1>3 DEF LoadEnds
    <2>2. l = current /\ load[l].tree \in 1..Len(log)
        BY <1>2, <1>3 DEF Ignored, Brought
    <2>3. tree \in Trees
        BY <2>2 DEF EditorInv, TypeOK
    <2>4. selected' \in Paths \cup {None}
        BY <2>1 DEF Opened
    <2>5. overlap' \in BOOLEAN
        BY <2>1
    <2>6. TypeOK'
        BY <1>1, <1>2, <2>1, <2>2, <2>3, <2>4, <2>5
        DEF EditorInv, TypeOK, branch, saving, AwayTypeOK
    <2>7. shownAt' >= shownAt
        BY <2>1, <2>2 DEF EditorInv, LoadInv
    <2>8. LoadInv'
        BY <1>1, <1>2, <2>1, <2>2 DEF EditorInv, LoadInv, TypeOK
    <2>9. BaselineOnBranch'
        BY <1>1, <2>1, <2>2 DEF BaselineOnBranch, OnBranch, branch
    <2>10. SyncInv'
        BY <1>1, <2>1 DEF SyncInv, saving
    <2> QED BY <1>1, <2>6, <2>7, <2>8, <2>9, <2>10
            DEF EditorInv, LogInv, Owed, SentInv, OnBranch, Present, branch, saving
<1>4. CASE ~(Brought(l) /\ ~Ignored(l))
    <2>1. UNCHANGED <<editor, history>>
        BY <1>4 DEF LoadEnds
    <2>2. TypeOK'
        BY <1>1, <1>2, <2>1 DEF EditorInv, TypeOK, branch, editor, saving, history, AwayTypeOK
    <2>3. LoadInv'
        BY <1>1, <1>2, <2>1 DEF EditorInv, LoadInv, TypeOK, history
    <2>4. shownAt' >= shownAt
        BY <2>1 DEF EditorInv, TypeOK, history
    <2> QED BY <1>1, <2>1, <2>2, <2>3, <2>4
            DEF EditorInv, LogInv, Owed, SentInv, SyncInv, Touched, Present, BaselineOnBranch,
                OnBranch, branch, editor, saving, history
<1> QED BY <1>3, <1>4

\* What editing may do: it changes contents and removes files, but adds none.
LEMMA EditStep ==
    ASSUME EditorInv,
           \/ \E p \in Paths : Select(p)
           \/ \E content \in Contents : Change(content)
           \/ \E gone \in Deletable : Delete(gone)
    PROVE  EditorInv'
<1>1. /\ UNCHANGED <<branch, page, original, repoInfo, load, current, saving, history, away>>
      /\ files' \in Trees /\ selected' \in Paths \cup {None}
      /\ Present(files') \subseteq Present(files)
    <2>1. ASSUME NEW p \in Paths, Select(p)
          PROVE  <1>1!:
        BY <2>1 DEF Select, EditorInv, TypeOK, Present
    <2>2. ASSUME NEW content \in Contents, Change(content)
          PROVE  <1>1!:
        <3>1. selected \in Paths /\ files[selected] # Absent
            BY <2>2 DEF Change, Present
        <3>2. files' \in Trees /\ \A p \in Paths : files'[p] # Absent => files[p] # Absent
            BY <2>2, <3>1 DEF Change, EditorInv, TypeOK, Trees
        <3> QED BY <2>2, <3>2 DEF Change, EditorInv, TypeOK, Present
    <2>3. ASSUME NEW gone \in Deletable, Delete(gone)
          PROVE  <1>1!:
        <3>1. files' \in Trees /\ \A p \in Paths : files'[p] # Absent => files[p] # Absent
            BY <2>3 DEF Delete, EditorInv, TypeOK, Trees
        <3>2. selected' \in Paths \cup {None}
            BY <2>3 DEF Delete, EditorInv, TypeOK
        <3> QED BY <2>3, <3>1, <3>2 DEF Delete, Present
    <2> QED BY <2>1, <2>2, <2>3
<1>2. TypeOK'
    BY <1>1 DEF EditorInv, TypeOK, branch, saving, history, AwayTypeOK
<1>3. SyncInv'
    BY <1>1 DEF EditorInv, SyncInv, Touched, Present, saving, history
<1> QED BY <1>1, <1>2, <1>3
        DEF EditorInv, LogInv, Owed, LoadInv, SentInv, BaselineOnBranch, OnBranch, Present,
            branch, saving, history

\* A click on "Save & Deploy" captures what the editor holds.
LEMMA SaveStep ==
    ASSUME EditorInv, Save
    PROVE  EditorInv'
<1>1. /\ save = "idle" /\ save' = "getRef" /\ saves' = saves + 1 /\ saves < MaxSaves
      /\ sent' = [files |-> files, deleted |-> DeletedFiles]
      /\ UNCHANGED <<branch, page, editor, load, current, base, history, away>>
    BY DEF Save
<1>2. sent' \in [files: Trees, deleted: SUBSET Paths]
    BY <1>1 DEF EditorInv, TypeOK, DeletedFiles, Present
<1>3. TypeOK'
    BY <1>1, <1>2 DEF EditorInv, TypeOK, SaveSteps, branch, editor, history, AwayTypeOK
<1>4. SyncInv'
    <2>1. ~overlap => Present(files) \subseteq Present(original) /\ original = synced
        BY DEF EditorInv, SyncInv
    <2>2. sent'.files = files /\ sent'.deleted = Present(original) \ Present(files)
        BY <1>1 DEF DeletedFiles
    <2>3. ~overlap => \A p \in Paths \ (Present(files) \cup sent'.deleted) : synced[p] = Absent
        BY <2>1, <2>2 DEF Present
    <2>4. \A p \in Present(original) : original[p] = synced[p]
        BY DEF EditorInv, SyncInv
    <2> QED BY <1>1, <2>1, <2>2, <2>3, <2>4 DEF SyncInv, Touched, Present, editor, history
<1> QED BY <1>1, <1>3, <1>4
        DEF EditorInv, TypeOK, LogInv, Owed, LoadInv, SentInv, BaselineOnBranch, OnBranch, Present,
            branch, editor, history

\* The backend finds the head, or gives up before it.
LEMMA GetRefStep ==
    ASSUME EditorInv, GetRef
    PROVE  EditorInv'
<1>1. /\ save = "getRef" /\ save' \in {"updateRef", "failed"}
      /\ base' \in 0..Len(log) /\ (save' = "updateRef" => base' = Len(log))
      /\ UNCHANGED <<branch, page, editor, load, current, sent, saves, history, away>>
    BY DEF GetRef, EditorInv, TypeOK
<1>2. TypeOK'
    BY <1>1 DEF EditorInv, TypeOK, SaveSteps, branch, editor, history, AwayTypeOK
<1>3. SentInv'
    BY <1>1 DEF EditorInv, TypeOK, SentInv
<1>4. LogInv'
    BY <1>1 DEF EditorInv, TypeOK, LogInv, Owed, branch, history
<1>5. LoadInv' /\ BaselineOnBranch'
    BY <1>1 DEF EditorInv, LoadInv, BaselineOnBranch, OnBranch, Present, branch, editor, history
<1>6. SyncInv'
    BY <1>1 DEF EditorInv, SyncInv, Touched, Present, editor, history
<1> QED BY <1>2, <1>3, <1>4, <1>5, <1>6 DEF EditorInv

\* The reference moves from the head that the commit builds on, or not at all.
LEMMA UpdateRefStep ==
    ASSUME EditorInv, UpdateRef
    PROVE  /\ EditorInv'
           /\ log' # log =>
                  \A p \in Paths \ Touched : log'[Len(log')][p] = log[Len(log)][p]
<1>1. /\ save = "updateRef" /\ save' \in {"pushed", "failed"}
      /\ UNCHANGED <<foreign, page, editor, load, current, sent, base, saves, history, away>>
    BY DEF UpdateRef
<1>2. base \in 1..Len(log) /\ Len(log) \in Nat /\ log \in Seq(Trees)
    BY <1>1 DEF EditorInv, TypeOK, SentInv
<1>3. /\ Committed \in Trees
      /\ \A p \in Present(sent.files) : Committed[p] = sent.files[p]
      /\ \A p \in Paths \ Touched : Committed[p] = log[base][p]
    BY <1>2, CommitOfSave DEF EditorInv
<1>4. CASE Moved
    <2>1. base = Len(log) /\ log' = Append(log, Committed)
        BY <1>4 DEF Moved
    <2>2. /\ log' \in Seq(Trees) /\ Len(log') = Len(log) + 1
          /\ log'[Len(log')] = Committed
        BY <1>2, <1>3, <2>1, Pushed
    <2>3. LogInv'
        BY <1>1, <1>2, <2>2 DEF EditorInv, TypeOK, LogInv, Owed
    <2>4. Len(log') \in 1..(1 + MaxForeign + MaxSaves)
        BY <1>1, <1>2, <2>2 DEF EditorInv, TypeOK, LogInv, Owed
    <2>5. TypeOK'
        BY <1>1, <1>2, <2>2, <2>4 DEF EditorInv, TypeOK, SaveSteps, editor, history, AwayTypeOK
    <2>6. BaselineOnBranch'
        BY <1>1, <1>2, <1>3, <2>1, StillOnBranch
        DEF EditorInv, BaselineOnBranch, OnBranch, Present, editor
    <2>7. SentInv'
        <3>1. \E i \in 1..Len(log') : \A p \in Present(sent.files) : log'[i][p] = sent.files[p]
            BY <1>2, <1>3, <2>2
        <3> QED BY <1>1, <3>1 DEF SentInv, OnBranch, Present
    <2>8. LoadInv' /\ SyncInv'
        BY <1>1 DEF EditorInv, LoadInv, SyncInv, Touched, Present, editor, history
    <2>9. \A p \in Paths \ Touched : log'[Len(log')][p] = log[Len(log)][p]
        BY <1>3, <2>1, <2>2
    <2> QED BY <2>3, <2>5, <2>6, <2>7, <2>8, <2>9 DEF EditorInv
<1>5. CASE save' = "failed" /\ UNCHANGED log
    <2>1. TypeOK'
        BY <1>1, <1>5 DEF EditorInv, TypeOK, SaveSteps, editor, history, AwayTypeOK
    <2>2. LogInv' /\ SentInv'
        BY <1>1, <1>2, <1>5 DEF EditorInv, TypeOK, LogInv, Owed, SentInv
    <2>3. LoadInv' /\ SyncInv'
        BY <1>1, <1>5 DEF EditorInv, LoadInv, SyncInv, Touched, Present, editor, history
    <2>4. BaselineOnBranch'
        BY <1>1, <1>5 DEF EditorInv, BaselineOnBranch, OnBranch, Present, editor
    <2> QED BY <1>5, <2>1, <2>2, <2>3, <2>4 DEF EditorInv
<1> QED BY <1>4, <1>5 DEF UpdateRef

\* A save that ends leaves the baseline it sent, or everything as it was.
LEMMA SaveEndsStep ==
    ASSUME EditorInv, SaveEnds
    PROVE  EditorInv'
<1>1. /\ save \in {"pushed", "failed"} /\ save' = "idle" /\ sent' = NothingSent /\ base' = 0
      /\ UNCHANGED <<branch, page, files, repoInfo, selected, load, current, saves,
                     shownAt, overlap, away>>
    BY DEF SaveEnds
<1>2. sent' \in [files: Trees, deleted: SUBSET Paths]
    BY <1>1 DEF NothingSent, NoTree, Trees
<1>3. CASE save = "pushed"
    <2>1. /\ original' = sent.files
          /\ synced' = [p \in Paths |-> IF p \in Touched THEN sent.files[p] ELSE synced[p]]
        BY <1>3 DEF SaveEnds, Baseline
    <2>2. original' \in Trees /\ synced' \in Trees
        BY <2>1 DEF EditorInv, TypeOK, Trees
    <2>3. TypeOK'
        BY <1>1, <1>2, <2>2 DEF EditorInv, TypeOK, SaveSteps, branch, AwayTypeOK
    <2>4. BaselineOnBranch'
        BY <1>1, <1>3, <2>1 DEF EditorInv, SentInv, BaselineOnBranch, OnBranch, Present, branch
    <2>5. SyncInv'
        <3>1. ASSUME ~overlap
              PROVE  original' = synced'
            <4>1. \A p \in Paths \ Touched : synced[p] = Absent /\ sent.files[p] = Absent
                BY <1>3, <3>1 DEF EditorInv, SyncInv, Touched, Present
            <4>2. \A p \in Paths : synced'[p] = sent.files[p]
                BY <2>1, <4>1
            <4> QED BY <2>1, <2>2, <4>2 DEF Trees
        <3>2. \A p \in Present(original') : original'[p] = synced'[p]
            BY <2>1 DEF Touched, Present
        <3>3. ~overlap => Present(files) \subseteq Present(original')
            BY <1>3, <2>1 DEF EditorInv, SyncInv
        <3> QED BY <1>1, <3>1, <3>2, <3>3 DEF SyncInv, Present
    <2> QED BY <1>1, <2>3, <2>4, <2>5 DEF EditorInv, LogInv, Owed, LoadInv, SentInv, branch
<1>4. CASE save = "failed"
    <2>1. UNCHANGED <<original, synced>>
        BY <1>4 DEF SaveEnds
    <2>2. TypeOK'
        BY <1>1, <1>2, <2>1 DEF EditorInv, TypeOK, SaveSteps, branch, AwayTypeOK
    <2> QED BY <1>1, <1>4, <2>1, <2>2
            DEF EditorInv, LogInv, Owed, LoadInv, SentInv, SyncInv, BaselineOnBranch, OnBranch,
                Present, branch
<1> QED BY <1>1, <1>3, <1>4

\* Leaving, and what other pages do, touch neither files nor branch.
LEMMA LeaveStep ==
    ASSUME EditorInv, page' \in {"open", "asking", "left", "gone"}, away' \in 0..MaxAway,
           UNCHANGED <<branch, editor, load, current, saving, history>>
    PROVE  EditorInv'
<1>1. TypeOK'
    BY DEF EditorInv, TypeOK, AwayTypeOK, branch, editor, saving, history
<1> QED BY <1>1
        DEF EditorInv, LogInv, Owed, LoadInv, SentInv, SyncInv, Touched, BaselineOnBranch, OnBranch,
            Present, branch, editor, saving, history

LEMMA AwayStep ==
    ASSUME AwayTypeOK, SendAway \/ AnswerAway
    PROVE  AwayTypeOK' /\ away' # away
BY DEF AwayTypeOK, SendAway, AnswerAway

\* Every step of the editor.
LEMMA EditorStep ==
    ASSUME EditorInv, Next
    PROVE  EditorInv'
<1>1. CASE \E l \in 1..MaxLoads : LoadEnds(l)
    BY <1>1, LoadStep
<1>2. CASE Back \/ Reply \/ WalkAway
    <2>1. page' \in {"open", "asking", "left", "gone"} /\ away' \in 0..MaxAway
        BY <1>2 DEF Back, Reply, WalkAway, EditorInv, TypeOK, AwayTypeOK
    <2> QED BY <1>2, <2>1, LeaveStep DEF Back, Reply, WalkAway
<1>3. CASE LogOut \/ CalledAway
    <2>1. page' \in {"open", "asking", "left", "gone"} /\ away' \in 0..MaxAway
        BY <1>3, AwayStep DEF LogOut, CalledAway, EditorInv, TypeOK, AwayTypeOK
    <2> QED BY <1>3, <2>1, LeaveStep DEF LogOut, CalledAway
<1> QED BY <1>1, <1>2, <1>3, ForeignStep, CallStep, EditStep, SaveStep, GetRefStep, UpdateRefStep,
           SaveEndsStep DEF Next

-----------------------------------------------------------------------------
(***************************************************************************)
(* The form                                                                *)
(***************************************************************************)

\* The rows as the form shows them are rows that fit, and there is at least one.
LEMMA VisibleRows ==
    ASSUME FormTypeOK, FormInv
    PROVE  /\ NoRow \in Row /\ NoRow.key = Blank
           /\ Visible \in Seq(Row) /\ Len(Visible) \in Nat \ {0}
           /\ \A i \in 1..Len(Visible) : Visible[i] \in Row /\ KeyFits(Visible[i])
<1>1. NoRow \in Row /\ NoRow.key = Blank
    BY DEF NoRow, Row
<1>2. CASE rows = <<>>
    <2>1. Visible = <<NoRow>>
        BY <1>2 DEF Visible
    <2>2. Visible \in Seq(Row) /\ Len(Visible) = 1 /\ Visible[1] = NoRow
        BY <1>1, <2>1
    <2> QED BY <1>1, <2>2 DEF KeyFits
<1>3. CASE rows # <<>>
    <2>1. Visible = rows /\ rows \in Seq(Row)
        BY <1>3 DEF Visible, FormTypeOK
    <2>2. Len(rows) \in Nat \ {0}
        BY <1>3, <2>1
    <2> QED BY <1>1, <2>1, <2>2 DEF FormInv
<1> QED BY <1>2, <1>3

\* A row that is cleared fits any namespace.
LEMMA ClearedRow ==
    ASSUME NEW row \in Row
    PROVE  Cleared(row) \in Row /\ Cleared(row).key = Blank
BY DEF Cleared, Row

\* What is on offer are keys of the namespace watched.
LEMMA OfferedKeys ==
    ASSUME FormTypeOK, FormInv, NEW r \in DOMAIN offered
    PROVE  /\ debounced \in Namespaces /\ r \in Resources /\ r # Blank
           /\ offered[r] \subseteq KeysOf[debounced][r] /\ offered[r] \subseteq Keys
<1>1. PICK there \in SUBSET Resources : offered \in [there -> SUBSET Keys]
    BY DEF FormTypeOK, Offers
<1>2. r \in Resources /\ offered[r] \subseteq Keys
    BY <1>1
<1>3. debounced # Blank /\ offered[r] \subseteq KeysOf[debounced][r]
    BY DEF FormInv, OfferFits
<1>4. debounced \in Namespaces
    BY <1>3 DEF FormTypeOK, Typable
<1> QED BY <1>2, <1>3, <1>4

\* A list without resources is one that fits any namespace.
LEMMA NothingOffered == NoOffer \in Offers /\ DOMAIN NoOffer = {}
<1>1. NoOffer \in [{} -> SUBSET Keys] /\ DOMAIN NoOffer = {}
    BY DEF NoOffer
<1>2. [{} -> SUBSET Keys] \in {[there -> SUBSET Keys] : there \in SUBSET Resources}
    OBVIOUS
<1> QED BY <1>1, <1>2, Zenon DEF Offers

LEMMA FormStarts ==
    ASSUME FormInit
    PROVE  FormTypeOK /\ FormInv
<1>1. rows = <<>> /\ rows \in Seq(Row) /\ Len(rows) = 0
    BY DEF FormInit
<1>2. FormTypeOK
    <2>1. /\ shown = FALSE /\ user = Nobody /\ owner = Nobody /\ offered \in Offers
          /\ submitting = FALSE /\ away = 0
        BY NothingOffered DEF FormInit
    <2>2. {namespace, typed, debounced} \subseteq Typable
        BY DEF FormInit, Typable
    <2>3. AwayTypeOK /\ Len(rows) <= MaxRows
        BY <1>1, <2>1 DEF AwayTypeOK
    <2> QED BY <1>1, <2>1, <2>2, <2>3 DEF FormTypeOK
<1>3. FormInv
    BY <1>1, NothingOffered DEF FormInit, FormInv, OfferFits
<1> QED BY <1>2, <1>3

\* Steps that leave the rows and their namespace alone, or throw the form away.
LEMMA SessionStep ==
    ASSUME FormTypeOK, FormInv, AwayTypeOK',
           shown' \in BOOLEAN, submitting' \in BOOLEAN, offered' \in Offers,
           {typed', debounced'} \subseteq Typable, OfferFits',
           \/ UNCHANGED <<user, fields>>
           \/ user' \in Users \cup {Nobody} /\ NewForm(user')
    PROVE  FormTypeOK' /\ FormInv'
<1>1. CASE UNCHANGED <<user, fields>>
    BY <1>1 DEF FormTypeOK, FormInv, KeyFits, fields
<1>2. CASE user' \in Users \cup {Nobody} /\ NewForm(user')
    <2>1. rows' = <<>> /\ rows' \in Seq(Row) /\ Len(rows') = 0
        BY <1>2 DEF NewForm
    <2> QED BY <1>2, <2>1 DEF FormTypeOK, FormInv, NewForm, Typable
<1> QED BY <1>1, <1>2

\* Steps that change the rows under the same namespace.
LEMMA RowsStep ==
    ASSUME FormTypeOK, FormInv,
           rows' \in Seq(Row), Len(rows') <= MaxRows,
           \A i \in 1..Len(rows') : KeyFits(rows'[i]),
           UNCHANGED <<shown, user, owner, namespace, typed, watch, submitting, away>>
    PROVE  FormTypeOK' /\ FormInv'
BY DEF FormTypeOK, FormInv, KeyFits, OfferFits, watch, AwayTypeOK

LEMMA EditRowStep ==
    ASSUME FormTypeOK, FormInv, NEW i \in 1..MaxRows, i <= Len(Visible), EditRow(i)
    PROVE  FormTypeOK' /\ FormInv'
<1> DEFINE row == Visible[i]
<1>1. /\ Visible \in Seq(Row) /\ i \in 1..Len(Visible)
      /\ row \in Row /\ KeyFits(row) /\ Len(Visible) \in Nat
      /\ \A j \in 1..Len(Visible) : KeyFits(Visible[j])
    BY VisibleRows
<1>2. \E new \in Row : ChangeRow(i, new) /\ KeyFits(new)
    <2>1. ASSUME NEW name \in VarNames, ChangeRow(i, [row EXCEPT !.name = name])
          PROVE  <1>2!:
        <3>1. /\ [row EXCEPT !.name = name] \in Row
              /\ KeyFits([row EXCEPT !.name = name])
            BY <1>1 DEF Row, KeyFits
        <3> QED BY <2>1, <3>1
    <2>2. ASSUME NEW r \in DOMAIN offered, ChangeRow(i, [Cleared(row) EXCEPT !.resource = r])
          PROVE  <1>2!:
        <3>1. /\ [Cleared(row) EXCEPT !.resource = r] \in Row
              /\ [Cleared(row) EXCEPT !.resource = r].key = Blank
            <4>1. r \in Resources
                BY OfferedKeys
            <4>2. Cleared(row) \in Row /\ Cleared(row).key = Blank
                BY <1>1, ClearedRow
            <4> HIDE DEF row
            <4> QED BY <4>1, <4>2 DEF Row
        <3> QED BY <2>2, <3>1 DEF KeyFits
    <2>3. ASSUME row.resource \in DOMAIN offered, NEW key \in offered[row.resource],
                 ChangeRow(i, [row EXCEPT !.key = key, !.late = (debounced # namespace)])
          PROVE  <1>2!:
        <3> DEFINE new == [row EXCEPT !.key = key, !.late = (debounced # namespace)]
        <3>1. /\ debounced \in Namespaces /\ row.resource # Blank
              /\ key \in KeysOf[debounced][row.resource] /\ key \in Keys
            BY <2>3, OfferedKeys
        <3>2. new \in Row /\ new.key = key /\ new.resource = row.resource
              /\ new.late = (debounced # namespace)
            BY <1>1, <3>1 DEF Row
        <3>3. KeyFits(new)
            BY <3>1, <3>2 DEF KeyFits
        <3> QED BY <2>3, <3>2, <3>3
    <2> QED BY <2>1, <2>2, <2>3 DEF EditRow
<1>3. PICK new \in Row : rows' = [Visible EXCEPT ![i] = new] /\ KeyFits(new)
    BY <1>2 DEF ChangeRow
<1>4. /\ rows' \in Seq(Row) /\ Len(rows') = Len(Visible)
      /\ \A j \in 1..Len(rows') : rows'[j] = IF j = i THEN new ELSE Visible[j]
    BY <1>1, <1>3
<1>5. Len(Visible) <= MaxRows
    <2>1. CASE rows = <<>>
        <3>1. Visible = <<NoRow>>
            BY <2>1 DEF Visible
        <3>2. Len(Visible) = 1 /\ 1 <= MaxRows
            BY <3>1
        <3> QED BY <3>2
    <2>2. CASE rows # <<>>
        BY <2>2 DEF Visible, FormTypeOK
    <2> QED BY <2>1, <2>2
<1>6. \A j \in 1..Len(rows') : KeyFits(rows'[j])
    BY <1>1, <1>3, <1>4
<1> QED BY <1>4, <1>5, <1>6, RowsStep DEF EditRow

\* Every step of the form.
LEMMA FormStep ==
    ASSUME FormTypeOK, FormInv, FormNext
    PROVE  FormTypeOK' /\ FormInv'
<1>1. CASE OpenPage \/ Connect
    <2>1. /\ user' \in Users \cup {Nobody} /\ NewForm(user') /\ shown' \in BOOLEAN
          /\ UNCHANGED <<typed, watch, submitting, away>>
        BY <1>1 DEF OpenPage, Connect, FormTypeOK
    <2>2. {typed', debounced'} \subseteq Typable /\ OfferFits'
        BY <2>1 DEF FormTypeOK, FormInv, OfferFits, watch
    <2>3. AwayTypeOK' /\ offered' \in Offers /\ submitting' \in BOOLEAN
        BY <2>1 DEF FormTypeOK, AwayTypeOK, watch
    <2> QED BY <2>1, <2>2, <2>3, SessionStep
<1>2. CASE Disconnect \/ Submit
    <2>1. /\ UNCHANGED <<shown, user, fields, typed, watch>>
          /\ submitting' \in BOOLEAN /\ SendAway
        BY <1>2 DEF Disconnect, Submit, FormTypeOK
    <2>2. {typed', debounced'} \subseteq Typable /\ OfferFits'
        BY <2>1 DEF FormTypeOK, FormInv, OfferFits, watch
    <2>3. AwayTypeOK' /\ offered' \in Offers /\ shown' \in BOOLEAN
        BY <2>1, AwayStep DEF FormTypeOK, watch
    <2>4. UNCHANGED <<user, fields>>
        BY <2>1
    <2> QED BY <2>1, <2>2, <2>3, <2>4, SessionStep
<1>3. CASE Cancel \/ Navigated
    <2>1. Unmount /\ AwayTypeOK'
        BY <1>3, AwayStep DEF Cancel, Navigated, FormTypeOK, AwayTypeOK
    <2>2. user' = Nobody /\ NewForm(user')
        BY <2>1 DEF Unmount, NewForm
    <2>3. offered' \in Offers /\ OfferFits'
        BY <2>1, NothingOffered DEF Unmount, OfferFits
    <2> QED BY <2>1, <2>2, <2>3, SessionStep DEF Unmount, Typable
<1>4. CASE Refused \/ RefusedEarlier
    <2>1. /\ AwayTypeOK' /\ UNCHANGED <<shown, typed, watch>>
          /\ submitting' \in BOOLEAN
        BY <1>4, AwayStep DEF Refused, RefusedEarlier, FormTypeOK
    <2>2. UNCHANGED <<user, fields>> \/ (user' = Nobody /\ NewForm(user'))
        BY <1>4 DEF Refused, RefusedEarlier, Expire, NewForm
    <2>3. {typed', debounced'} \subseteq Typable /\ OfferFits'
        BY <2>1 DEF FormTypeOK, FormInv, OfferFits, watch
    <2>4. offered' \in Offers /\ shown' \in BOOLEAN /\ submitting' \in BOOLEAN
        BY <2>1 DEF FormTypeOK, watch
    <2> QED BY <2>1, <2>2, <2>3, <2>4, SessionStep
<1>5. CASE Debounce \/ ResourcesArrive
    <2>1. /\ UNCHANGED <<shown, user, fields, typed, submitting, away>>
          /\ {typed', debounced'} \subseteq Typable
        BY <1>5 DEF Debounce, ResourcesArrive, FormTypeOK
    <2>2. offered' \in Offers /\ OfferFits'
        <3>1. CASE Debounce
            BY <3>1, NothingOffered DEF Debounce, OfferFits
        <3>2. CASE ResourcesArrive
            BY <3>2 DEF ResourcesArrive, OfferFits
        <3> QED BY <1>5, <3>1, <3>2
    <2>3. AwayTypeOK' /\ shown' \in BOOLEAN /\ submitting' \in BOOLEAN
        BY <2>1 DEF FormTypeOK, AwayTypeOK
    <2>4. UNCHANGED <<user, fields>>
        BY <2>1
    <2> QED BY <2>1, <2>2, <2>3, <2>4, SessionStep
<1>6. ASSUME NEW ns \in Namespaces, TypeNamespace(ns)
      PROVE  FormTypeOK' /\ FormInv'
    <2>1. rows \in Seq(Row) /\ DOMAIN rows = 1..Len(rows) /\ Len(rows) \in Nat
        BY DEF FormTypeOK
    <2>2. rows' = [i \in 1..Len(rows) |-> Cleared(rows[i])]
        BY <1>6, <2>1 DEF TypeNamespace
    <2>3. \A i \in 1..Len(rows) : Cleared(rows[i]) \in Row /\ Cleared(rows[i]).key = Blank
        BY <2>1, ClearedRow
    <2>4. rows' \in Seq(Row) /\ Len(rows') = Len(rows)
        BY <2>1, <2>2, <2>3
    <2>5. \A i \in 1..Len(rows') : rows'[i].key = Blank
        BY <2>2, <2>3, <2>4
    <2>6. FormInv'
        BY <1>6, <2>5 DEF TypeNamespace, FormInv, KeyFits, OfferFits, watch
    <2>7. {namespace', typed', debounced'} \subseteq Typable
        BY <1>6 DEF TypeNamespace, FormTypeOK, Typable, watch
    <2> QED BY <1>6, <2>4, <2>6, <2>7 DEF TypeNamespace, FormTypeOK, watch, AwayTypeOK
<1>7. CASE AddRow
    <2>1. /\ Visible \in Seq(Row) /\ NoRow \in Row /\ KeyFits(NoRow)
          /\ \A i \in 1..Len(Visible) : KeyFits(Visible[i])
        BY VisibleRows DEF KeyFits
    <2>2. rows' = Append(Visible, NoRow) /\ Len(Visible) < MaxRows
        BY <1>7 DEF AddRow
    <2>3. /\ rows' \in Seq(Row) /\ Len(rows') = Len(Visible) + 1
          /\ \A i \in 1..Len(Visible) : rows'[i] = Visible[i]
          /\ rows'[Len(rows')] = NoRow
        BY <2>1, <2>2
    <2>4. \A i \in 1..Len(rows') : KeyFits(rows'[i])
        BY <2>1, <2>3
    <2>5. Len(rows') <= MaxRows
        BY <2>1, <2>2, <2>3
    <2> QED BY <1>7, <2>3, <2>4, <2>5, RowsStep DEF AddRow
<1>8. CASE RemoveRow
    <2>1. rows' = SubSeq(rows, 1, Len(rows) - 1) /\ Len(rows) > 1 /\ rows \in Seq(Row)
        BY <1>8 DEF RemoveRow, FormTypeOK
    <2>2. /\ rows' \in Seq(Row) /\ Len(rows') = Len(rows) - 1
          /\ \A i \in 1..Len(rows') : rows'[i] = rows[i] /\ i \in 1..Len(rows)
        BY <2>1
    <2>3. \A i \in 1..Len(rows') : KeyFits(rows'[i])
        BY <2>2 DEF FormInv
    <2>4. Len(rows') <= MaxRows
        BY <2>1, <2>2 DEF FormTypeOK
    <2> QED BY <1>8, <2>2, <2>3, <2>4, RowsStep DEF RemoveRow
<1>9. CASE RemoveRows
    <2>1. rows' \in Seq(Row) /\ Len(rows') = 0
        BY <1>9 DEF RemoveRows
    <2> QED BY <1>9, <2>1, RowsStep DEF RemoveRows
<1> QED BY <1>1, <1>2, <1>3, <1>4, <1>5, <1>6, <1>7, <1>8, <1>9, EditRowStep DEF FormNext

-----------------------------------------------------------------------------
(***************************************************************************)
(* The two pages together                                                  *)
(***************************************************************************)

\* While the browser is not on the editor page, or opens it, the editor rests.
LEMMA OtherPage ==
    ASSUME OnCreatePage \/ OpenEditor \/ UNCHANGED pagesVars
    PROVE  UNCHANGED visit
BY DEF OnCreatePage, OpenEditor, pagesVars

\* No visit of the editor changes the form.
LEMMA OtherForm ==
    ASSUME OpenEditor \/ OnEditPage \/ UNCHANGED pagesVars
    PROVE  UNCHANGED form
BY DEF OpenEditor, OnEditPage, pagesVars

LEMMA EditorRests ==
    ASSUME EditorInv, AwayTypeOK', UNCHANGED visit
    PROVE  EditorInv'
<1>1. page' \in {"open", "asking", "left", "gone"} /\ away' \in 0..MaxAway
    BY DEF EditorInv, TypeOK, visit, AwayTypeOK
<1> QED BY <1>1, LeaveStep DEF visit

LEMMA FormRests ==
    ASSUME FormTypeOK, FormInv, AwayTypeOK', UNCHANGED form
    PROVE  FormTypeOK' /\ FormInv'
BY DEF FormTypeOK, FormInv, KeyFits, OfferFits, form, fields, watch

LEMMA PagesStart ==
    ASSUME PagesInit
    PROVE  IInv
BY EditorStarts, FormStarts DEF PagesInit, IInv

LEMMA PagesStep ==
    ASSUME IInv, [PagesNext]_pagesVars
    PROVE  IInv'
<1>1. CASE OnCreatePage
    <2>1. FormTypeOK' /\ FormInv' /\ UNCHANGED <<visit, editing>>
        BY <1>1, FormStep DEF OnCreatePage, IInv
    <2>2. EditorInv'
        BY <2>1, EditorRests DEF IInv, FormTypeOK
    <2> QED BY <2>1, <2>2 DEF IInv
<1>2. CASE OnEditPage
    <2>1. EditorInv' /\ UNCHANGED <<form, editing>>
        BY <1>2, EditorStep DEF OnEditPage, IInv
    <2>2. FormTypeOK' /\ FormInv'
        BY <2>1, FormRests DEF IInv, EditorInv, TypeOK
    <2> QED BY <2>1, <2>2 DEF IInv
<1>3. CASE OpenEditor \/ UNCHANGED pagesVars
    <2>1. UNCHANGED <<form, visit>> /\ AwayTypeOK' /\ editing' \in BOOLEAN
        BY <1>3 DEF OpenEditor, pagesVars, IInv, FormTypeOK, AwayTypeOK
    <2>2. EditorInv'
        BY <2>1, EditorRests DEF IInv
    <2>3. FormTypeOK' /\ FormInv'
        BY <2>1, FormRests DEF IInv
    <2> QED BY <2>1, <2>2, <2>3 DEF IInv
<1> QED BY <1>1, <1>2, <1>3 DEF PagesNext

LEMMA PagesInvariant == PagesSpec => []IInv
<1>1. PagesInit => IInv
    BY PagesStart
<1>2. IInv /\ [PagesNext]_pagesVars => IInv'
    BY PagesStep
<1> QED BY <1>1, <1>2, PTL DEF PagesSpec

-----------------------------------------------------------------------------
(***************************************************************************)
(* What the pages promise                                                  *)
(***************************************************************************)

\* Every variable of both pages keeps to its type.
THEOREM PagesTypeCorrect == PagesSpec => []PagesTypeOK
<1>1. IInv => PagesTypeOK
    BY DEF IInv, EditorInv, PagesTypeOK
<1> QED BY <1>1, PagesInvariant, PTL

\* What the editor compares with (originalFiles) was on the branch, all at one time.
THEOREM BaselineCorrect == PagesSpec => []BaselineOnBranch
<1>1. IInv => BaselineOnBranch
    BY DEF IInv, EditorInv
<1> QED BY <1>1, PagesInvariant, PTL

\* When nothing is offered to be saved, the branch has held all that is shown, unless
\* the files were loaded anew during a save.
THEOREM CleanCorrect == PagesSpec => []CleanShowsBranch
<1>1. IInv => CleanShowsBranch
    <2> SUFFICES ASSUME IInv, ~HasChanges, ~overlap
                 PROVE  OnBranch(files)
        BY DEF CleanShowsBranch
    <2>1. Present(files) \subseteq Present(original)
        BY DEF IInv, EditorInv, SyncInv
    <2>2. \A p \in Present(files) : files[p] = original[p]
        BY <2>1 DEF HasChanges, DirtyFiles
    <2>3. PICK i \in 1..Len(log) : \A p \in Present(original) : log[i][p] = original[p]
        BY DEF IInv, EditorInv, BaselineOnBranch, OnBranch
    <2> QED BY <2>1, <2>2, <2>3 DEF OnBranch
<1> QED BY <1>1, PagesInvariant, PTL

\* No answer to an earlier load takes the editor back to an older state of the branch.
THEOREM LoadsCorrect == PagesSpec => LoadsNeverGoBack
<1>1. IInv /\ [PagesNext]_pagesVars => [shownAt' >= shownAt]_shownAt
    <2> SUFFICES ASSUME IInv, [PagesNext]_pagesVars, shownAt' # shownAt
                 PROVE  shownAt' >= shownAt
        OBVIOUS
    <2>1. OnEditPage
        BY OtherPage DEF PagesNext, visit, history
    <2>2. \E l \in 1..MaxLoads : LoadEnds(l)
        BY <2>1 DEF OnEditPage, Next, ForeignPush, SwitchNamespace, ListAnswers, HandleGetFiles,
                    Select, Change, Delete, Save, GetRef, UpdateRef, SaveEnds, Back, Reply, LogOut,
                    CalledAway, WalkAway, history
    <2> QED BY <2>2, LoadStep DEF IInv
<1> QED BY <1>1, PagesInvariant, PTL DEF PagesSpec, LoadsNeverGoBack

\* The commit of a save leaves the files it neither sends nor deletes as it finds them
\* on the head, others' pushes included.
THEOREM SavesCorrect == PagesSpec => SaveKeepsUnloaded
<1> DEFINE A == log' # log /\ foreign' = foreign =>
                    \A p \in Paths \ Touched : log'[Len(log')][p] = log[Len(log)][p]
<1>1. IInv /\ [PagesNext]_pagesVars => [A]_vars
    <2> SUFFICES ASSUME IInv, [PagesNext]_pagesVars, log' # log, foreign' = foreign
                 PROVE  \A p \in Paths \ Touched : log'[Len(log')][p] = log[Len(log)][p]
        OBVIOUS
    <2>1. OnEditPage
        BY OtherPage DEF PagesNext, visit, branch
    <2>2. foreign \in Nat
        BY DEF IInv, EditorInv, TypeOK
    <2>3. UpdateRef
        BY <2>1, <2>2 DEF OnEditPage, Next, ForeignPush, SwitchNamespace, ListAnswers,
                    HandleGetFiles, LoadEnds, Select, Change, Delete, Save, GetRef, SaveEnds, Back,
                    Reply, LogOut, CalledAway, WalkAway, branch
    <2> QED BY <2>3, UpdateRefStep DEF IInv
<1> QED BY <1>1, PagesInvariant, PTL DEF PagesSpec, SaveKeepsUnloaded

\* Back without a question finds the files as last loaded or saved, but for those that
\* the baseline does not know after a load has met a save.
THEOREM BackCorrect == PagesSpec => BackLosesNothing
<1> DEFINE A == page = "open" /\ page' = "left" =>
                    \A p \in Paths : files[p] = synced[p] \/ (overlap /\ original[p] = Absent)
<1>1. IInv /\ [PagesNext]_pagesVars => [A]_vars
    <2> SUFFICES ASSUME IInv, [PagesNext]_pagesVars, page = "open", page' = "left",
                        NEW p \in Paths
                 PROVE  files[p] = synced[p] \/ (overlap /\ original[p] = Absent)
        OBVIOUS
    <2>1. OnEditPage
        BY OtherPage DEF PagesNext, visit
    <2>2. Back
        BY <2>1
        DEF OnEditPage, Next, ForeignPush, SwitchNamespace, ListAnswers, HandleGetFiles, LoadEnds,
            Select, Change, Delete, Save, GetRef, UpdateRef, SaveEnds, Reply, LogOut, CalledAway,
            WalkAway
    <2>3. ~HasChanges
        BY <2>2 DEF Back
    <2>4. CASE original[p] # Absent
        <3>1. original[p] = synced[p]
            BY <2>4 DEF IInv, EditorInv, SyncInv, Present
        <3>2. files[p] = original[p]
            BY <2>3, <2>4 DEF HasChanges, DirtyFiles, DeletedFiles, Present
        <3> QED BY <3>1, <3>2
    <2>5. CASE original[p] = Absent /\ ~overlap
        <3>1. original = synced /\ files[p] = Absent
            BY <2>5 DEF IInv, EditorInv, SyncInv, Present
        <3> QED BY <2>5, <3>1
    <2> QED BY <2>4, <2>5
<1> QED BY <1>1, PagesInvariant, PTL DEF PagesSpec, BackLosesNothing

\* What is sent is what the form shows: the account connected, every row that is filled
\* in, and keys that the namespace the function goes to has or had, unless picked late.
THEOREM SubmitCorrect == PagesSpec => SubmitsWhatIsShown
<1> DEFINE A == submitting' /\ ~submitting =>
                    /\ owner = user
                    /\ \A i \in DOMAIN rows : Filled(rows[i]) =>
                           /\ i \in Sent
                           /\ rows[i].late \/ rows[i].key \in KeysOf[namespace][rows[i].resource]
<1>1. IInv /\ [PagesNext]_pagesVars => [A]_formVars
    <2> SUFFICES ASSUME IInv, [PagesNext]_pagesVars, submitting', ~submitting
                 PROVE  /\ owner = user
                        /\ \A i \in DOMAIN rows : Filled(rows[i]) =>
                               /\ i \in Sent
                               /\ rows[i].late \/ rows[i].key \in KeysOf[namespace][rows[i].resource]
        OBVIOUS
    <2>1. OnCreatePage
        BY OtherForm DEF PagesNext, form
    <2>2. submitting = FALSE /\ submitting' # FALSE
        BY DEF IInv, FormTypeOK
    <2>3. EnvVarsValid
        BY <2>1, <2>2 DEF OnCreatePage, FormNext, OpenPage, Connect, Disconnect, Cancel,
            Unmount, TypeNamespace, Debounce, ResourcesArrive, AddRow, RemoveRow, RemoveRows,
            EditRow, Submit, Refused, Navigated, RefusedEarlier
    <2>4. /\ rows \in Seq(Row) /\ DOMAIN rows = 1..Len(rows)
          /\ owner = user /\ \A i \in 1..Len(rows) : KeyFits(rows[i])
        BY DEF IInv, FormTypeOK, FormInv
    <2>5. ASSUME NEW i \in DOMAIN rows, Filled(rows[i])
          PROVE  /\ i \in Sent
                 /\ rows[i].late \/ rows[i].key \in KeysOf[namespace][rows[i].resource]
        <3>1. rows[i].name # Blank /\ rows[i].resource # Blank /\ rows[i].key # Blank
            BY <2>3, <2>5 DEF EnvVarsValid, Complete
        <3> QED BY <2>4, <3>1 DEF Sent, KeyFits
    <2> QED BY <2>4, <2>5
<1> QED BY <1>1, PagesInvariant, PTL DEF PagesSpec, SubmitsWhatIsShown

=============================================================================
