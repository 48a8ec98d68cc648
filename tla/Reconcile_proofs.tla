-------------------------- MODULE Reconcile_proofs --------------------------
(***************************************************************************)
(* Proofs about reconciliation for any paths, contents and number of       *)
(* changes: a fingerprint is a function of the repository that tells apart *)
(* whatever outside the owned paths may not differ.                        *)
(***************************************************************************)
EXTENDS Reconcile, TLAPS

\* The fingerprint of a repository r = <<head, index, work, ignored>>.
UntrackedIn(r, p) == r[2][p] = Absent /\ r[3][p] # Absent

StatusIn(r, p) ==
  <<r[2][p] # r[1][p], r[2][p] = Absent, r[2][p] # Absent /\ r[3][p] # r[2][p],
    r[3][p] = Absent, UntrackedIn(r, p) /\ p \notin r[4]>>

VisibleIn(r, p) ==
  \/ r[2][p] # r[1][p]
  \/ r[2][p] # Absent /\ r[3][p] # r[2][p]
  \/ UntrackedIn(r, p) /\ p \notin r[4]

WorktreeEntry(r, p) ==
  IF VisibleIn(r, p) /\ p \notin Scratch
  THEN [status |-> StatusIn(r, p), sha256 |-> r[3][p]] ELSE None

IgnoredEntry(r, p) == IF UntrackedIn(r, p) /\ p \in r[4] \ Scratch THEN r[3][p] ELSE None

FingerprintIn(r) ==
  [ head |-> r[1], index |-> r[2],
    worktree |-> [p \in Paths |-> WorktreeEntry(r, p)],
    ignored |-> [p \in Paths |-> IgnoredEntry(r, p)] ]

Repositories == Tree \X Tree \X Tree \X SUBSET Paths

\* The final reading is of one state of the repository if nothing of the worker
\* was left when it began.
ReadInv ==
  /\ repo \in Repositories /\ launched \in Repositories
  /\ baseline = FingerprintIn(launched)
  /\ pc \in {"run", "reading", "done"}
  /\ quiet \in BOOLEAN
  /\ quiet => worker = "gone"
  /\ quiet => pc # "run"
  /\ quiet /\ pc = "reading" => final = [head |-> head, index |-> index]
  /\ quiet /\ pc = "done" => final = FingerprintIn(repo)

-----------------------------------------------------------------------------
\* What the model reads is that function of the repository.
LEMMA ReadingIsFingerprint ==
  /\ WorktreeFingerprint = [p \in Paths |-> WorktreeEntry(repo, p)]
  /\ IgnoredFingerprint = [p \in Paths |-> IgnoredEntry(repo, p)]
<1>1. ASSUME NEW p \in Paths
      PROVE  /\ Status(p) = StatusIn(repo, p)
             /\ Visible(p) <=> VisibleIn(repo, p)
             /\ Untracked(p) <=> UntrackedIn(repo, p)
             /\ repo[3] = work /\ repo[4] = ignored
  BY DEF Status, StatusIn, Visible, VisibleIn, Untracked, UntrackedIn, Staged, Edited, repo
<1> HIDE DEF repo
<1>2. ASSUME NEW p \in Paths
      PROVE  (IF Visible(p) /\ p \notin Scratch
              THEN [status |-> Status(p), sha256 |-> work[p]] ELSE None) = WorktreeEntry(repo, p)
  BY <1>1 DEF WorktreeEntry
<1>3. ASSUME NEW p \in Paths
      PROVE  (IF Untracked(p) /\ p \in ignored \ Scratch THEN work[p] ELSE None)
               = IgnoredEntry(repo, p)
  BY <1>1 DEF IgnoredEntry
<1> QED BY <1>2, <1>3 DEF WorktreeFingerprint, IgnoredFingerprint

\* Two repositories of one HEAD, one index and the same entries for a path that
\* is not scratch have the same content there, tracked or not, ignored or not.
LEMMA EntriesTellContents ==
  ASSUME NEW r \in Repositories, NEW s \in Repositories, NEW p \in Paths \ Scratch,
         r[1] = s[1], r[2] = s[2],
         WorktreeEntry(r, p) = WorktreeEntry(s, p),
         IgnoredEntry(r, p) = IgnoredEntry(s, p)
  PROVE  r[3][p] = s[3][p]
<1> USE ReconcileAssumption
<1>1. /\ r[3][p] \in Contents \union {Absent} /\ s[3][p] \in Contents \union {Absent}
  BY DEF Repositories, Tree
<1>2. ASSUME NEW q \in {r, s}
      PROVE  /\ StatusIn(q, p) \in Seq(BOOLEAN)
             /\ VisibleIn(q, p) => /\ WorktreeEntry(q, p).sha256 = q[3][p]
                                   /\ WorktreeEntry(q, p) # None
             /\ ~VisibleIn(q, p) => WorktreeEntry(q, p) = None
  <2>1. StatusIn(q, p) \in Seq(BOOLEAN)
    BY DEF StatusIn, UntrackedIn
  <2>2. [status |-> StatusIn(q, p), sha256 |-> q[3][p]]
          \in [status : Seq(BOOLEAN), sha256 : Contents \union {Absent}]
    BY <1>1, <2>1
  <2> QED BY <2>1, <2>2 DEF WorktreeEntry
<1>3. CASE VisibleIn(r, p)
  BY <1>2, <1>3
<1>4. CASE ~VisibleIn(r, p)
  <2>1. ~VisibleIn(s, p)
    BY <1>2, <1>4
  <2>2. CASE r[2][p] # Absent
    BY <1>4, <2>1, <2>2 DEF VisibleIn
  <2>3. CASE r[2][p] = Absent
    <3>1. /\ r[3][p] # Absent => IgnoredEntry(r, p) = r[3][p]
          /\ s[3][p] # Absent => IgnoredEntry(s, p) = s[3][p]
      BY <1>4, <2>1, <2>3 DEF VisibleIn, UntrackedIn, IgnoredEntry
    <3>2. /\ r[3][p] = Absent => IgnoredEntry(r, p) = None
          /\ s[3][p] = Absent => IgnoredEntry(s, p) = None
      BY DEF UntrackedIn, IgnoredEntry
    <3> QED BY <1>1, <3>1, <3>2
  <2> QED BY <2>2, <2>3
<1> QED BY <1>3, <1>4

-----------------------------------------------------------------------------
LEMMA InitReadInv == Init => ReadInv
<1> SUFFICES ASSUME Init PROVE ReadInv
  OBVIOUS
<1>1. launched = repo /\ repo \in Repositories
  BY DEF Init, repo, Repositories
<1>2. baseline = FingerprintIn(repo)
  BY ReadingIsFingerprint DEF Init, FingerprintIn, repo
<1> QED BY <1>1, <1>2 DEF Init, ReadInv

LEMMA NextReadInv == ReadInv /\ [Next]_vars => ReadInv'
<1> SUFFICES ASSUME ReadInv, [Next]_vars PROVE ReadInv'
  OBVIOUS
\* A change is the worker's: the reading is not quiet, now or later.
<1>1. ASSUME Change, repo' \in Repositories PROVE ReadInv'
  BY <1>1 DEF Change, ReadInv
<1>2. ASSUME NEW p \in Paths, Edit(p) PROVE ReadInv'
  <2>1. repo' \in Repositories
    BY <1>2 DEF Edit, ReadInv, Repositories, Tree, repo
  <2> QED BY <1>1, <1>2, <2>1 DEF Edit
<1>3. ASSUME NEW p \in Paths, Stage(p) PROVE ReadInv'
  <2>1. repo' \in Repositories
    BY <1>3 DEF Stage, ReadInv, Repositories, Tree, repo
  <2> QED BY <1>1, <1>3, <2>1 DEF Stage
<1>4. CASE Commit
  <2>1. repo' \in Repositories
    BY <1>4 DEF Commit, ReadInv, Repositories, repo
  <2> QED BY <1>1, <1>4, <2>1 DEF Commit
<1>5. CASE ChangeIgnoreRules
  <2>1. repo' \in Repositories
    BY <1>5 DEF ChangeIgnoreRules, ReadInv, Repositories, repo
  <2> QED BY <1>1, <1>5, <2>1 DEF ChangeIgnoreRules
<1>6. CASE WorkerGone
  BY <1>6 DEF WorkerGone, ReadInv, repo
<1>7. CASE ReadControl
  BY <1>7 DEF ReadControl, ReadInv, repo
<1>8. CASE ReadFiles
  <2>1. quiet => final' = FingerprintIn(repo)
    BY <1>8, ReadingIsFingerprint DEF ReadFiles, ReadInv, FingerprintIn, repo
  <2> QED BY <1>8, <2>1 DEF ReadFiles, ReadInv, repo
<1>9. CASE UNCHANGED vars
  BY <1>9 DEF vars, ReadInv, repo
<1> QED BY <1>2, <1>3, <1>4, <1>5, <1>6, <1>7, <1>8, <1>9 DEF Next

\* A reconciled attempt changed no file outside what it owned, no HEAD and no
\* index entry, however dirty the worktree was when it was launched.
THEOREM NothingUndeclaredPasses == Spec => []UndeclaredChangeIsFound
<1>1. ReadInv => UndeclaredChangeIsFound
  <2> SUFFICES ASSUME ReadInv, pc = "done", quiet, Reconciled
               PROVE  /\ \A p \in Paths \ (Owned \union Scratch) : work[p] = launched[3][p]
                      /\ head = launched[1] /\ index = launched[2]
    BY DEF UndeclaredChangeIsFound
  <2>1. /\ baseline = FingerprintIn(launched) /\ final = FingerprintIn(repo)
        /\ launched \in Repositories /\ repo \in Repositories
    BY DEF ReadInv
  <2>2. launched[1] = repo[1] /\ launched[2] = repo[2]
    BY <2>1 DEF Reconciled, ControlChanged, FingerprintIn
  <2>3. ASSUME NEW p \in Paths \ (Owned \union Scratch) PROVE launched[3][p] = repo[3][p]
    <3>1. baseline.worktree[p] = final.worktree[p] /\ baseline.ignored[p] = final.ignored[p]
      BY DEF Reconciled, Undeclared, IgnoredChanges
    <3>2. /\ WorktreeEntry(launched, p) = WorktreeEntry(repo, p)
          /\ IgnoredEntry(launched, p) = IgnoredEntry(repo, p)
      BY <2>1, <3>1 DEF FingerprintIn
    <3> QED BY <2>1, <2>2, <3>2, EntriesTellContents
  <2> QED BY <2>2, <2>3 DEF repo
<1> QED BY <1>1, InitReadInv, NextReadInv, PTL DEF Spec

\* An attempt that worked on what it owned, and on scratch, reconciles.
THEOREM OwnedWorkPasses == Spec => []OwnedWorkReconciles
<1>1. ReadInv => OwnedWorkReconciles
  <2> SUFFICES ASSUME ReadInv, pc = "done", quiet,
                      <<head, index, ignored>> = <<launched[1], launched[2], launched[4]>>,
                      \A p \in Paths \ (Owned \union Scratch) : work[p] = launched[3][p],
                      Owned \intersect ignored = {}
               PROVE  Reconciled
    BY DEF OwnedWorkReconciles
  <2>1. /\ baseline = FingerprintIn(launched) /\ final = FingerprintIn(repo)
    BY DEF ReadInv
  <2>2. /\ repo[1] = launched[1] /\ repo[2] = launched[2] /\ repo[4] = launched[4]
        /\ repo[3] = work /\ repo[4] = ignored
    BY DEF repo
  <2> HIDE DEF repo
  <2>3. ~ControlChanged
    BY <2>1, <2>2 DEF ControlChanged, FingerprintIn
  <2>4. ASSUME NEW p \in Paths \ (Owned \union Scratch)
        PROVE  /\ WorktreeEntry(launched, p) = WorktreeEntry(repo, p)
               /\ IgnoredEntry(launched, p) = IgnoredEntry(repo, p)
    <3>1. repo[3][p] = launched[3][p]
      BY <2>2
    <3> QED BY <2>2, <3>1 DEF WorktreeEntry, IgnoredEntry, StatusIn, VisibleIn, UntrackedIn
  <2>5. Undeclared = {}
    BY <2>1, <2>4 DEF Undeclared, FingerprintIn
  <2>6. ASSUME NEW p \in Owned \ Scratch
        PROVE  IgnoredEntry(launched, p) = IgnoredEntry(repo, p)
    BY <2>2 DEF IgnoredEntry
  <2>7. IgnoredChanges = {}
    BY <2>1, <2>4, <2>6 DEF IgnoredChanges, FingerprintIn
  <2> QED BY <2>3, <2>5, <2>7 DEF Reconciled
<1> QED BY <1>1, InitReadInv, NextReadInv, PTL DEF Spec

-----------------------------------------------------------------------------
\* Half a fingerprint is of the repository that was there when it was read.
HalfRead ==
  /\ TypeOK
  /\ pc = "reading" => final.head \in Tree /\ final.index \in Tree

\* A reading of a well typed repository is well typed.
LEMMA ReadingTypes ==
  ASSUME work \in Tree
  PROVE  /\ WorktreeFingerprint \in [Paths -> {None} \union [status : Seq(BOOLEAN),
                                                           sha256 : Contents \union {Absent}]]
         /\ IgnoredFingerprint \in [Paths -> {None} \union Contents]
<1>1. ASSUME NEW p \in Paths PROVE Status(p) \in Seq(BOOLEAN)
  BY DEF Status, Staged, Edited, Untracked
<1>2. \A p \in Paths : work[p] \in Contents \union {Absent}
  BY DEF Tree
<1>3. ASSUME NEW p \in Paths
      PROVE  [status |-> Status(p), sha256 |-> work[p]]
               \in [status : Seq(BOOLEAN), sha256 : Contents \union {Absent}]
  BY <1>1, <1>2
<1> QED BY <1>2, <1>3 DEF WorktreeFingerprint, IgnoredFingerprint, Untracked

\* Every fingerprint is well formed, whatever is done to the repository between
\* its two parts.
THEOREM FingerprintsAreTyped == Spec => []TypeOK
<1>1. Init => HalfRead
  <2> SUFFICES ASSUME Init PROVE HalfRead
    OBVIOUS
  <2>1. head \in Tree /\ index \in Tree /\ work \in Tree /\ ignored \subseteq Paths
    BY DEF Init
  <2>2. baseline \in Fingerprint
    BY <2>1, ReadingTypes DEF Init, Fingerprint
  <2>3. 0 \in 0 .. MaxChanges
    BY ReconcileAssumption
  <2> QED BY <2>1, <2>2, <2>3 DEF Init, HalfRead, TypeOK
<1>2. HalfRead /\ [Next]_vars => HalfRead'
  <2> SUFFICES ASSUME HalfRead, [Next]_vars PROVE HalfRead'
    OBVIOUS
  <2>1. ASSUME Change, head' \in Tree, index' \in Tree, work' \in Tree, ignored' \subseteq Paths
        PROVE  HalfRead'
    <3>1. changes' \in 0 .. MaxChanges
      BY <2>1, ReconcileAssumption DEF Change, HalfRead, TypeOK
    <3> QED BY <2>1, <3>1 DEF Change, HalfRead, TypeOK
  <2>2. ASSUME NEW p \in Paths, Edit(p) PROVE HalfRead'
    BY <2>1, <2>2 DEF Edit, HalfRead, TypeOK, Tree
  <2>3. ASSUME NEW p \in Paths, Stage(p) PROVE HalfRead'
    BY <2>1, <2>3 DEF Stage, HalfRead, TypeOK, Tree
  <2>4. CASE Commit
    BY <2>1, <2>4 DEF Commit, HalfRead, TypeOK
  <2>5. CASE ChangeIgnoreRules
    BY <2>1, <2>5 DEF ChangeIgnoreRules, HalfRead, TypeOK
  <2>6. CASE WorkerGone
    BY <2>6 DEF WorkerGone, repo, HalfRead, TypeOK
  <2>7. CASE ReadControl
    BY <2>7 DEF ReadControl, repo, HalfRead, TypeOK
  <2>8. CASE ReadFiles
    <3>1. final' \in Fingerprint
      BY <2>8, ReadingTypes DEF ReadFiles, HalfRead, TypeOK, Fingerprint
    <3> QED BY <2>8, <3>1 DEF ReadFiles, repo, HalfRead, TypeOK
  <2>9. CASE UNCHANGED vars
    BY <2>9 DEF vars, repo, HalfRead, TypeOK
  <2> QED BY <2>2, <2>3, <2>4, <2>5, <2>6, <2>7, <2>8, <2>9 DEF Next
<1>3. HalfRead => TypeOK
  BY DEF HalfRead
<1> QED BY <1>1, <1>2, <1>3, PTL DEF Spec
=============================================================================
