----------------------------- MODULE Reconcile -----------------------------
(***************************************************************************)
(* Owned-path reconciliation of delegate-to-claude: the repository is      *)
(* fingerprinted before a worker is launched and after its child is gone,  *)
(* and every difference is owned, pre-existing, scratch or undeclared.     *)
(*                                                                         *)
(* The repository may be dirty at launch.  A fingerprint is read in two    *)
(* parts, Git control state and then files, and a process the worker left  *)
(* behind may change things before, between and after them.                *)
(*                                                                         *)
(* Git is modelled by what its commands report of three trees (HEAD, index *)
(* and worktree) and the ignore rules.                                     *)
(***************************************************************************)
EXTENDS Naturals, Sequences

CONSTANTS Paths,      \* paths of the project
          Owned,      \* those below an --owned-path
          Scratch,    \* those below a scratch root inside the project
          Contents,   \* file contents
          Absent,     \* no such file
          None,       \* no entry in a fingerprint
          MaxChanges  \* bound: changes after the baseline

ASSUME ReconcileAssumption ==
  /\ Owned \subseteq Paths /\ Scratch \subseteq Paths
  /\ Absent \notin Contents
  /\ None \notin Contents
  /\ None \notin [status : Seq(BOOLEAN), sha256 : Contents \union {Absent}]
  /\ MaxChanges \in Nat

VARIABLES head, index, work,  \* [Paths -> Contents \union {Absent}]
          ignored,            \* paths the ignore rules name
          launched,           \* history: the four of them at the baseline
          baseline, final,    \* the fingerprints
          worker,             \* "running", or "gone" with all it started
          quiet,              \* history: it was gone when the final reading began
          changes, pc

repo == <<head, index, work, ignored>>
vars == <<head, index, work, ignored, launched, baseline, final, worker, quiet,
          changes, pc>>

Tree == [Paths -> Contents \union {Absent}]

-----------------------------------------------------------------------------
(* What Git reports.                                                       *)

Untracked(p) == index[p] = Absent /\ work[p] # Absent

Staged(p) == index[p] # head[p]

Edited(p) == index[p] # Absent /\ work[p] # index[p]

\* What `git status' lists, and the letters it shows, as far as they differ.
Visible(p) == Staged(p) \/ Edited(p) \/ (Untracked(p) /\ p \notin ignored)

Status(p) == <<Staged(p), index[p] = Absent, Edited(p), work[p] = Absent,
               Untracked(p) /\ p \notin ignored>>

\* worktree_fingerprint: dirty paths with status and content hash.
WorktreeFingerprint ==
  [p \in Paths |-> IF Visible(p) /\ p \notin Scratch
                  THEN [status |-> Status(p), sha256 |-> work[p]] ELSE None]

\* ignored_fingerprint: every ignored file that is there, but for scratch.
IgnoredFingerprint ==
  [p \in Paths |-> IF Untracked(p) /\ p \in ignored \ Scratch THEN work[p] ELSE None]

-----------------------------------------------------------------------------
(* reconcile and reconcile_repository.                                     *)

\* Bug: what was dirty at launch is exonerated.
UndeclaredIfClean ==
  {p \in Paths \ (Scratch \union Owned) :
     baseline.worktree[p] = None /\ final.worktree[p] # None}

\* Bug: an owned path that was dirty may not be touched.
UndeclaredOrDirty ==
  {p \in Paths \ Scratch : /\ p \in Owned => baseline.worktree[p] # None
                          /\ baseline.worktree[p] # final.worktree[p]}

Undeclared ==
  {p \in Paths \ (Scratch \union Owned) : baseline.worktree[p] # final.worktree[p]}

IgnoredChanges == {p \in Paths \ Scratch : baseline.ignored[p] # final.ignored[p]}

ControlChanged == baseline.head # final.head \/ baseline.index # final.index

Reconciled == Undeclared = {} /\ IgnoredChanges = {} /\ ~ControlChanged

-----------------------------------------------------------------------------
\* A repository as users leave it: committed, staged, edited, with untracked and
\* ignored files; the scratch root starts empty.
Init ==
  /\ head \in Tree /\ work \in Tree
  /\ \A p \in Scratch : head[p] = Absent /\ work[p] = Absent
  /\ index \in {t \in Tree : \A p \in Paths : t[p] \in {head[p], work[p]}}
  /\ ignored \in SUBSET Paths
  /\ launched = <<head, index, work, ignored>>
  /\ baseline = [head |-> head, index |-> index,
                 worktree |-> WorktreeFingerprint, ignored |-> IgnoredFingerprint]
  /\ final = None
  /\ worker = "running" /\ quiet = FALSE
  /\ changes = 0
  /\ pc = "run"

Change ==
  /\ worker = "running"
  /\ changes < MaxChanges
  /\ changes' = changes + 1
  /\ UNCHANGED <<launched, baseline, final, worker, quiet, pc>>

\* Write, create, delete or restore a file.
Edit(p) ==
  /\ Change
  /\ \E c \in Contents \union {Absent} : work' = [work EXCEPT ![p] = c]
  /\ UNCHANGED <<head, index, ignored>>

\* git add, git rm --cached, git reset of a path.
Stage(p) ==
  /\ Change
  /\ \E c \in {work[p], head[p], Absent} : index' = [index EXCEPT ![p] = c]
  /\ UNCHANGED <<head, work, ignored>>

Commit ==
  /\ Change
  /\ head' = index
  /\ UNCHANGED <<index, work, ignored>>

\* The rules live in files and in .git/info, whose own changes are not followed.
ChangeIgnoreRules ==
  /\ Change
  /\ ignored' \in SUBSET Paths
  /\ UNCHANGED <<head, index, work>>

WorkerGone ==
  /\ worker = "running"
  /\ worker' = "gone"
  /\ UNCHANGED <<repo, launched, baseline, final, quiet, changes, pc>>

\* repository_fingerprint, first part: HEAD and the index.
ReadControl ==
  /\ pc = "run"
  /\ final' = [head |-> head, index |-> index]
  /\ quiet' = (worker = "gone")
  /\ pc' = "reading"
  /\ UNCHANGED <<repo, launched, baseline, worker, changes>>

\* Second part: the visible and the ignored files.
ReadFiles ==
  /\ pc = "reading"
  /\ final' = [head |-> final.head, index |-> final.index,
               worktree |-> WorktreeFingerprint, ignored |-> IgnoredFingerprint]
  /\ pc' = "done"
  /\ UNCHANGED <<repo, launched, baseline, worker, quiet, changes>>

Next ==
  \/ \E p \in Paths : Edit(p) \/ Stage(p)
  \/ Commit \/ ChangeIgnoreRules \/ WorkerGone \/ ReadControl \/ ReadFiles

Spec == Init /\ [][Next]_vars

-----------------------------------------------------------------------------
Fingerprint ==
  [ head : Tree, index : Tree,
    worktree : [Paths -> {None} \union [status : Seq(BOOLEAN),
                                       sha256 : Contents \union {Absent}]],
    ignored : [Paths -> {None} \union Contents] ]

TypeOK ==
  /\ head \in Tree /\ index \in Tree /\ work \in Tree
  /\ ignored \subseteq Paths
  /\ baseline \in Fingerprint
  /\ pc = "done" => final \in Fingerprint
  /\ worker \in {"running", "gone"} /\ quiet \in BOOLEAN
  /\ changes \in 0 .. MaxChanges
  /\ pc \in {"run", "reading", "done"}

\* "a pre-existing modification is only exonerated when its content fingerprint
\* is unchanged": a reconciled attempt changed no file, no HEAD and no index
\* entry outside what it owned, however dirty the worktree was at launch.
UndeclaredChangeIsFound ==
  pc = "done" /\ quiet /\ Reconciled =>
    /\ \A p \in Paths \ (Owned \union Scratch) : work[p] = launched[3][p]
    /\ head = launched[1] /\ index = launched[2]

\* Work on owned and scratch paths alone never fails an attempt, also where the
\* owned file was dirty before (ignored files are owned by nobody).
OwnedWorkReconciles ==
  /\ pc = "done" /\ quiet
  /\ <<head, index, ignored>> = <<launched[1], launched[2], launched[4]>>
  /\ \A p \in Paths \ (Owned \union Scratch) : work[p] = launched[3][p]
  /\ Owned \intersect ignored = {}
  => Reconciled
=============================================================================
