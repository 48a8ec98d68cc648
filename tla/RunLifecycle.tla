---------------------------- MODULE RunLifecycle ----------------------------
(***************************************************************************)
(* One run of delegate-to-claude as its files tell it: the run directory,  *)
(* metadata.json, one directory per attempt, the attempts' streams and the *)
(* artifact output.  Manager processes (`run', `resume', `materialize')    *)
(* work on a copy of the metadata they read once and write back whole;     *)
(* nothing locks a run, and a manager may die between any two steps.       *)
(*                                                                         *)
(* What happens inside one attempt is in module AttemptThreads; here an    *)
(* attempt ends interrupted, bad, or good: every success criterion of      *)
(* execute_attempt met.                                                    *)
(***************************************************************************)
EXTENDS Naturals, Sequences, FiniteSets

CONSTANTS Managers,     \* processes that run commands
          Artifact,     \* BOOLEAN: the run has an artifact contract
          Overwrite,    \* BOOLEAN: --overwrite-artifact
          None,         \* no metadata, no copy, no output
          Foreign,      \* an output file nobody here wrote
          MaxCommands,  \* bound: commands begun in a behaviour
          MaxAttempts   \* bound: attempt directories made in a behaviour

Statuses == {"starting", "running", "launch-failed", "terminal", "interrupted"}

\* `flag' is the materializable field; `evidence' what a record without that
\* field is judged by: exit code 0, stream whole, a result that is no error.
AttemptType ==
  [ number : Nat, status : Statuses, flag : {"absent", "yes", "no"},
    evidence : BOOLEAN ]

\* `contract': artifact.output is set; `delivered' is artifact.attempt: whose
\* result the artifact file holds.
MetaType ==
  [ attempts : Seq(AttemptType), contract : BOOLEAN, delivered : Nat \union {None} ]

ASSUME LifecycleAssumption ==
  /\ Artifact \in BOOLEAN /\ Overwrite \in BOOLEAN
  /\ None \notin Nat /\ Foreign \notin Nat /\ None # Foreign
  /\ None \notin MetaType
  /\ MaxCommands \in Nat /\ MaxAttempts \in Nat \ {0}

VARIABLES runDir,    \* the run directory exists
          meta,      \* metadata.json
          dirs,      \* the attempt directories
          stream,    \* per attempt: the last result its stream holds
          output,    \* the artifact file: whose result, Foreign or None
          pc, mem, num, asked, exit,  \* per manager: the command in progress
          alive,     \* attempts whose child process lives
          good,      \* history: attempts that met every success criterion
          overlap,   \* history: two managers ever worked at the same time
          commands   \* commands begun

disk == <<runDir, meta, dirs, stream, output>>
vars == <<runDir, meta, dirs, stream, output, pc, mem, num, asked, exit,
          alive, good, overlap, commands>>

Attempts == 1 .. MaxAttempts

Steps == {"idle", "create", "made", "loaded", "dir", "recorded", "spawned",
          "running", "ended", "deliver", "final", "rewrite"}

\* A run recorded by contract version 1: its attempts have no flag, the run no
\* artifact contract.
LegacyMeta(evidence) ==
  [ attempts |-> << [number |-> 1, status |-> "terminal", flag |-> "absent",
                     evidence |-> evidence] >>,
    contract |-> FALSE, delivered |-> None ]

Fresh ==
  /\ runDir = FALSE /\ meta = None /\ dirs = {}
  /\ stream = [n \in Attempts |-> "none"]
  /\ good = {}

Legacy ==
  \E evidence \in BOOLEAN :
    /\ runDir = TRUE /\ meta = LegacyMeta(evidence) /\ dirs = {1}
    /\ stream = [n \in Attempts |-> IF n = 1 THEN "text" ELSE "none"]
    /\ good = IF evidence THEN {1} ELSE {}

Init ==
  /\ Fresh \/ Legacy
  /\ output \in {None, Foreign}
  /\ pc = [m \in Managers |-> "idle"]
  /\ mem = [m \in Managers |-> None]
  /\ num = [m \in Managers |-> 0]
  /\ asked = [m \in Managers |-> Overwrite]
  /\ exit = [m \in Managers |-> "none"]
  /\ alive = {}
  /\ overlap = FALSE
  /\ commands = 0

-----------------------------------------------------------------------------
Goto(m, step) == pc' = [pc EXCEPT ![m] = step]

\* The command returns with this code; its memory is gone.
Exit(m, code) ==
  /\ pc' = [pc EXCEPT ![m] = "idle"]
  /\ exit' = [exit EXCEPT ![m] = code]
  /\ mem' = [mem EXCEPT ![m] = None]
  /\ num' = [num EXCEPT ![m] = 0]
  /\ asked' = [asked EXCEPT ![m] = Overwrite]

Start(m) ==
  /\ pc[m] = "idle"
  /\ commands < MaxCommands
  /\ commands' = commands + 1
  /\ overlap' = (overlap \/ \E o \in Managers \ {m} : pc[o] # "idle")
  /\ exit' = [exit EXCEPT ![m] = "none"]

WorkingOn(m) == mem[m].attempts[num[m]]

Amended(m, status, flag, evidence) ==
  [mem[m] EXCEPT !.attempts[num[m]] =
     [@ EXCEPT !.status = status, !.flag = flag, !.evidence = evidence]]

\* atomic_json: the file is replaced by the manager's whole copy.
Save(m, copy) ==
  /\ mem' = [mem EXCEPT ![m] = copy]
  /\ meta' = copy

-----------------------------------------------------------------------------
(* command_run, up to the first attempt.                                   *)

\* Every preflight passed, neither the run nor the artifact file exists.
StartRun(m) ==
  /\ Start(m)
  /\ ~runDir
  /\ Artifact => Overwrite \/ output = None
  /\ Goto(m, "create")
  /\ UNCHANGED <<disk, mem, num, asked, alive, good>>

\* Bug: the directory of another command is accepted.
MakeRunDirAnyway(m) ==
  /\ pc[m] = "create"
  /\ runDir' = TRUE
  /\ Goto(m, "made")
  /\ UNCHANGED <<meta, dirs, stream, output, mem, num, asked, exit, alive, good,
                 overlap, commands>>

MakeRunDir(m) ==
  /\ pc[m] = "create"
  /\ ~runDir
  /\ runDir' = TRUE
  /\ Goto(m, "made")
  /\ UNCHANGED <<meta, dirs, stream, output, mem, num, asked, exit, alive, good,
                 overlap, commands>>

\* Another command made it since the exists() check: mkdir raises.
RunDirTaken(m) ==
  /\ pc[m] = "create"
  /\ runDir
  /\ Exit(m, "nonzero")
  /\ UNCHANGED <<disk, alive, good, overlap, commands>>

\* Scratch, policy or state preflight refuses; the directory stays.
RunRefused(m) ==
  /\ pc[m] = "made"
  /\ Exit(m, "nonzero")
  /\ UNCHANGED <<disk, alive, good, overlap, commands>>

WriteMetadata(m) ==
  /\ pc[m] = "made"
  /\ Save(m, [attempts |-> << >>, contract |-> Artifact, delivered |-> None])
  /\ Goto(m, "loaded")
  /\ UNCHANGED <<runDir, dirs, stream, output, num, asked, exit, alive, good,
                 overlap, commands>>

\* command_resume: load_run, and the state preflight admits.
StartResume(m) ==
  /\ Start(m)
  /\ meta # None
  /\ mem' = [mem EXCEPT ![m] = meta]
  /\ Goto(m, "loaded")
  /\ UNCHANGED <<disk, num, asked, alive, good>>

-----------------------------------------------------------------------------
(* execute_attempt.                                                        *)

NextNumber(m) == Len(mem[m].attempts) + 1

\* Bug: an existing attempt directory is reused.
MakeAttemptDirAnyway(m) ==
  /\ pc[m] = "loaded"
  /\ NextNumber(m) \in Attempts
  /\ dirs' = dirs \union {NextNumber(m)}
  /\ num' = [num EXCEPT ![m] = NextNumber(m)]
  /\ Goto(m, "dir")
  /\ UNCHANGED <<runDir, meta, stream, output, mem, asked, exit, alive, good,
                 overlap, commands>>

MakeAttemptDir(m) ==
  /\ pc[m] = "loaded"
  /\ NextNumber(m) \in Attempts \ dirs
  /\ dirs' = dirs \union {NextNumber(m)}
  /\ num' = [num EXCEPT ![m] = NextNumber(m)]
  /\ Goto(m, "dir")
  /\ UNCHANGED <<runDir, meta, stream, output, mem, asked, exit, alive, good,
                 overlap, commands>>

\* The prompt is no file, or mkdir(exist_ok=False) finds the directory there.
AttemptRefused(m) ==
  /\ pc[m] = "loaded"
  /\ Exit(m, "nonzero")
  /\ UNCHANGED <<disk, alive, good, overlap, commands>>

\* Hashing the prompt raises: the directory stays, nothing is recorded.
PromptUnreadable(m) ==
  /\ pc[m] = "dir"
  /\ Exit(m, "nonzero")
  /\ UNCHANGED <<disk, alive, good, overlap, commands>>

\* Bug: the record of an earlier attempt is taken over.
StartedOver(m) ==
  [mem[m] EXCEPT !.attempts =
     << [number |-> num[m], status |-> "starting", flag |-> "absent",
         evidence |-> FALSE] >>]

Started(m) ==
  [mem[m] EXCEPT !.attempts =
     Append(@, [number |-> num[m], status |-> "starting", flag |-> "absent",
                evidence |-> FALSE])]

\* Bug: the attempt is noted in memory only.
RecordAttemptLater(m) ==
  /\ pc[m] = "dir"
  /\ mem' = [mem EXCEPT ![m] = Started(m)]
  /\ Goto(m, "recorded")
  /\ UNCHANGED <<disk, num, asked, exit, alive, good, overlap, commands>>

RecordAttempt(m) ==
  /\ pc[m] = "dir"
  /\ Save(m, Started(m))
  /\ Goto(m, "recorded")
  /\ UNCHANGED <<runDir, dirs, stream, output, num, asked, exit, alive, good,
                 overlap, commands>>

\* The baseline fingerprint, the watch scope or the limits raise.
LaunchAborted(m) ==
  /\ pc[m] = "recorded"
  /\ Exit(m, "nonzero")
  /\ UNCHANGED <<disk, alive, good, overlap, commands>>

\* Popen raises: recorded as launch-failed.
LaunchFails(m) ==
  /\ pc[m] = "recorded"
  /\ meta' = Amended(m, "launch-failed", "absent", FALSE)
  /\ Exit(m, "nonzero")
  /\ UNCHANGED <<runDir, dirs, stream, output, alive, good, overlap, commands>>

Spawn(m) ==
  /\ pc[m] = "recorded"
  /\ alive' = alive \union {num[m]}
  /\ Goto(m, "spawned")
  /\ UNCHANGED <<disk, mem, num, asked, exit, good, overlap, commands>>

RecordRunning(m) ==
  /\ pc[m] = "spawned"
  /\ Save(m, Amended(m, "running", "absent", FALSE))
  /\ Goto(m, "running")
  /\ UNCHANGED <<runDir, dirs, stream, output, num, asked, exit, alive, good,
                 overlap, commands>>

\* The stdout loop copies the child's result event: with result text or not.
CopyResult(m) ==
  /\ pc[m] = "running"
  /\ stream[num[m]] = "none"
  /\ \E r \in {"text", "notext"} : stream' = [stream EXCEPT ![num[m]] = r]
  /\ UNCHANGED <<runDir, meta, dirs, output, pc, mem, num, asked, exit, alive,
                 good, overlap, commands>>

\* Something the loop or the evaluation does not catch ends the manager: the
\* record still says running (and the child may live on).
Escapes(m) ==
  /\ pc[m] = "running"
  /\ Exit(m, "nonzero")
  /\ \E left \in {alive, alive \ {num[m]}} : alive' = left
  /\ UNCHANGED <<disk, good, overlap, commands>>

\* The child is gone and the evidence is in: all criteria met, some not met
\* (also a reconciliation violation), or the manager was interrupted.
EndGood(m) ==
  /\ pc[m] = "running"
  /\ stream[num[m]] # "none"
  /\ mem' = [mem EXCEPT ![m] = Amended(m, "terminal", "yes", TRUE)]
  /\ good' = good \union {num[m]}
  /\ alive' = alive \ {num[m]}
  /\ Goto(m, "ended")
  /\ UNCHANGED <<disk, num, asked, exit, overlap, commands>>

EndBad(m) ==
  /\ pc[m] = "running"
  /\ \E status \in {"terminal", "interrupted"}, evidence \in BOOLEAN :
       /\ evidence => stream[num[m]] # "none"
       /\ mem' = [mem EXCEPT ![m] = Amended(m, status, "no", evidence)]
  /\ alive' = alive \ {num[m]}
  /\ Goto(m, "ended")
  /\ UNCHANGED <<disk, num, asked, exit, good, overlap, commands>>

\* The artifact contract: deliver the result of a materializable attempt.
Deliverable(m) == mem[m].contract /\ WorkingOn(m).flag = "yes"

\* Bug: the output file is not looked for.
CheckOutputAnyway(m) ==
  /\ pc[m] = "ended"
  /\ Deliverable(m)
  /\ stream[num[m]] = "text"
  /\ Goto(m, "deliver")
  /\ UNCHANGED <<disk, mem, num, asked, exit, alive, good, overlap, commands>>

CheckOutput(m) ==
  /\ pc[m] = "ended"
  /\ Deliverable(m)
  /\ stream[num[m]] = "text"
  /\ output = None \/ Overwrite
  /\ Goto(m, "deliver")
  /\ UNCHANGED <<disk, mem, num, asked, exit, alive, good, overlap, commands>>

Deliver(m) ==
  /\ pc[m] = "deliver"
  /\ output' = num[m]
  /\ mem' = [mem EXCEPT ![m].delivered = num[m]]
  /\ Goto(m, "final")
  /\ UNCHANGED <<runDir, meta, dirs, stream, num, asked, exit, alive, good,
                 overlap, commands>>

\* No result text, or the output exists: artifact.error, not materializable.
DeliveryRefused(m) ==
  /\ pc[m] = "ended"
  /\ Deliverable(m)
  /\ stream[num[m]] # "text" \/ (output # None /\ ~Overwrite)
  /\ mem' = [mem EXCEPT ![m].attempts[num[m]].flag = "no"]
  /\ Goto(m, "final")
  /\ UNCHANGED <<disk, num, asked, exit, alive, good, overlap, commands>>

\* Writing the artifact raises: the same, and the output is as it was.
DeliveryFails(m) ==
  /\ pc[m] = "deliver"
  /\ mem' = [mem EXCEPT ![m].attempts[num[m]].flag = "no"]
  /\ Goto(m, "final")
  /\ UNCHANGED <<disk, num, asked, exit, alive, good, overlap, commands>>

NothingToDeliver(m) ==
  /\ pc[m] = "ended"
  /\ ~Deliverable(m)
  /\ Goto(m, "final")
  /\ UNCHANGED <<disk, mem, num, asked, exit, alive, good, overlap, commands>>

\* The last metadata write, then the exit code: 0 needs a good attempt and,
\* with an artifact contract, an artifact of SOME attempt.
Finish(m) ==
  /\ pc[m] = "final"
  /\ meta' = mem[m]
  /\ pc' = [pc EXCEPT ![m] = "idle"]
  /\ exit' = [exit EXCEPT ![m] =
       IF num[m] \in good /\ (mem[m].contract => mem[m].delivered # None)
       THEN "zero" ELSE "nonzero"]
  /\ asked' = [asked EXCEPT ![m] = Overwrite]
  /\ UNCHANGED <<runDir, dirs, stream, output, mem, num, alive, good, overlap, commands>>

-----------------------------------------------------------------------------
(* command_materialize: read the metadata, select, check, write.           *)

\* Bug: eligibility is read off the evidence even where the flag says no.
MaterializableByEvidence(a) == a.status = "terminal" /\ a.evidence

\* An explicit flag decides; a record without one is judged by its evidence.
Materializable(a) ==
  IF a.flag = "absent" THEN a.status = "terminal" /\ a.evidence ELSE a.flag = "yes"

Eligible == {i \in 1 .. Len(meta.attempts) : Materializable(meta.attempts[i])}

\* Any attempt by --attempt (the default is the last eligible one), with or
\* without --overwrite.
StartMaterialize(m) ==
  /\ Start(m)
  /\ meta # None
  /\ \E i \in Eligible, overwrite \in BOOLEAN :
       /\ stream[meta.attempts[i].number] = "text"
       /\ output = None \/ overwrite
       /\ num' = [num EXCEPT ![m] = meta.attempts[i].number]
       /\ asked' = [asked EXCEPT ![m] = overwrite]
  /\ mem' = [mem EXCEPT ![m] = None]
  /\ Goto(m, "rewrite")
  /\ UNCHANGED <<disk, alive, good>>

\* Bug: the attempt is looked up by a zero-based index.
RewriteZeroBased(m) ==
  /\ pc[m] = "rewrite"
  /\ output' = num[m] - 1
  /\ Exit(m, "zero")
  /\ UNCHANGED <<runDir, meta, dirs, stream, alive, good, overlap, commands>>

Rewrite(m) ==
  /\ pc[m] = "rewrite"
  /\ output' = num[m]
  /\ Exit(m, "zero")
  /\ UNCHANGED <<runDir, meta, dirs, stream, alive, good, overlap, commands>>

RewriteFails(m) ==
  /\ pc[m] = "rewrite"
  /\ Exit(m, "nonzero")
  /\ UNCHANGED <<disk, alive, good, overlap, commands>>

-----------------------------------------------------------------------------
\* The manager is killed; its child, if any, lives on.
Crash(m) ==
  /\ pc[m] # "idle"
  /\ Exit(m, "died")
  /\ UNCHANGED <<disk, alive, good, overlap, commands>>

\* A child without its manager ends.
OrphanEnds(n) ==
  /\ n \in alive
  /\ \A m \in Managers : ~(pc[m] \in {"spawned", "running"} /\ num[m] = n)
  /\ alive' = alive \ {n}
  /\ UNCHANGED <<disk, pc, mem, num, asked, exit, good, overlap, commands>>

Next ==
  \/ \E m \in Managers :
       \/ StartRun(m) \/ MakeRunDir(m) \/ RunDirTaken(m) \/ RunRefused(m)
       \/ WriteMetadata(m)
       \/ StartResume(m) \/ MakeAttemptDir(m) \/ AttemptRefused(m)
       \/ PromptUnreadable(m) \/ RecordAttempt(m)
       \/ LaunchAborted(m) \/ LaunchFails(m) \/ Spawn(m) \/ RecordRunning(m)
       \/ CopyResult(m) \/ Escapes(m) \/ EndGood(m) \/ EndBad(m)
       \/ CheckOutput(m) \/ Deliver(m)
       \/ DeliveryRefused(m) \/ DeliveryFails(m) \/ NothingToDeliver(m)
       \/ Finish(m)
       \/ StartMaterialize(m) \/ Rewrite(m) \/ RewriteFails(m)
       \/ Crash(m)
  \/ \E n \in Attempts : OrphanEnds(n)

Spec == Init /\ [][Next]_vars

-----------------------------------------------------------------------------
TypeOK ==
  /\ runDir \in BOOLEAN
  /\ meta \in MetaType \union {None}
  /\ dirs \subseteq Attempts
  /\ stream \in [Attempts -> {"none", "text", "notext"}]
  /\ output \in Attempts \union {None, Foreign}
  /\ pc \in [Managers -> Steps]
  /\ mem \in [Managers -> MetaType \union {None}]
  /\ num \in [Managers -> Attempts \union {0}]
  /\ asked \in [Managers -> BOOLEAN]
  /\ exit \in [Managers -> {"none", "zero", "nonzero", "died"}]
  /\ alive \subseteq Attempts
  /\ good \subseteq Attempts
  /\ overlap \in BOOLEAN
  /\ commands \in 0 .. MaxCommands

InAttempt(m) == pc[m] \in {"dir", "recorded", "spawned", "running", "ended", "deliver", "final"}

\* No two managers ever work in one attempt directory, however stale the
\* metadata they read: mkdir(exist_ok=False) is the only arbiter there is.
AttemptDirIsExclusive ==
  \A m, o \in Managers : m # o /\ InAttempt(m) /\ InAttempt(o) => num[m] # num[o]

\* A paid child never runs without a record on disk that it was started
\* (execute_attempt persists "starting" before Popen), unless managers overlap.
LiveChildIsRecorded ==
  \A n \in alive : ~overlap => meta # None /\ n \in 1 .. Len(meta.attempts)

\* Neither the output nor the metadata's account of it ever holds the result of
\* an attempt that failed any criterion, whoever wrote it: run, resume,
\* materialize, with crashes and stale copies of the metadata.
OnlySuccessIsDelivered ==
  /\ output \in Nat => output \in good
  /\ meta # None => meta.delivered \in good \union {None}

Ended(a) == a.status \in {"launch-failed", "terminal", "interrupted"}

\* Resume adds attempts "without overwriting" the evidence of earlier ones:
\* no attempt leaves the metadata and the record of one that ended stays.
EvidenceKept(old, new) ==
  /\ Len(old.attempts) <= Len(new.attempts)
  /\ \A i \in 1 .. Len(old.attempts) :
       Ended(old.attempts[i]) => new.attempts[i] = old.attempts[i]

\* ... as long as managers take turns, crashes of theirs included.  However they
\* overlap, a run is created once: no second `run' resets the metadata of the
\* first, though both saw no directory (mkdir without exist_ok).
EvidenceIsKept ==
  [][meta # None =>
       /\ meta' # None
       /\ ~overlap' => EvidenceKept(meta, meta')
       /\ meta'.attempts = << >> => meta.attempts = << >>]_vars

\* A file that was there is replaced only by a command told to overwrite it,
\* as long as managers take turns.
OutputReplacedOnRequest ==
  [][output # None /\ output' # output =>
       overlap \/ \E m \in Managers : pc[m] \in {"deliver", "rewrite"} /\ asked[m]]_vars

\* "An artifact contract that produced no artifact is a failed attempt, even
\* when the child exited cleanly": exit 0 means this attempt's result is out.
ExitZeroIsDelivered ==
  \A m \in Managers :
    pc[m] = "idle" /\ exit[m] = "zero" /\ mem[m] # None => WorkingOn(m).flag = "yes"
=============================================================================
