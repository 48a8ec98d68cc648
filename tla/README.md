# Verification of delegation-runtime

TLA+ models of the programs of this repository, the TLC runs that check them on
small instances, and TLAPS proofs about every part that is modelled: the record
store and its readers, the life of a run, the threads of an attempt, the
reconciliation of a repository, launches and their budget, the provider loop and
the comparison of policies.
Paths below are relative to `src/`. `PROJECT.json` names, for every definition that models code,
the lines it stands for.

## 1. Inventory

The repository holds three command line programs and one shared library. They
have no network protocol; what they share is files, pipes, signals and locks.

### intent-writer (`intent-writer/scripts/intent_writer.py`)

A store of JSONL records (intents, outcomes, rekeys), one file per month,
written by independent processes.

- **State**: the month files, the lock file with its `flock`, the index a writer
  builds in memory for one call.
- **Operations**: `write_record` (lock, one scan of every file, derive ordinals
  and the orphan flag, validate, one `os.write`, roll back a short write,
  `fsync`, release); `summarize` and `validate` list the month files and read them
  one after the other without the lock; `ulid` mints ids that sort.
- **Hard**: writers in any order; death between any two steps, power loss between
  write and `fsync`; `UNKNOWN COMMIT` (a failed `fsync` after the line is out)
  and the retry by `event_id`; identity rules that span files; a reader that sees
  each month at another moment, and a file itself in several `os.read` calls
  between which a torn line may be rolled back and written over; a clock that
  steps back.
- **Correct means**: no two records clash whatever was interleaved; nothing
  acknowledged is lost; a failed call left nothing, an uncertain one can be
  retried; the orphan flag states what the store showed; lines are only appended;
  a reader misses nothing that was there when it began, and rejects nothing that
  was written unless its lines were overwritten while it read them.

### delegate-to-claude (`delegate-to-claude/scripts/`)

Launches a Claude CLI child per attempt, watches it, keeps evidence, decides
whether the result may be delivered.

| Part | State | Operations | Hard |
|---|---|---|---|
| run lifecycle (`claude_delegate.py`) | run directory, `metadata.json`, attempt directories, streams, artifact file | `run`, `resume`, `materialize` | no lock: overlapping managers write back whole stale copies; death between any two file operations; records of an older contract |
| one attempt (`execute_attempt`, `state_budget.py`) | pipes, log budget, `budget_exceeded_at`, the verdict | main loop, stderr thread, watchdog thread, `terminate_child`, joins with a timeout | three threads on shared variables read three times; a descendant that outlives the child; a child that ignores SIGTERM; `KeyboardInterrupt` |
| reconciliation (`reconcile.py`) | fingerprints before and after | `repository_fingerprint`, `reconcile_repository` | a repository dirty at launch; changes while the fingerprint is read |
| generated-state budget (`state_budget.py`) | state root, scratch directories and their markers, sizes | `resolve_scratch_dir`, `preflight`, `execution_watch_scope`, the samples | runs that share a state root and race for one directory; history and growth split once; thresholds that meet at equality; the manager's own files in the directory it watches; a worker that removes what was counted |
| profiles (`profiles.py`) | none: two tables | `resolve_profile`, `expected_startup_tools`, `classify_manifest` | what is taken away in one place and comes back in another |
| runtime policy (`runtime_policy.py`) | none: modes and settings | `build_runtime_policy` | three tables that have to agree |
| presets (`policy_presets.py`) | none | policy documents for the profiles | compared by `explain` |
| status, inspect, explain, doctor | none | reports | read-only |

Correct means: an attempt is on disk before its paid child runs; evidence is never
overwritten; only an attempt that met every criterion is delivered; a truncated,
over-budget or unmanifested attempt is never materializable; a child that must
be stopped is stopped; a change outside the owned paths is always found; a scratch
directory is one run's; what a worker can write is watched or reconciled; the
budget's verdict is about all generated state, counted once.

### delegate-to-antigravity (`delegate-to-antigravity/scripts/agy_delegate.py`)

One provider process in a `selectors` loop with a deadline and a state budget.
State: two pipes, two logs, the reason of a stop. Hard: deadline against exit,
SIGTERM ignored, descendants that hold a pipe. Correct means: complete logs on
success, a dead provider after a timeout.

### delegation_policy (`scripts/delegation_policy/`)

`schema.py` normalises a policy and derives authority atoms, `diff.py` compares
two policies, `explain.py` renders. No state. Hard: many sections interact in one
classification. Correct means: a widening is never reported as exact or narrower
and is confirmed where the policy asks for it; section 5 names the three kinds of
widening for which the code does not keep this.

### How the parts interact

The run lifecycle calls one attempt, which calls the reconciliation when its
child is gone and hands back a verdict. Profiles, runtime policy and budget decide
before that whether a worker is launched, and where; the scratch root they choose
is what the reconciliation leaves out and the watchdog samples. `explain` calls
the policy comparison, on documents or presets.
intent-writer is called by drivers and shares nothing with the others but the
file system.

## 2. Modules

| Module | Models | Builds on |
|---|---|---|
| `IntentRecords` | record identity: the keys, and which two records clash | |
| `IntentLog` | what the store promises: a set of records that do not clash | `IntentRecords` |
| `IntentStore`, `MCIntentStore` | the write path, processes, crashes, power loss | `IntentRecords`; implements `IntentLog` |
| `IntentReaders`, `MCIntentReaders` | `summarize` and `validate` beside the writers | `IntentStore` |
| `Ulid` | `ulid()` under any clock, with its theorem | |
| `RunLifecycle`, `MCRunLifecycle` | a run as its files tell it | |
| `AttemptThreads` | the threads of one attempt | |
| `Reconcile` | the fingerprints and their comparison | |
| `Profiles` | what the arguments of `run` resolve to, and the policy built for it | |
| `Launch`, `MCLaunch` | scratch directories and the generated-state budget, several runs | `Profiles` |
| `AgyProvider` | the provider loop | |
| `PolicyDiff` | the atoms of a policy, the presets, `compare_policies` | |
| `IntentStore_proofs` | proofs about the store, in order: identity and exclusion; durability and the refinement; calls and retries; readers | `IntentReaders`, TLAPS |
| `RunLifecycle_proofs`, `AttemptThreads_proofs`, `Reconcile_proofs`, `Launch_proofs`, `AgyProvider_proofs`, `PolicyDiff_proofs` | proofs about those modules | the module, TLAPS |

**IntentStore.** `file[m]` is the complete lines of a month file, `torn[m]` a
last line without its newline, `durable[m]` how many lines an `fsync` covered,
`lock` the holder of the flock. Each process has a `pc`: `wait` is the polling of
`store_lock.__enter__`; `scan` `index_store`; `prepare` `_prepare`; `write`,
`rollback` and `sync` the parts of `_append`; `release` `__exit__`. Every way out
of each step is an action (`GiveUp`, `ScanRefused`, `Refuse`, `WriteFails`,
`WriteShort`, `RollbackFails`, `SyncFails`, `Crash`). `Retry` is the caller's
retry the code asks for in `UnknownCommitError`.

**IntentReaders** composes the store with a reader. `todo` is the list of files
made at the start, `view` what was read of each, `verdict` how the read stands.
`_read_store_text` is a loop of `os.read` calls, and writers may take any steps
between two of them: `at` is how many lines the reader has passed, `ReadLines` a
call that gives some more. Complete lines are never changed while the power
stays on, so where among them a call ends makes no difference, and a call that
ends inside a line which is later completed shows nothing else than one that ends
before it. A call that ends inside a torn line does (`ReadTorn`, `cut`): the line
may be rolled back and others be written in its place, and the next call goes on
at its offset, inside one of those (`ReadOn`). What comes out is the beginning of
the torn record (`head`) with the end of another (`Hybrid`), valid or not.
`ReadMonth`, `RefuseMonth` and `RefuseTorn` are the end of a file; a torn
line, an invalid record or a clash ends the command, and so does a power loss.
`glued` records that a line was put together from two.

**Ulid.** `last` is `_ULID_LAST`; the clock is any number at each call. `Fresh`,
`CountOn` and `RunAhead` are the three ways `ulid` gets an id: new entropy in a
later millisecond, the last entropy plus one, and the next millisecond when the
entropy is used up.

**RunLifecycle.** `meta` is `metadata.json`, `dirs` the attempt directories,
`stream` the last result each stream holds, `output` the artifact file. Each
manager holds `mem`, the copy it read, and writes it back whole (`atomic_json`).
The steps of `execute_attempt` are cut where another process, or a crash, can see
a difference: mkdir, record as starting, launch, record as running, stream,
verdict, delivery, last save. A run may start as a record of contract version 1.

**AttemptThreads** refines the inside of one such attempt: `main`, `drainer` and
`watchdog` are where the threads are, `used` and `truncated` are
`SharedLogBudget`, `exceeded` is `budget_exceeded_at`. The three reads of the
flags (verdict, record, exit code) are three steps. A timed wait may end at any
moment, so no bound on time is assumed. The verdict it reaches is what
`RunLifecycle` takes as `EndGood` or `EndBad`; both keep every outcome of the
other, and no refinement between the two is stated yet.

**Profiles** holds the tables of `profiles.py` and `runtime_policy.py` and the
refusals that only read arguments, the CLI's help and existing files
(`ArgumentsAccepted`, `PolicyBuilds`). A request is a record of what the command
line says; `Resolved` and `Settings` are what the code derives from it.

**Launch** runs such requests. A directory is its path, so that roots can lie in
one another; `bytes` is what is directly in each, `marker` its ownership file.
The size of a directory is the number of units below it, and that of several
roots counts the units of each root for itself (`AggregateSize`), so that roots
which overlap would count twice, as the walk of the code would.
`resolve_scratch_dir` is six steps (`Look`, `Make`, `List`, `Claim`, `Create`,
`Fill`), since another run can act between any two; then come the policy, the
admission (`Preflight`), the split of fixed and dynamic bytes (`Scope`), the
worker (`Log`, `Write`, `Delete`), the watchdog's walks (`Sample`) and the verdict
(`End`). The manager saves files of its own in the run directory, the empty MCP
configuration and the settings (`Policy`), the metadata of a new run
(`Preflight`), the attempt's record and the baseline (`Scope`), what became of it
(`End`); each of these steps adds up to `MaxSaved` units (`Save`). What the
watchdog found stays found (`exceeded`), while the worker may remove files of its
scratch root, also behind a walk that already counted them (`removed`). A run may
be resumed, and repeated after the user removed what a refused or killed command
left. History variables say which runs met another one (`raced`, `moved`,
`crowded`), so that properties can exclude just that, and how much room an
admission left beyond the logs (`room`) and how much the manager saved since
(`saved`).

**AgyProvider** cuts `run_provider` at `select`; the deadline, the grace period
and the state tree change at any time.

**Reconcile** models Git by what it reports of three trees and the ignore rules,
all external, and translates the fingerprints and their comparison.

**PolicyDiff** derives atoms from a policy document and compares. A behaviour is
somebody revising a policy one field at a time, choosing another preset, or
running `explain --write-root` and `--output-dir` (`Explain`), and resuming under
the result. `Powers` says, without looking at the comparison, what a policy lets a
worker do. A rule against a root and a rule against a path are one atom if the
path's `rule_id` is the root's name (`Denies`; `denied_paths` ranges over root
names and one other id), and MCP servers are part of the document and of its
authority but of no atom. `Unseen` names what a step can open without an atom.

## 3. Runs

| Run | Question | Bounds |
|---|---|---|
| `IntentStore` | do identity, exclusion, retry and append-only survive every interleaving, crash and power loss | 2 writers, 3 calls, 8 requests, 2 months, 1 power loss; writers symmetric |
| `IntentReaders` | is what was acknowledged durable, does the store implement `IntentLog`, is the lock always given back; what can a reader without it get wrong | 2 writers, 2 calls, 3 requests, 2 months, 1 power loss, 1 read in any number of `os.read` calls; fairness, no symmetry |
| `IntentStoreWedge` | can a partial line outlive its call (finding) | 2 writers, 2 calls, the 3 requests of `IntentReaders`, no power loss |
| `RunLifecycle` | is evidence kept, is only a good result delivered | 2 managers, 3 commands, 3 attempts; managers symmetric |
| `RunLifecycleExit` | does exit 0 mean delivered (finding) | the same |
| `AttemptThreads` | is what is judged materializable whole | 7 kinds of line, 2 lines, 1 chunk of stderr, log limit 2, pipe of 1, with and without enforcement |
| `AttemptThreadsLiveness` | are children stopped, does an attempt end | 3 kinds of line, 1 line, 1 chunk, log limit 0; fairness |
| `AttemptThreadsTruncation` | does a truncation on record always refuse (finding) | as `AttemptThreads` |
| `AgyProvider` | are logs whole on success, is a provider over time dead in the end | 2 chunks per pipe; fairness |
| `Reconcile` | is every undeclared change found, owned work accepted | 3 paths (owned, other, scratch), 2 contents, 2 changes, every dirty start |
| `Launch` | who owns a scratch root, is a worker contained, is a review's tool set the requested one, what is charged to whom | 2 runs; every profile name, and the custom mode, with one argument off at a time, and 3 pairs that meet in a directory; 4 places of 5 kinds; stop at 3 units, 2 per directory, 2 commands per run; up to 1 unit saved by a step of the manager (`MaxSaved`), 1 removed under a watchdog (`MaxRemoved`) |
| `PolicyDiff` | can a widening be hidden or go unconfirmed | 3 starting policies with 3 revisions, or another preset and 2; 2 destinations, 2 paths, 2 rule ids (a root's name and another), 3 command contents, one bounded limit, 1 of everything else (server, tool of it, root ...) |

**Why the bounds are enough to meet the interesting cases.** A clash needs two
records, and a third call is a writer that comes between; the eight requests of
`MCIntentStore` hold a pair for each identity rule, with origins omitted and
spelled out, ordinals derived and explicit, and two months. A reader
is wrong if a month it read early and one it read late do not belong together,
which takes two files, two calls and one read; a glued line takes one writer that
is rolled back and one that writes over it, two calls as well. Stale metadata needs
two managers, and a later command that meets what they left is the third.
In `AttemptThreads` a manifest and a result are two lines; log limit 2 lets the
stderr thread take what the second line would need, and log limit 0 makes every
line and chunk one that does not fit. Reading in parts, and data left
unread at exit, need two chunks in `AgyProvider`. A path changed and restored, or
staged and committed, is two changes in `Reconcile`. In `PolicyDiff` a widening
beside a narrowing is two revisions, in three sections it is three; a root whose
deny rule gives its name to a path's rule, or the other way round, takes one
revision to set up and one or two to happen next to a narrowing; a new server
where all tools are allowed is as many, a redefined command is two: each of the
kinds in `Unseen` occurs in this run. A race for a
directory has two runs, a directory inside the state root, beside it, in another
run's directory or without a parent, and a second command of the loser; a
threshold is met, missed and passed with limits of 3, 4 and 5 units against logs
of 0 to 2; one unit saved by the manager fills the room an admission just below
the threshold leaves, and one unit removed after a walk, or behind it, is what
separates the watchdog's word from the size at the end.
Deadlock is not checked: behaviours end when their bounded calls, commands,
lines or revisions are used up, and a finished attempt or run stops by design.
Waiting for ever is excluded by `LockIsReleased`, `AttemptEnds` and `RunEnds`.

**Fairness.** `IntentReaders`: each running writer takes its next step (the lock
is polled up to a deadline, the rest is straight-line code); it may still crash,
and a reader need not read.
`AttemptThreads`: each of the three threads runs, and a SIGKILL that was sent
ends the child. `AgyProvider`: the loop runs, the deadline and the grace period
pass, a SIGKILL works. Nothing is assumed of children or descendants; where a
property needs them to end, it says so itself (`ChildrenEnd`, `RunEnds`).

## 4. What is proved

Each theorem holds for every value of the constants that the assumptions named in
the modules allow: any number of processes, calls, attempts, lines, paths, bytes
and faults. The bounds of the runs are parameters of the theorems.

| Theorem | Says |
|---|---|
| `TypeCorrect`, `LockExcludes`, `IndexStaysFresh`, `IdentitiesAreUnique` | `TypeOK`, `MutualExclusion`, `IndexFresh`, `StoreConsistent` hold always |
| `FilesOnlyGrow` | `AppendOnly` |
| `AcknowledgedStays` | `AcknowledgedIsDurable` |
| `StoreImplementsLog`, `PromiseIsConsistent` | `Spec => LogSpec`; and what `LogSpec` allows never clashes |
| `FlagsAreTrue` | `OrphanFlagTrue` |
| `RetriesAreSafe`, `FailuresAreClean` | `OneRecordPerCall`, `FailedLeavesNothing` |
| `ReadersAccept`, `ReportsAreBetween`, `ReaderTypeCorrect` | `RejectsOnlyGlued`, `ReportIsBetween`, `ReaderTypeOK` |
| `MintedIdsIncrease` | ids of one process sort in the order they were issued |
| `LifecycleTypeCorrect`, `DirectoriesAreExclusive`, `DeliveredIsSuccess` | `TypeOK`, `AttemptDirIsExclusive`, `OnlySuccessIsDelivered` |
| `LiveChildIsOnRecord`, `RecordsStay`, `OutputIsKept` | `LiveChildIsRecorded`, `EvidenceIsKept`, `OutputReplacedOnRequest` |
| `AttemptTypeCorrect`, `LogsStayInBudget`, `ManifestComesFirst`, `EvidenceIsWhole`, `FinalSampleCatches`, `RecordsAgree` | `TypeOK`, `LogsShareOneBudget`, `ManifestBeforeResult`, `MaterializableIsWhole`, `OverBudgetIsCaught`, `StoryIsOne` |
| `FingerprintsAreTyped`, `NothingUndeclaredPasses`, `OwnedWorkPasses` | `TypeOK`, `UndeclaredChangeIsFound`, `OwnedWorkReconciles` |
| `LaunchTypeCorrect`, `ScratchRootsAreOwned`, `WorkersAreContained`, `AcceptedUsesRequestedTools` | `TypeOK`, `ScratchIsOwned`, `WorkerIsContained`, `AcceptedIsRequested` |
| `BudgetVerdictsAreTrue`, `ReservedLogsFit` | `BudgetVerdictIsTrue`, `LogsFit` |
| `ProviderTypeCorrect`, `SuccessfulRunsAreWhole` | `TypeOK`, `SuccessIsWhole` |
| `PolicyTypeCorrect`, `ExpansionsShow`, `ExpansionsAreConfirmed`, `ComparisonsMirror` | `TypeOK`, `NoHiddenExpansion`, `ExpansionIsConfirmed`, `ReverseIsMirror` |

**Record store.** The argument is a chain of inductive invariants, each the one
before and what it needs more:

    StoreInv      == TypeOK /\ MutualExclusion /\ IndexFresh /\ RecordFits /\ StoreConsistent
    DurabilityInv == StoreInv /\ Bounded /\ SyncsItsLine /\ ReleasesDurable /\ AcknowledgedIsDurable
    LogInv        == DurabilityInv /\ RecordReady
    CallsInv      == LogInv /\ CallNumbers /\ (\A w \in Writers : CallInv(w)) /\ OneRecordPerCall
    ReaderInv     == LogInv /\ RecordsValid /\ what was read is Straight or Covers /\ ...

`StoreConsistent` alone is not inductive: an append keeps it only if the record
was checked against the very store it goes to. `RecordFits` says the record
clashes with nothing in the writer's index, `IndexFresh` that this index is the
store, and `MutualExclusion` is why it still is after a step of another process.
Acknowledging needs that the line just written is the last of its file
(`SyncsItsLine`), so that the `fsync` covers it, and that nothing covered is taken
back (`Bounded`). A retry is safe because, as long as a call is uncertain, the
only line it can have is under the id it is retried with (`CallInv`). For a reader,
what it has of a file is the file's beginning up to where it is (`Straight`), as
long as it glued nothing: two records of it that clashed would clash in the
store. Once it glued, what it has still begins with all that was there when it
began (`Covers`), because a text that ends inside a torn line has every complete
line before it; hence a report misses nothing in either case.

The refinement maps `log` to the set of records in all files and `acked` to the
history of acknowledged ids: a whole write is `Add`, the release of a call that
went well is `Acknowledge`, a power loss is `Lose`, and every other step changes
nothing the log can see. `LogInv` is what makes them steps of the log: `RecordReady`
says the record about to be written is valid and its orphan flag true of the
writer's index.

**Run.** `LifeInv` carries what every copy of the metadata says, wherever it is,
on disk or in a manager (`CopiesSound`: attempts are numbered in order, and what
is called materializable or delivered met every criterion), because an
overlapping manager can put any copy back. For the properties of managers that
take turns, `TurnsInv` adds that the copy of the one at work is the metadata but
for its own unfinished attempt (`InStep`).

**Attempt.** `BudgetInv` says what the logs hold was taken from the budget.
`WholeInv` says that what was written is in the stream or still in the pipe, how
the loop can have ended, that the child is gone before anything is judged and the
last sample came after that, and that nothing a verdict rests on changes later.
`StoryInv` adds when the two other threads are gone. The flags are read three
times, for the verdict, for the record and for the exit code; the three reads
agree because a join that was not given up means that the thread which could
change the flag has ended. Finding 3 is what happens when a join is given up.

**Reconciliation.** A fingerprint is a function of the repository
(`FingerprintIn`); `ReadInv` says the final one is that function of one state,
once nothing of the worker runs. `EntriesTellContents` is the point: equal HEAD,
index and entries mean equal content, since a path with no entry is clean or
absent or, if ignored, has an entry of the other kind.

**Launch.** Three invariants, beside the types (`TypeInv`).

- `OwnInv`, who owns a directory. A run that asks for a directory its own run
  directory lies in, or one that held files, never gets past the listing: the
  listing finds those files (`Kept`; `FilledStay` says they stay). Of two runs
  that ask for one directory and did not meet while resolving it, where one is,
  the other is not: not with its scratch root, not with its marker, not on the
  way to write one (`Apart`). Without that last part the invariant is not
  inductive, since between `Create` and `Fill` no marker names the writer.
- `StartInv`, what a command past its arguments had: good ones, and the scratch
  directory if its profile uses one. That the tables of profiles, policy modes
  and sandbox modes agree for any such request is a lemma of its own
  (`ProfilesAgree`).
- `BudgetInv`, the threshold of a worker is the stop less its history, as long as
  nobody changed that history, and a size found by the watchdog is one the watched
  roots still have or have lost since: each unit removed from them is counted in
  `removed` (`LossIsWatched`). The verdict is true because growth and history
  add up to all generated state (`SizesAdd`), whichever of three places the
  scratch root has (`RootCases`): outside the state root, elsewhere in it, or in
  the run's own directory, where having none is counted.

`LogInv`, above these, is the headroom: an admission leaves `room` for at least one
unit beyond the log, and from then on what there is, what was removed, what may
still be logged and that room stay within the threshold and what the manager
saved. Every unit written is charged once (`GrowthIsCharged`), whether the worker
logs it or the manager saves it (`PutIsCharged`); what is removed is never charged
(`LossIsCredited`). So an attempt that only logs reaches its threshold only
through what its manager saved.

**Provider.** `PipeInv`: a pipe is let go at its end of file only, nobody writes
to it afterwards (`EofStays`), and as long as there is no reason to stop what was
read is logged. So a run that ends without such a reason has logged all that was
sent.

**Policy comparison.** The statements about a report hold for any two typed
policies; the behaviours only supply the types. `Sections` splits the atoms of a
policy by the section they come from. If no atom is broader and no question is
open, then no section widened what it governs but for what `Unseen` names: one
lemma each for files, tools, commands, network, host and sandbox
(`NarrowingKeepsFiles` and so on), which together are `NarrowingKeepsPowers`. A
report of exact had equal authorities besides, and so not even that
(`SameAuthority`). `ExpansionsShow` and `ExpansionsAreConfirmed` follow from how
the classification reads those facts; `ComparisonsMirror` because each section decides its two directions alike
(`DifferenceMirrors`). For the types one has to show that what the normal form,
the presets and `explain` write is again a document the schema accepts.

**Assumptions.** They are named in the modules, and the runs evaluate them.
`RecordsAssumption`, `ConstantsAssumption`, `ReadersAssumption`,
`LifecycleAssumption`, `AttemptAssumption`, `ProviderAssumption` and
`ReconcileAssumption` only say that the marks for absence (`None`, `Absent`,
`Foreign`) are no values, that requests and lines are well formed, and that bounds
are natural numbers. `LaunchAssumption` says besides that the places callers name
are paths (sequences), that there are finitely many runs and places, and that no
marker text (`none`, `partial`) is a session id. `PolicyAssumption` says
that there is something of each kind to select: one of the starting policies
(`Selected`) does, and the schema refuses a section in mode `selected` that names
nothing (`schema.py:523`, 560, 613); and that `OtherId` is no root's name, which
is what it stands for.
`MintedIdsIncrease` takes its two bounds as hypotheses; `Ulid` has no run.

**Only model-checked**: the six liveness properties (`LockIsReleased`;
`ManifestFailureStopsChild`, `OverBudgetStopsChild`, `AttemptEnds`;
`TimeoutStopsProvider`, `RunEnds`), since the prover reaches neither liveness
under fairness nor ENABLED. The other properties of the passing runs are
theorems. The three properties of the findings are refuted, not proved. The type
invariants of `AttemptThreads`, `AgyProvider`, `PolicyDiff` and `Launch` are
proved and in no run.

## 5. Findings

1. **A partial line can wedge the store** (`IntentStoreWedge`). SPEC.md says a
   short append is rolled back so that a partial line cannot wedge the store. The
   rollback is a step of its own: a writer that dies before it, or whose
   `ftruncate` fails, leaves the line and every later write is refused. The
   README of intent-writer says of such lines "The writer will not create one — a
   short append is rolled back" (line 148).
2. **Exit 0 without delivery** (`RunLifecycleExit`). The exit code tests
   `artifact.attempt`, a field of the run: after attempt 1 delivered, attempt 2
   whose delivery is refused exits 0.
3. **Truncation after the verdict** (`AttemptThreadsTruncation`). The stderr
   thread is joined for two seconds only; if it meets the log limit between the
   verdict and the record, the record says truncated and materializable.

Also seen. The first two disagree with what the repository says; they have no run
of their own, but the models contain them and properties of passing runs have to
name them as their exceptions, and fail without these.

- A reader takes its lines in several `os.read` calls without the lock
  (`intent_writer.py:838`). A torn line at the end of one call may be rolled back
  and written over before the next; the reader then has the beginning of one line
  and the end of another, ends in a newline, and rejects the line as malformed or
  counts a record the store never held (`ReadOn`). SPEC.md:50-52 and the README
  of intent-writer (lines 147-151) say that a store whose last line lacks its
  newline is refused on read. `RejectsOnlyGlued` and `ReportIsBetween` say that
  this is the only way.
- `compare_policies` looks at the authority hash only when no atom changed
  (`diff.py:224`). Beside a narrowing elsewhere, three kinds of widening are
  therefore reported as narrower and not asked about (`Unseen`): a deny rule of a
  root that is dropped while a path's rule takes the root's name as its
  `rule_id`, or the other way round, since both give the same atom
  (`schema.py:458` and 484; `test_policy_diff.py:123`,
  `test_deny_removal_broadens`, says that removing a deny broadens); the tools of
  a new MCP server with `mcp.mode` unrestricted; and a redefined command that may
  run outside the sandbox with `commands.mode` unrestricted.

Stated by no document and so by no run:

- An admission leaves room for the logs and nothing else; the metadata, its
  rewrites and the baseline (`claude_delegate.py:1294`, 437, 450, 523, 695) land
  in the watched run directory afterwards. An attempt admitted just below the
  threshold may be stopped for its size although its worker only logged (`LogsFit`
  names this exception).
- Once the watchdog found too much, no final size is taken
  (`claude_delegate.py:533`, 608): a worker may be over budget for a peak it has
  since removed (`BudgetVerdictIsTrue` allows it to that extent).

- A manager that ends between the mkdir of an attempt directory and the metadata
  write leaves a run on which every later `resume` fails (`AttemptRefused` for
  ever).
- Two overlapping managers of one run lose each other's attempt records:
  `EvidenceIsKept` and `OutputReplacedOnRequest` are stated for managers that
  take turns, crashes included.
- A KeyboardInterrupt stops the reading of stdout and then waits without a
  timeout: a child that goes on writing fills the pipe and both wait.
- A descendant that holds a pipe keeps `run_provider` in its loop after the
  provider was stopped at its timeout (`agy_delegate.py:183`): `RunEnds` assumes
  that descendants end.
- Two runs that resolve one scratch directory at the same moment both adopt it
  (`List`, `Claim` and `Create` are separate, and `write_text` replaces a marker);
  `ScratchIsOwned` excludes just these.
- A run refused after its directory was made leaves that directory, and its
  session id cannot be used before somebody removes it (`Repeat`).
- `fixed_bytes` is measured once: what other runs add to the state root during an
  attempt is not seen by it. Each admission reserves its own headroom and knows
  nothing of that of another run.
- `resume` looks neither at the scratch marker again nor at whether the MCP
  configuration or an executable is still the one that was admitted.
- The comment at `runtime_policy.py:233` says the policy hash binds no run-local
  paths; the settings that are hashed name the scratch directory and the project.
- A reader may report an outcome whose intent it does not know, because it read
  the intent's month first, and may count a record that a later power loss takes.

## 6. What the models leave out

- IntentStore: which fields a record has beyond those the identity rules read
  (`valid` is the verdict on them), alias tables, permissions; ids of different
  processes are taken as different (80 random bits); an fsynced line is durable
  also in a file that is new (its directory entry is not fsynced by the code).
- Ulid: the encoding, which keeps the order of the pairs it encodes.
- IntentReaders: the counting itself; a line glued from more than two pieces takes
  its fields from two of them; a line that another process is in the midst of
  writing counts as absent until it is complete; a text cut inside a value is only
  valid or not; the place of the ordinal among the keys is that of an intent.
- RunLifecycle: the refusals before anything is written are one action
  (`RunRefused`, in detail in `Launch`); what is inside an attempt is an outcome.
- AttemptThreads: a line and a chunk are one unit of budget each; the process
  group is the child and one helper; the verdict of reconciliation is free.
- AgyProvider: the loop's admission check and the reports after it.
- Reconcile: refs, config and hooks (compared like HEAD), index flags and modes;
  HEAD is compared by its tree, so an empty commit is not a change; submodules.
- Profiles: two pinned and three denied tools stand for ten and eight; the hash of
  the policy, the child's environment, the probing of the CLI's help; a changed
  `profile_version` on resume; the content of an MCP configuration.
- Launch: the per-file limit of the worker (RLIMIT_FSIZE), symbolic links in
  paths and walks, runs killed between their metadata and their worker
  and then resumed (a killed run is only repeated here; `RunLifecycle` resumes
  it); the temporary copy `atomic_json` makes beside the file it replaces, and the
  bytes of the ownership marker; a worker removes files of its own scratch root
  only; the final walk is one moment, the watchdog's walks are not.
- PolicyDiff: one of three capability sections, one of six resources, one of two
  file operations; server names that begin with another server's; read rules; cache impact,
  notices, presentation, hashes; validation of types and names; which path a root
  is bound to (a context change, not an authority change, in the code).
- Not modelled: `explain.py` and the rendering of reports, status, inspect and
  doctor (read-only), the argument checks and the model listing of
  `agy_delegate.py`, the field validation of intent records (one record, no
  state), CI.

## 7. Plan

Done, in the order of importance: record store, its invariants and refinement;
readers; run lifecycle; attempt threads; reconciliation; provider loop; profiles,
scratch and budget; policy comparison with presets; and the proof of every safety
property of each.

Next:

1. The step from `AttemptThreads` to `RunLifecycle` as a refinement: the verdict of
   the one as `EndGood` or `EndBad` of the other.
2. Refs, config and hooks in `Reconcile` with what Git changes on its own.
