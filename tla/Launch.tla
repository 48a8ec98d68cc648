------------------------------- MODULE Launch -------------------------------
(***************************************************************************)
(* How delegate-to-claude gets a worker running, and how its disk use is   *)
(* bounded: command_run and command_resume from their arguments to the end *)
(* of the attempt, as far as the capability profile, the scratch directory *)
(* and the generated-state budget are concerned.                           *)
(*                                                                         *)
(* Several runs share one state root and may ask for the same scratch      *)
(* directory.  resolve_scratch_dir looks, creates, lists, and writes its   *)
(* marker in separate steps, and the sizes of the tree are read in two     *)
(* walks; other runs go on between any two of them.                        *)
(*                                                                         *)
(* A directory is its path, a sequence of names; a marker file says which  *)
(* run owns the directory it is in.                                        *)
(***************************************************************************)
EXTENDS Profiles, SequencesExt, FiniteSetsExt

CONSTANTS Runs,          \* session ids
          Scenarios,     \* what the runs are asked for: a set of [Runs -> request or None]
          Places,        \* scratch directories that callers name
          PlaceKinds,    \* what a caller's directory may be at the start
          Stop,          \* STOP_BYTES: 192 MiB, in units
          MaxBytes,      \* bound: units a directory holds
          MaxSaved,      \* bound: units the manager's own files add in one step
          MaxRemoved,    \* bound: units removed below what one worker's watchdog sees
          MaxAttempts    \* bound: attempts of a run and repetitions of it

State == <<"state">>
RunDir(r) == <<"state", "runs", r>>
DefaultScratch(r) == RunDir(r) \o <<"scratch">>
Project == <<"project">>

Dirs == {State, Project} \union {RunDir(r) : r \in Runs}
        \union {DefaultScratch(r) : r \in Runs} \union Places

Below(d, root) == IsPrefix(root, d)

ASSUME LaunchAssumption ==
  /\ {None, "none", "partial"} \intersect Runs = {}
  /\ None \notin Dirs
  /\ IsFiniteSet(Runs) /\ IsFiniteSet(Places)
  /\ \A p \in Places : p \in Seq(Range(p))
  /\ PlaceKinds \subseteq {"absent", "empty", "filled", "public", "file"}
  /\ Stop \in Nat /\ MaxBytes \in Nat \ {0} /\ MaxAttempts \in Nat \ {0}
  /\ MaxSaved \in Nat \ {0} /\ MaxRemoved \in Nat
  /\ \A requests \in Scenarios : \A r \in Runs :
       LET q == requests[r] IN
         q # None => q.scratch \in Places \union {None} /\ q.log \in Nat /\ q.limit \in Nat

VARIABLES req,      \* per run: the request, None for a run nobody starts
          dirs,     \* the directories that exist
          bytes,    \* [Dirs -> Nat]: what is directly in a directory
          marker,   \* [Dirs -> runs, "none", "partial"]: its ownership marker
          sort,     \* [Places -> PlaceKinds]: what was there before any run
          pc, listed, scratch, scope, result, \* per run: the command in progress
          attempts, \* per run: commands begun
          raced,    \* history: runs that met another one while resolving scratch
          moved,    \* history: runs whose unwatched state changed since its measure
          crowded,  \* history: runs beside which others wrote since their admission
          room,     \* history, per run: units its admission left free beyond the logs
          saved     \* history, per run: units its manager saved since then

tree == <<dirs, bytes, marker>>
admission == <<crowded, room, saved>>
history == <<raced, moved, admission>>
vars == <<req, tree, sort, pc, listed, scratch, scope, result, attempts, history>>

Resolving == {"look", "make", "list", "claim", "create", "fill"}

Pcs == Resolving \union {"start", "policy", "preflight", "scope", "running",
                         "ended", "refused", "died"}

Results == {"none", "accepted", "manifest", "budget", "failed"}

-----------------------------------------------------------------------------
(* Sizes.                                                                  *)

\* Bug: a root inside another one stays, and its files are counted twice.
DedupeRootsKept(roots) == roots

DedupeRoots(roots) == {d \in roots : \A o \in roots : o # d => ~Below(d, o)}

\* What a walk over a root counts, unit by unit.
Units(root, excluded) ==
  {u \in Dirs \X (1 .. MaxBytes) :
     u[2] <= bytes[u[1]] /\ Below(u[1], root) /\ \A e \in excluded : ~Below(u[1], e)}

DirectorySize(root, excluded) == Cardinality(Units(root, excluded))

\* The sum over the roots: what two of them hold is counted twice.
AggregateSize(roots) ==
  Cardinality(UNION {{root} \X Units(root, {}) : root \in DedupeRoots(roots)})

StopThreshold(limit) == Min({(limit * 4) \div 5, Stop})

ScratchOf(r) == {scratch[r]} \ {None}

BudgetRoots(r) == {State} \union ScratchOf(r)

\* What may grow during an attempt, and is sampled while it runs.
DynamicRoots(r) == DedupeRoots({RunDir(r)} \union ScratchOf(r))

\* Bug: a scratch root in the state root is history and growth at once.
FixedBytesOfAll(r) == DirectorySize(State, {RunDir(r)})

\* What is history for it: the state root without the dynamic roots in it.
FixedBytes(r) == DirectorySize(State, {d \in DynamicRoots(r) : Below(d, State)})

DynamicBytes(r) == AggregateSize(DynamicRoots(r))

-----------------------------------------------------------------------------
UsesScratch(q) == q.profile # None /\ (DefinitionOf(q).scratchCwd \/ q.scratch # None)

Target(r) == IF req[r].scratch = None THEN DefaultScratch(r) ELSE req[r].scratch

\* The kinds of the directories somebody asks for; run directories, and what
\* is in them, start absent.
InitialSorts ==
  {f \in [Places -> PlaceKinds] :
     \A p \in Places : f[p] # "absent" =>
       /\ \E r \in Runs : req[r] # None /\ req[r].scratch = p
       /\ \A r \in Runs : ~Below(p, RunDir(r))}

Init ==
  /\ req \in Scenarios
  /\ sort \in InitialSorts
  /\ dirs = {State, Project} \union {p \in Places : sort[p] \in {"empty", "filled", "public"}}
  /\ bytes = [d \in Dirs |-> IF d \in Places /\ sort[d] = "filled" THEN 1 ELSE 0]
  /\ marker = [d \in Dirs |-> "none"]
  /\ pc = [r \in Runs |-> "start"]
  /\ listed = [r \in Runs |-> FALSE]
  /\ scratch = [r \in Runs |-> None]
  /\ scope = [r \in Runs |-> None]
  /\ result = [r \in Runs |-> "none"]
  /\ attempts = [r \in Runs |-> 0]
  /\ raced = {} /\ moved = {} /\ crowded = {}
  /\ room = [r \in Runs |-> 0] /\ saved = [r \in Runs |-> 0]

Goto(r, step) == pc' = [pc EXCEPT ![r] = step]

Rivals(r) == {s \in Runs \ {r} : pc[s] \in Resolving /\ Target(s) = Target(r)}

\* command_run refuses: nothing was made yet.
Refuse(r) ==
  /\ pc[r] = "start" /\ req[r] # None
  /\ ~ArgumentsAccepted(req[r])
  /\ Goto(r, "refused")
  /\ UNCHANGED <<req, tree, sort, listed, scratch, scope, result, attempts, history>>

\* It accepts the arguments and makes the run directory.
Begin(r) ==
  /\ pc[r] = "start" /\ req[r] # None
  /\ ArgumentsAccepted(req[r])
  /\ RunDir(r) \notin dirs
  /\ dirs' = dirs \union {RunDir(r)}
  /\ attempts' = [attempts EXCEPT ![r] = @ + 1]
  /\ IF UsesScratch(req[r])
     THEN /\ Goto(r, "look")
          /\ raced' = IF Rivals(r) = {} THEN raced ELSE raced \union Rivals(r) \union {r}
     ELSE Goto(r, "policy") /\ UNCHANGED raced
  /\ UNCHANGED <<req, bytes, marker, sort, listed, scratch, scope, result, moved, admission>>

-----------------------------------------------------------------------------
(* resolve_scratch_dir.                                                    *)

ParentExists(d) == Len(d) = 1 \/ Front(d) \in dirs

\* Is there something, and is it a directory nobody else can enter?
Look(r) ==
  LET d == Target(r)
      unfit == d \in Places /\ sort[d] \in {"file", "public"}
  IN /\ pc[r] = "look"
     /\ Goto(r, CASE unfit -> "refused"
                  [] ~unfit /\ d \in dirs -> "list"
                  [] OTHER -> IF ParentExists(d) THEN "make" ELSE "refused")
     /\ UNCHANGED <<req, tree, sort, listed, scratch, scope, result, attempts, history>>

\* mkdir: if another run was faster, FileExistsError ends this one.
Make(r) ==
  /\ pc[r] = "make"
  /\ dirs' = dirs \union {Target(r)}
  /\ Goto(r, IF Target(r) \in dirs THEN "died" ELSE "list")
  /\ UNCHANGED <<req, bytes, marker, sort, listed, scratch, scope, result, attempts, history>>

\* Are there entries besides the marker?
List(r) ==
  /\ pc[r] = "list"
  /\ listed' = [listed EXCEPT ![r] = \/ bytes[Target(r)] > 0
                                     \/ \E d \in dirs \ {Target(r)} : Below(d, Target(r))]
  /\ Goto(r, "claim")
  /\ UNCHANGED <<req, tree, sort, scratch, scope, result, attempts, history>>

\* Bug: any marker of this program will do.
ClaimAny(r) ==
  /\ pc[r] = "claim"
  /\ IF marker[Target(r)] \in Runs
     THEN Goto(r, "policy") /\ scratch' = [scratch EXCEPT ![r] = Target(r)]
     ELSE /\ Goto(r, IF marker[Target(r)] = "none" /\ ~listed[r] THEN "create" ELSE "refused")
          /\ UNCHANGED scratch
  /\ UNCHANGED <<req, tree, sort, listed, scope, result, attempts, history>>

\* A marker must be this run's, and whole; without one the directory must be empty.
Claim(r) ==
  /\ pc[r] = "claim"
  /\ IF marker[Target(r)] = r
     THEN Goto(r, "policy") /\ scratch' = [scratch EXCEPT ![r] = Target(r)]
     ELSE /\ Goto(r, IF marker[Target(r)] = "none" /\ ~listed[r] THEN "create" ELSE "refused")
          /\ UNCHANGED scratch
  /\ UNCHANGED <<req, tree, sort, listed, scope, result, attempts, history>>

\* write_text opens the marker, emptying whatever is there by now ...
Create(r) ==
  /\ pc[r] = "create"
  /\ marker' = [marker EXCEPT ![Target(r)] = "partial"]
  /\ Goto(r, "fill")
  /\ UNCHANGED <<req, dirs, bytes, sort, listed, scratch, scope, result, attempts, history>>

\* ... and writes it.
Fill(r) ==
  /\ pc[r] = "fill"
  /\ marker' = [marker EXCEPT ![Target(r)] = r]
  /\ scratch' = [scratch EXCEPT ![r] = Target(r)]
  /\ Goto(r, "policy")
  /\ UNCHANGED <<req, dirs, bytes, sort, listed, scope, result, attempts, history>>

-----------------------------------------------------------------------------
(* What is written, and for whom that is news.                             *)

\* n units more in a directory.
Put(d, n) ==
  /\ bytes[d] + n <= MaxBytes
  /\ bytes' = [bytes EXCEPT ![d] = @ + n]

\* Runs other than r to which n units more in d are news.
Crowded(r, d, n) ==
  {s \in Runs \ {r} :
     n > 0 /\ pc[s] \in {"scope", "running"} /\ \E root \in BudgetRoots(s) : Below(d, root)}

\* Those of them whose worker runs and that do not watch d.
Moved(r, d, n) ==
  {s \in Crowded(r, d, n) : pc[s] = "running" /\ \A root \in DynamicRoots(s) : ~Below(d, root)}

\* The manager saves files of its own in the run directory.
Save(r, n) == Put(RunDir(r), n)

\* What build_runtime_policy needs is saved first, an empty MCP configuration if
\* none is declared, and its settings after it: there is something to be listed.
Policy(r) ==
  LET builds == PolicyBuilds(req[r])
      least == IF builds \/ req[r].mcp = << >> THEN 1 ELSE 0
  IN /\ pc[r] = "policy"
     \* Refused, the run directory and its scratch stay behind.
     /\ Goto(r, IF builds THEN "preflight" ELSE "refused")
     /\ \E n \in least .. MaxSaved :
          /\ Save(r, n)
          /\ crowded' = crowded \union Crowded(r, RunDir(r), n)
          /\ moved' = moved \union Moved(r, RunDir(r), n)
     /\ UNCHANGED <<req, dirs, marker, sort, listed, scratch, scope, result, attempts, raced, room, saved>>

\* Bug: equality is admitted.
AdmittedAtLimit(r) == AggregateSize(BudgetRoots(r)) + req[r].log <= StopThreshold(req[r].limit)

Admitted(r) == AggregateSize(BudgetRoots(r)) + req[r].log < StopThreshold(req[r].limit)

Room(r) == StopThreshold(req[r].limit) - AggregateSize(BudgetRoots(r)) - req[r].log

\* preflight: the log headroom is reserved.  A new run writes its metadata after it.
Preflight(r) ==
  /\ pc[r] = "preflight"
  /\ IF Admitted(r)
     THEN /\ Goto(r, "scope")
          /\ room' = [room EXCEPT ![r] = Room(r)]
          /\ \E n \in 0 .. (IF result[r] = "none" THEN MaxSaved ELSE 0) :
               /\ Save(r, n)
               /\ saved' = [saved EXCEPT ![r] = n]
               /\ crowded' = (crowded \ {r}) \union Crowded(r, RunDir(r), n)
               /\ moved' = moved \union Moved(r, RunDir(r), n)
     ELSE /\ Goto(r, IF result[r] = "none" THEN "refused" ELSE "ended")
          /\ UNCHANGED <<bytes, admission, moved>>
  /\ UNCHANGED <<req, dirs, marker, sort, listed, scratch, scope, result, attempts, raced>>

\* execute_attempt: the attempt and the baseline are saved, execution_watch_scope
\* measures, the worker is started, and that is saved.
Scope(r) ==
  LET threshold == StopThreshold(req[r].limit) - FixedBytes(r)
  IN /\ pc[r] = "scope"
     /\ \E n \in 0 .. MaxSaved :
          /\ Save(r, n)
          /\ saved' = [saved EXCEPT ![r] = @ + n]
          /\ crowded' = crowded \union Crowded(r, RunDir(r), n)
          /\ moved' = (moved \ {r}) \union Moved(r, RunDir(r), n)
     /\ IF threshold <= 0
        THEN /\ result' = [result EXCEPT ![r] = "failed"]
             /\ Goto(r, "ended")
             /\ UNCHANGED scope
        ELSE /\ scope' = [scope EXCEPT ![r] = [threshold |-> threshold, logs |-> 0, wrote |-> FALSE,
                                               exceeded |-> FALSE, removed |-> 0]]
             /\ Goto(r, "running")
             /\ UNCHANGED result
     /\ UNCHANGED <<req, dirs, marker, sort, listed, scratch, attempts, raced, room>>

\* The worker of r adds a unit to d.
Grow(r, d) ==
  /\ Put(d, 1)
  /\ crowded' = crowded \union Crowded(r, d, 1)
  /\ moved' = moved \union Moved(r, d, 1)
  /\ UNCHANGED <<req, dirs, marker, sort, pc, listed, scratch, result, attempts, raced, room, saved>>

\* The streams of the worker, within the log budget of the attempt.
Log(r) ==
  /\ pc[r] = "running"
  /\ scope[r].logs < req[r].log
  /\ scope' = [scope EXCEPT ![r].logs = @ + 1]
  /\ Grow(r, RunDir(r))

\* The worker writes into its scratch root ...
Write(r) ==
  /\ pc[r] = "running" /\ scratch[r] # None
  /\ scope' = [scope EXCEPT ![r].wrote = TRUE]
  /\ Grow(r, scratch[r])

\* Runs whose watchdog walks over d.
Watching(d) == {s \in Runs : pc[s] = "running" /\ \E root \in DynamicRoots(s) : Below(d, root)}

\* ... and removes what is there: the scratch root is its TMPDIR, too.
Delete(r) ==
  LET d == scratch[r]
  IN /\ pc[r] = "running" /\ d # None
     /\ bytes[d] > 0
     /\ \A s \in Watching(d) : scope[s].removed < MaxRemoved
     /\ bytes' = [bytes EXCEPT ![d] = @ - 1]
     /\ scope' = [s \in Runs |-> IF s \in Watching(d) THEN [scope[s] EXCEPT !.removed = @ + 1]
                                 ELSE scope[s]]
     /\ moved' = moved \union Moved(r, d, 1)
     /\ UNCHANGED <<req, dirs, marker, sort, pc, listed, scratch, result, attempts, raced, admission>>

\* The watchdog finds too much, for good.  Its walk takes time: it may count all
\* there is at its end and all that was removed behind it.
Sample(r) ==
  /\ pc[r] = "running"
  /\ ~scope[r].exceeded
  /\ DynamicBytes(r) + scope[r].removed >= scope[r].threshold
  /\ scope' = [scope EXCEPT ![r].exceeded = TRUE]
  /\ UNCHANGED <<req, tree, sort, pc, listed, scratch, result, attempts, history>>

\* The watchdog's word stands; without it the final walk decides.
OverBudget(r) == scope[r].exceeded \/ DynamicBytes(r) >= scope[r].threshold

ManifestFails(q) ==
  /\ q.profile # None /\ Canonical(q.profile) \in StrictManifestProfiles
  /\ ClassifyManifest(Resolved(q).expected, Resolved(q).denied, q.shows)
       \in {"broader", "unknown"}

\* The verdict of execute_attempt on a worker that ended well, or not.
Verdict(r, well) ==
  IF OverBudget(r) THEN "budget"
  ELSE IF ManifestFails(req[r]) THEN "manifest"
  ELSE IF well THEN "accepted" ELSE "failed"

\* The worker ends, by itself or because it was stopped, and the manager saves
\* what became of it.
End(r) ==
  /\ pc[r] = "running"
  /\ \E well \in BOOLEAN : result' = [result EXCEPT ![r] = Verdict(r, well)]
  /\ Goto(r, "ended")
  /\ scope' = [scope EXCEPT ![r] = None]
  /\ \E n \in 0 .. MaxSaved :
       /\ Save(r, n)
       /\ crowded' = crowded \union Crowded(r, RunDir(r), n)
       /\ moved' = moved \union Moved(r, RunDir(r), n)
  /\ room' = [room EXCEPT ![r] = 0] /\ saved' = [saved EXCEPT ![r] = 0]
  /\ UNCHANGED <<req, dirs, marker, sort, listed, scratch, attempts, raced>>

\* command_resume: neither the scratch root nor its marker is looked at again.
Resume(r) ==
  /\ pc[r] = "ended"
  /\ attempts[r] < MaxAttempts
  /\ attempts' = [attempts EXCEPT ![r] = @ + 1]
  /\ Goto(r, "preflight")
  /\ UNCHANGED <<req, tree, sort, listed, scratch, scope, result, history>>

\* The manager is killed before it has a worker.
Die(r) ==
  /\ pc[r] \in Resolving \union {"policy", "preflight", "scope"}
  /\ result[r] = "none"
  /\ Goto(r, "died")
  /\ UNCHANGED <<req, tree, sort, listed, scratch, scope, result, attempts, history>>

\* The user removes what a command left, if no other run works in there, and
\* starts the session id once more.
Repeat(r) ==
  /\ pc[r] \in {"refused", "died", "ended"} /\ RunDir(r) \in dirs
  /\ {s \in Runs \ {r} : req[s] # None /\ Below(Target(s), RunDir(r))} = {}
  /\ attempts[r] < MaxAttempts
  /\ dirs' = {d \in dirs : ~Below(d, RunDir(r))}
  /\ bytes' = [d \in Dirs |-> IF Below(d, RunDir(r)) THEN 0 ELSE bytes[d]]
  /\ marker' = [d \in Dirs |-> IF Below(d, RunDir(r)) THEN "none" ELSE marker[d]]
  /\ scratch' = [scratch EXCEPT ![r] = None]
  /\ result' = [result EXCEPT ![r] = "none"]
  /\ Goto(r, "start")
  /\ moved' = moved \union {s \in Runs : pc[s] = "running"}
  /\ UNCHANGED <<req, sort, listed, scope, attempts, raced, admission>>

Next ==
  \E r \in Runs :
    \/ Refuse(r) \/ Begin(r)
    \/ Look(r) \/ Make(r) \/ List(r) \/ Claim(r) \/ Create(r) \/ Fill(r)
    \/ Policy(r) \/ Preflight(r) \/ Scope(r)
    \/ Log(r) \/ Write(r) \/ Delete(r) \/ Sample(r) \/ End(r)
    \/ Resume(r) \/ Die(r) \/ Repeat(r)

Spec == Init /\ [][Next]_vars

-----------------------------------------------------------------------------
\* What a manager keeps of a worker's growth, for request q.
Scopes(q) == [threshold : 1 .. Stop, logs : 0 .. q.log, wrote : BOOLEAN,
              exceeded : BOOLEAN, removed : 0 .. MaxRemoved]

TypeOK ==
  /\ dirs \subseteq Dirs
  /\ bytes \in [Dirs -> 0 .. MaxBytes]
  /\ marker \in [Dirs -> Runs \union {"none", "partial"}]
  /\ sort \in [Places -> PlaceKinds]
  /\ pc \in [Runs -> Pcs]
  /\ listed \in [Runs -> BOOLEAN]
  /\ scratch \in [Runs -> Dirs \union {None}]
  /\ \A r \in Runs :
       IF pc[r] = "running"
       THEN scope[r] \in Scopes(req[r])
       ELSE scope[r] = None
  /\ result \in [Runs -> Results]
  /\ attempts \in [Runs -> 0 .. MaxAttempts]
  /\ raced \subseteq Runs /\ moved \subseteq Runs /\ crowded \subseteq Runs
  /\ room \in [Runs -> Nat] /\ saved \in [Runs -> Nat]

\* A scratch root belongs to one run: no two runs work in one directory unless
\* they were resolving it at the same moment, and nobody works in a directory
\* that held files of somebody else or that others can enter
\* (resolve_scratch_dir: "an unowned, non-empty directory is refused rather
\* than adopted or cleared"), through deaths, partial markers and repetitions.
ScratchIsOwned ==
  \A r \in Runs : scratch[r] # None =>
    /\ \A s \in Runs \ {r} : scratch[s] = scratch[r] => {r, s} \subseteq raced
    /\ scratch[r] \in Places => sort[scratch[r]] \in {"absent", "empty"}

\* What a worker of a profile can write is watched or reconciled: with a shell it
\* has a sandbox the CLI knows, it starts in a directory whose growth is watched
\* or in a project whose owned paths are declared, and what its sandbox opens is
\* watched too.  Three tables, of profiles, policy modes and sandbox modes, have
\* to agree for it (command_run: "the writable boundary is scratch").
WorkerIsContained ==
  \A r \in Runs : pc[r] = "running" /\ req[r].profile # None =>
    LET q == req[r]
        s == Settings(q, scratch[r])
        watched == {d \in Dirs : \E root \in DynamicRoots(r) : Below(d, root)}
        cwd == IF DefinitionOf(q).scratchCwd THEN scratch[r] ELSE Project
        writes == Resolved(q).tools \intersect (WriteTools \union {"Bash"})
    IN /\ "Bash" \in Resolved(q).tools => s.sandbox /\ "sandbox" \in q.cli
       /\ s.allowWrite \subseteq watched
       /\ writes # {} => cwd \in watched \/ q.owned

\* A review attempt counts only if its worker showed its tools and had none to
\* call beyond those asked for: a tool taken away with --tool does not come back
\* through a permission rule, a command or a tool of the same server
\* (classify_manifest; expected_startup_tools).
AcceptedIsRequested ==
  \A r \in Runs :
    result[r] = "accepted" /\ req[r].profile # None
      /\ Canonical(req[r].profile) \in StrictManifestProfiles =>
      LET q == req[r]
          requested == IF q.tools = {} THEN DefinitionOf(q).tools ELSE q.tools
      IN q.shows # None /\ q.shows \ Resolved(q).denied \subseteq requested \union q.allowed

Ends(r) == pc[r] = "running" /\ pc'[r] = "ended"

\* The verdict on the budget is about all generated state, wherever the scratch
\* root lies: an attempt at whose end the state root and the scratch root together
\* have reached the threshold is over budget, and one that is over budget has
\* reached it then, or had when the watchdog walked, what was removed meanwhile
\* included; unless other runs changed what it took for history
\* (execution_watch_scope, ScratchWatchdog, execute_attempt's final walk).
BudgetVerdictIsTrue ==
  [][\A r \in Runs : Ends(r) /\ r \notin moved =>
       LET total == AggregateSize(BudgetRoots(r))
           limit == StopThreshold(req[r].limit)
       IN /\ total >= limit => result'[r] = "budget"
          /\ result'[r] = "budget" =>
               \/ total >= limit
               \/ scope[r].exceeded /\ total + scope[r].removed >= limit]_vars

\* The reserved headroom is enough: an attempt that only logs, with no other run
\* writing since its admission, is stopped for its size only if what its own
\* manager saved since then took up the room that was left (preflight).
LogsFit ==
  [][\A r \in Runs : Ends(r) /\ result'[r] = "budget" =>
       \/ scope[r].wrote
       \/ r \in crowded
       \/ saved[r] # 0 /\ saved[r] >= room[r]]_vars
=============================================================================
