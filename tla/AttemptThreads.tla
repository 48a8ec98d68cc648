--------------------------- MODULE AttemptThreads ---------------------------
(***************************************************************************)
(* What happens inside one attempt of delegate-to-claude, between the      *)
(* launch of the child and the verdict: the manager's main thread reads    *)
(* the child's stdout, a thread drains stderr, a watchdog thread samples   *)
(* the generated state and stops the child when it is over budget.  The    *)
(* three share the byte budget of the logs and the variable                *)
(* budget_exceeded_at; main joins the others with a timeout only.          *)
(*                                                                         *)
(* The child may leave a helper behind: a descendant that holds its pipes  *)
(* and goes on writing.  Time is abstract: a timed wait may end at any     *)
(* moment.  One event, and one chunk of stderr, is one unit of log budget. *)
(***************************************************************************)
EXTENDS Naturals, Sequences

CONSTANTS Lines,      \* what the child writes on stdout
          Enforcement,  \* whether the profile enforces the startup manifest
          LogLimit,   \* max_log_bytes, in units
          PipeSize,   \* events (chunks) a pipe holds
          MaxEvents,  \* bound: events written in a behaviour
          MaxChunks   \* bound: chunks of stderr written in a behaviour

\* Lines on stdout: a startup manifest that matches or is broader than asked,
\* a result that is fine or an error, any other event, no JSON, JSON that is no
\* object.
Events == {"init", "broader", "ok", "error", "other", "noise", "scalar"}

ASSUME AttemptAssumption ==
  /\ Lines \subseteq Events /\ Enforcement \subseteq BOOLEAN
  /\ LogLimit \in Nat /\ PipeSize \in Nat \ {0}
  /\ MaxEvents \in Nat /\ MaxChunks \in Nat

VARIABLES enforced,   \* the profile enforces the startup manifest
          child, code,                \* "running" or "dead"; its exit status
          helper, held,               \* "none", "alive" or "exited"; pipes it holds
          out, err,                   \* the pipes
          sent, chunks,               \* events and chunks written so far
          over,                       \* the state is at the watch threshold
          used, truncated,            \* SharedLogBudget
          stored, streamTruncated,    \* stream.jsonl: events kept; the flag
          logged,                     \* stderr.log: chunks kept
          seenInit, manifestFailed, result, interrupted, \* main's locals
          exceeded,                   \* budget_exceeded_at is set
          main, drainer, watchdog,    \* where each thread is
          stop, killed,               \* watchdog.stop() was called; SIGKILL sent
          lateDrainer, lateWatchdog,  \* history: a join timed out
          verdict, record, exit       \* materializable; the record; exit code

childVars == <<child, code, helper, held, sent, chunks, over>>
budgetVars == <<used, truncated, logged>>
localVars == <<stored, streamTruncated, seenInit, manifestFailed, result>>
lateVars == <<lateDrainer, lateWatchdog>>
endVars == <<verdict, record, exit>>
world == <<enforced, childVars, out, err, budgetVars, localVars>>
rest == <<drainer, watchdog, stop, killed, lateVars>>
manager == <<budgetVars, localVars, interrupted, exceeded, main, rest, endVars>>
vars == <<enforced, childVars, out, err, manager>>

MainSteps == {"read", "terminate", "grace", "grace2", "wait", "stop", "joinWatchdog",
              "joinDrainer", "sample", "judge", "record", "conclude", "done", "escaped"}

WatchdogSteps == {"wait", "sampling", "exceed", "terminate", "grace", "grace2", "gone"}

NoRecord == [truncated |-> FALSE, exceeded |-> FALSE]

Init ==
  /\ enforced \in Enforcement
  /\ child = "running" /\ code = 0 /\ helper = "none" /\ held = {}
  /\ out = << >> /\ err = 0 /\ sent = 0 /\ chunks = 0
  /\ over \in BOOLEAN
  /\ used = 0 /\ truncated = FALSE
  /\ stored = 0 /\ streamTruncated = FALSE /\ logged = 0
  /\ seenInit = FALSE /\ manifestFailed = FALSE /\ result = "none"
  /\ interrupted = FALSE /\ exceeded = FALSE
  /\ main = "read" /\ drainer = "drain" /\ watchdog = "wait"
  /\ stop = FALSE /\ killed = FALSE
  /\ lateDrainer = FALSE /\ lateWatchdog = FALSE
  /\ verdict = FALSE /\ record = NoRecord /\ exit = "none"

\* The manager process is there; its daemon threads die with it, and what
\* children do after that concerns no attempt.
Managed == main \notin {"done", "escaped"}

-----------------------------------------------------------------------------
(* The child, its helper and the state they generate.                      *)

Holds(pipe) == child = "running" \/ (helper = "alive" /\ pipe \in held)

WriteOut ==
  /\ Holds("out") /\ Managed
  /\ sent < MaxEvents /\ Len(out) < PipeSize
  /\ \E e \in Lines : out' = Append(out, e)
  /\ sent' = sent + 1
  /\ UNCHANGED <<enforced, child, code, helper, held, chunks, over, err, manager>>

WriteErr ==
  /\ Holds("err") /\ Managed
  /\ chunks < MaxChunks /\ err < PipeSize
  /\ err' = err + 1
  /\ chunks' = chunks + 1
  /\ UNCHANGED <<enforced, child, code, helper, held, sent, over, out, manager>>

\* Files are written or removed, by the child or what it left behind.
ChangeState ==
  /\ child = "running" \/ helper = "alive"
  /\ Managed
  /\ over' = ~over
  /\ UNCHANGED <<enforced, child, code, helper, held, sent, chunks, out, err, manager>>

\* The child ends, by itself or by a signal, perhaps leaving a helper.
ChildExits ==
  /\ child = "running" /\ (Managed \/ killed)
  /\ child' = "dead"
  /\ \E c \in {0, 1} : code' = c /\ (killed => c = 1)
  /\ \/ helper' = "alive" /\ held' \in SUBSET {"out", "err"}
     \/ UNCHANGED <<helper, held>>
  /\ UNCHANGED <<enforced, sent, chunks, over, out, err, manager>>

HelperExits ==
  /\ helper = "alive" /\ Managed
  /\ helper' = "exited"
  /\ UNCHANGED <<enforced, child, code, held, sent, chunks, over, out, err, manager>>

-----------------------------------------------------------------------------
(* The main thread.                                                        *)

\* SharedLogBudget.take(1), under its lock.
Take == used < LogLimit

\* Bug: stdout has a budget of its own, the whole limit.
CopyEventUnshared ==
  /\ used' = used
  /\ truncated' = (truncated \/ stored >= LogLimit)
  /\ stored' = IF stored < LogLimit THEN stored + 1 ELSE stored
  /\ streamTruncated' = (streamTruncated \/ stored >= LogLimit)

\* Bug: what does not fit is dropped without a word.
CopyEventSilently ==
  /\ used' = IF Take THEN used + 1 ELSE used
  /\ stored' = IF Take THEN stored + 1 ELSE stored
  /\ UNCHANGED <<truncated, streamTruncated>>

CopyEvent ==
  /\ used' = IF Take THEN used + 1 ELSE used
  /\ truncated' = (truncated \/ ~Take)
  /\ stored' = IF Take THEN stored + 1 ELSE stored
  /\ streamTruncated' = (streamTruncated \/ ~Take)

\* json.loads raises: the line is skipped.
Ignored(e) == e = "noise"

\* Bug: an event before init is no violation.
ManifestViolationLate(e) == enforced /\ e = "broader"

\* An enforced manifest is broader, or a meaningful event came before init.
ManifestViolation(e) ==
  /\ enforced /\ ~Ignored(e)
  /\ e = "broader" \/ (~seenInit /\ e # "init")

\* One line of stdout: copied, then looked at.  A scalar has no .get: the
\* exception leaves execute_attempt, the child and the record as they are.
ReadEvent ==
  /\ main = "read"
  /\ out # << >>
  /\ out' = Tail(out)
  /\ CopyEvent
  /\ LET e == Head(out) IN
       /\ seenInit' = (seenInit \/ e \in {"init", "broader"})
       /\ manifestFailed' = (e # "scalar" /\ ManifestViolation(e))
       /\ result' = IF e \in {"ok", "error"} /\ ~ManifestViolation(e) THEN e ELSE result
       /\ main' = CASE e = "scalar" -> "escaped"
                    [] e # "scalar" /\ ManifestViolation(e) -> "terminate"
                    [] OTHER -> "read"
  /\ UNCHANGED <<enforced, childVars, err, logged, interrupted, exceeded, rest,
                 endVars>>

\* End of file: nobody holds the pipe any more.
EndOfStream ==
  /\ main = "read"
  /\ out = << >> /\ ~Holds("out")
  /\ main' = "wait"
  /\ UNCHANGED <<world, interrupted, exceeded, rest, endVars>>

\* KeyboardInterrupt in the loop: SIGINT to the child, no more reading.
Interrupt ==
  /\ main \in {"read", "terminate", "grace", "grace2"}
  /\ interrupted' = TRUE
  /\ main' = "wait"
  /\ UNCHANGED <<world, exceeded, rest, endVars>>

\* terminate_child: SIGTERM, a grace period, SIGKILL, a second one.
AfterTermination(step, next) ==
  CASE step = "terminate" -> "grace"
    [] step = "grace" /\ child # "dead" -> "grace2"
    [] OTHER -> next

\* Bug: a child that ignores SIGTERM is left alone.
KillsNever(step) == FALSE

Kills(step) == step = "grace" /\ child = "running"

MainTerminates ==
  /\ main \in {"terminate", "grace", "grace2"}
  /\ killed' = (killed \/ Kills(main))
  /\ main' = AfterTermination(main, "wait")
  /\ UNCHANGED <<world, interrupted, exceeded, drainer, watchdog, stop, lateVars,
                 endVars>>

\* KeyboardInterrupt after the loop leaves execute_attempt.
InterruptEscapes ==
  /\ main \in {"wait", "joinWatchdog", "joinDrainer", "sample", "conclude"}
  /\ main' = "escaped"
  /\ UNCHANGED <<world, interrupted, exceeded, rest, endVars>>

\* process.wait(): no timeout.
ChildReaped ==
  /\ main = "wait"
  /\ child = "dead"
  /\ main' = "stop"
  /\ UNCHANGED <<world, interrupted, exceeded, rest, endVars>>

StopWatchdog ==
  /\ main = "stop"
  /\ stop' = TRUE
  /\ main' = "joinWatchdog"
  /\ UNCHANGED <<world, interrupted, exceeded, drainer, watchdog, killed, lateVars,
                 endVars>>

\* join(timeout=5): the thread is gone, or main goes on without it.
JoinWatchdog ==
  /\ main = "joinWatchdog"
  /\ lateWatchdog' = (watchdog # "gone")
  /\ main' = "joinDrainer"
  /\ UNCHANGED <<world, interrupted, exceeded, drainer, watchdog, stop, killed,
                 lateDrainer, endVars>>

JoinDrainer ==
  /\ main = "joinDrainer"
  /\ lateDrainer' = (drainer # "gone")
  /\ main' = "sample"
  /\ UNCHANGED <<world, interrupted, exceeded, drainer, watchdog, stop, killed,
                 lateWatchdog, endVars>>

\* Bug: what grew after the last sample is not looked at.
OverAtLastUnseen == FALSE

OverAtLast == over

FinalSample ==
  /\ main = "sample"
  /\ exceeded' = (exceeded \/ OverAtLast)
  /\ main' = "judge"
  /\ UNCHANGED <<world, interrupted, rest, endVars>>

-----------------------------------------------------------------------------
(* The verdict: three steps, and the late threads may run between them.    *)

ManifestBad == manifestFailed \/ (enforced /\ ~seenInit)

\* Everything `materializable' asks for before reconciliation.
Complete ==
  /\ ~interrupted /\ code = 0 /\ ~streamTruncated /\ ~truncated
  /\ result = "ok" /\ ~ManifestBad /\ ~exceeded

Judge ==
  /\ main = "judge"
  /\ verdict' = Complete
  /\ main' = "record"
  /\ UNCHANGED <<world, interrupted, exceeded, rest, record, exit>>

\* attempt.update reads the flags again; reconciliation may take the verdict back.
Record ==
  /\ main = "record"
  /\ record' = [truncated |-> truncated, exceeded |-> exceeded]
  /\ \E reconciled \in BOOLEAN :
       /\ verdict' = (verdict /\ reconciled)
       /\ exit' = IF reconciled THEN exit ELSE "reconcile"
  /\ main' = "conclude"
  /\ UNCHANGED <<world, interrupted, exceeded, rest>>

\* Bug: a log cut short is no failure.
CutShortIgnored == FALSE

CutShort == truncated

\* The checks in the order they are made.
Failures ==
  << [is |-> interrupted, as |-> "interrupted"],
     [is |-> ManifestBad, as |-> "manifest"],
     [is |-> exceeded, as |-> "budget"],
     [is |-> code # 0, as |-> "child"],
     [is |-> CutShort, as |-> "truncated"],
     [is |-> result # "ok", as |-> "noresult"],
     [is |-> exit = "reconcile", as |-> "reconcile"] >>

ExitCode ==
  LET failed == {i \in DOMAIN Failures : Failures[i].is} IN
    IF failed = {} THEN "zero"
    ELSE Failures[CHOOSE i \in failed : \A j \in failed : i <= j].as

\* ... and the exit code reads them a third time.
Conclude ==
  /\ main = "conclude"
  /\ exit' = ExitCode
  /\ main' = "done"
  /\ UNCHANGED <<world, interrupted, exceeded, rest, verdict, record>>

-----------------------------------------------------------------------------
(* bounded_copy: the stderr thread.                                        *)

\* main has left the with block: stderr.log is closed.
LogClosed == main \in {"judge", "record", "conclude"}

\* Bug: nothing is drained once the budget is used up.
ReadableWhileItFits == err > 0 /\ Take

Readable == err > 0

\* Writing to the closed log raises, which ends the thread.
Drain ==
  /\ drainer = "drain" /\ Managed
  /\ Readable
  /\ err' = err - 1
  /\ used' = IF Take THEN used + 1 ELSE used
  /\ truncated' = (truncated \/ ~Take)
  /\ logged' = IF Take /\ ~LogClosed THEN logged + 1 ELSE logged
  /\ drainer' = IF Take /\ LogClosed THEN "gone" ELSE "drain"
  /\ UNCHANGED <<enforced, childVars, out, localVars, interrupted, exceeded, main,
                 watchdog, stop, killed, lateVars, endVars>>

DrainerEnds ==
  /\ drainer = "drain" /\ Managed
  /\ err = 0 /\ ~Holds("err")
  /\ drainer' = "gone"
  /\ UNCHANGED <<world, interrupted, exceeded, main, watchdog, stop, killed,
                 lateVars, endVars>>

-----------------------------------------------------------------------------
(* ScratchWatchdog: wait for the interval, walk the roots, compare.        *)

\* stop is looked at before a walk, never during one.
WatchdogWakes ==
  /\ watchdog = "wait" /\ Managed
  /\ watchdog' = IF stop THEN "gone" ELSE "sampling"
  /\ UNCHANGED <<world, interrupted, exceeded, main, drainer, stop, killed, lateVars,
                 endVars>>

WatchdogSamples ==
  /\ watchdog = "sampling" /\ Managed
  /\ watchdog' = IF over THEN "exceed" ELSE "wait"
  /\ UNCHANGED <<world, interrupted, exceeded, main, drainer, stop, killed, lateVars,
                 endVars>>

\* on_over_budget: first the variable, then terminate_child.
WatchdogExceeds ==
  /\ watchdog = "exceed" /\ Managed
  /\ exceeded' = TRUE
  /\ watchdog' = "terminate"
  /\ UNCHANGED <<world, interrupted, main, drainer, stop, killed, lateVars, endVars>>

WatchdogTerminates ==
  /\ watchdog \in {"terminate", "grace", "grace2"} /\ Managed
  /\ killed' = (killed \/ Kills(watchdog))
  /\ watchdog' = AfterTermination(watchdog, "gone")
  /\ UNCHANGED <<world, interrupted, exceeded, main, drainer, stop, lateVars, endVars>>

-----------------------------------------------------------------------------
MainStep ==
  \/ ReadEvent \/ EndOfStream \/ MainTerminates \/ ChildReaped
  \/ StopWatchdog \/ JoinWatchdog \/ JoinDrainer \/ FinalSample
  \/ Judge \/ Record \/ Conclude

DrainerStep == Drain \/ DrainerEnds

WatchdogStep == WatchdogWakes \/ WatchdogSamples \/ WatchdogExceeds \/ WatchdogTerminates

Next ==
  \/ WriteOut \/ WriteErr \/ ChangeState \/ ChildExits \/ HelperExits
  \/ Interrupt \/ InterruptEscapes
  \/ MainStep \/ DrainerStep \/ WatchdogStep

Spec == Init /\ [][Next]_vars

\* Every thread of the manager runs, and the kernel delivers a SIGKILL; nothing
\* is assumed of the child or of its helper.
FairSpec ==
  /\ Spec
  /\ WF_vars(MainStep) /\ WF_vars(DrainerStep) /\ WF_vars(WatchdogStep)
  /\ WF_vars(killed /\ ChildExits)

-----------------------------------------------------------------------------
TypeOK ==
  /\ enforced \in BOOLEAN /\ child \in {"running", "dead"} /\ code \in {0, 1}
  /\ helper \in {"none", "alive", "exited"} /\ held \subseteq {"out", "err"}
  /\ out \in Seq(Events) /\ Len(out) <= PipeSize /\ err \in 0 .. PipeSize
  /\ sent \in 0 .. MaxEvents /\ chunks \in 0 .. MaxChunks /\ over \in BOOLEAN
  /\ used \in 0 .. LogLimit /\ truncated \in BOOLEAN
  /\ stored \in Nat /\ logged \in Nat /\ streamTruncated \in BOOLEAN
  /\ seenInit \in BOOLEAN /\ manifestFailed \in BOOLEAN
  /\ result \in {"none", "ok", "error"} /\ interrupted \in BOOLEAN
  /\ exceeded \in BOOLEAN /\ stop \in BOOLEAN /\ killed \in BOOLEAN
  /\ main \in MainSteps /\ drainer \in {"drain", "gone"} /\ watchdog \in WatchdogSteps
  /\ lateDrainer \in BOOLEAN /\ lateWatchdog \in BOOLEAN
  /\ verdict \in BOOLEAN
  /\ record \in [truncated : BOOLEAN, exceeded : BOOLEAN]
  /\ exit \in {"none", "reconcile", "interrupted", "manifest", "budget", "child",
               "truncated", "noresult", "zero"}

\* "One byte budget shared by stdout and stderr, not two independent maxima":
\* the two logs together stay within it, however the two threads alternate.
LogsShareOneBudget == stored + logged <= LogLimit

\* A materializable attempt has its whole evidence: the stream holds every event
\* the child or its helper wrote, and the child ended by itself with status 0.
MaterializableIsWhole ==
  verdict => /\ stored = sent /\ out = << >>
             /\ child = "dead" /\ code = 0 /\ ~killed

\* No result is accepted before a startup manifest was seen, where the profile
\* enforces one ("before any assistant or tool event is accepted").
ManifestBeforeResult == enforced /\ result # "none" => seenInit

\* State left over the threshold by a child without descendants never passes,
\* whatever the watchdog saw: the final sample comes after the child's death.
OverBudgetIsCaught == main = "done" /\ over /\ helper = "none" => ~verdict

\* The flags recorded, the verdict and the exit code tell one story, provided
\* both joins succeeded in time.
StoryIsOne ==
  main = "done" /\ ~lateDrainer /\ ~lateWatchdog =>
    /\ verdict <=> exit = "zero"
    /\ record.truncated \/ record.exceeded => ~verdict

\* test_stderr_truncation_makes_the_attempt_non_materializable: whenever the
\* record says a log was cut short, the attempt is not materializable.
TruncationIsNotMaterializable == main = "done" /\ record.truncated => ~verdict

\* A child that breaks its manifest is stopped, though it ignores SIGTERM and
\* never exits by itself (unless the manager is interrupted meanwhile).
ManifestFailureStopsChild ==
  main = "terminate" ~> child = "dead" \/ interrupted

\* A child over budget is stopped likewise, as long as its manager lives.
OverBudgetStopsChild ==
  watchdog = "exceed" ~> child = "dead" \/ main = "escaped"

\* A child that is not stuck on a full pipe exits, and so does its helper.
ChildrenEnd ==
  /\ WF_vars(ChildExits /\ Len(out) < PipeSize /\ err < PipeSize)
  /\ WF_vars(HelperExits)

\* No thread of the manager waits for ever: both pipes are drained to the end,
\* also when the log budget is used up (an interrupted attempt drains no more).
AttemptEnds ==
  ChildrenEnd => <>(main \in {"done", "escaped"} \/ interrupted)
=============================================================================
