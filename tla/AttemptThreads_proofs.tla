------------------------ MODULE AttemptThreads_proofs ------------------------
(***************************************************************************)
(* Proofs about one attempt for any lines, limits and sizes of pipes, any  *)
(* number of events and chunks, and any order of the three threads.        *)
(***************************************************************************)
EXTENDS AttemptThreads, Integers, TLAPS

\* A step of the attempt is one of its named steps, or none.
LEMMA StepCases ==
  ASSUME [Next]_vars
  PROVE  \/ WriteOut \/ WriteErr \/ ChangeState \/ ChildExits \/ HelperExits
         \/ Interrupt \/ InterruptEscapes \/ ReadEvent \/ EndOfStream \/ MainTerminates
         \/ ChildReaped \/ StopWatchdog \/ JoinWatchdog \/ JoinDrainer \/ FinalSample
         \/ Judge \/ Record \/ Conclude \/ Drain \/ DrainerEnds
         \/ WatchdogWakes \/ WatchdogSamples \/ WatchdogExceeds \/ WatchdogTerminates
         \/ UNCHANGED vars
BY DEF Next, MainStep, DrainerStep, WatchdogStep

-----------------------------------------------------------------------------
(* Types.                                                                  *)

\* The exit code is zero where no failure is, and else that of a failure.
LEMMA ExitCodeIs ==
  /\ ExitCode = "zero" <=> \A i \in DOMAIN Failures : ~Failures[i].is
  /\ ExitCode = "zero" \/ \E i \in DOMAIN Failures : ExitCode = Failures[i].as
<1>1. DOMAIN Failures = 1 .. 7
  BY DEF Failures
<1>2. \A i \in 1 .. 7 : Failures[i].as # "zero"
  BY DEF Failures
<1> DEFINE failed == {i \in DOMAIN Failures : Failures[i].is}
           first == CHOOSE i \in failed : \A j \in failed : i <= j
<1>3. ASSUME failed # {} PROVE first \in failed
  <2>1. \E i \in failed : \A j \in failed : i <= j
    <3>1. \A k \in 1 .. 7 : (\A i \in failed : i >= k) /\ k \notin failed => \A i \in failed : i >= k + 1
      BY <1>1
    <3> QED BY <1>1, <1>3, <3>1
  <2> QED BY <2>1
<1> QED BY <1>1, <1>2, <1>3 DEF ExitCode

\* TypeOK in four parts, by who changes them.
ChildTypes ==
  /\ enforced \in BOOLEAN /\ child \in {"running", "dead"} /\ code \in {0, 1}
  /\ helper \in {"none", "alive", "exited"} /\ held \subseteq {"out", "err"}
  /\ sent \in 0 .. MaxEvents /\ chunks \in 0 .. MaxChunks /\ over \in BOOLEAN

LogTypes ==
  /\ out \in Seq(Events) /\ Len(out) <= PipeSize /\ err \in 0 .. PipeSize
  /\ used \in 0 .. LogLimit /\ truncated \in BOOLEAN
  /\ stored \in Nat /\ logged \in Nat /\ streamTruncated \in BOOLEAN

ThreadTypes ==
  /\ seenInit \in BOOLEAN /\ manifestFailed \in BOOLEAN
  /\ result \in {"none", "ok", "error"} /\ interrupted \in BOOLEAN
  /\ exceeded \in BOOLEAN /\ stop \in BOOLEAN /\ killed \in BOOLEAN
  /\ main \in MainSteps /\ drainer \in {"drain", "gone"} /\ watchdog \in WatchdogSteps
  /\ lateDrainer \in BOOLEAN /\ lateWatchdog \in BOOLEAN

EndTypes ==
  /\ verdict \in BOOLEAN
  /\ record \in [truncated : BOOLEAN, exceeded : BOOLEAN]
  /\ exit \in {"none", "reconcile", "interrupted", "manifest", "budget", "child",
               "truncated", "noresult", "zero"}

LEMMA TypeParts ==
  /\ TypeOK <=> ChildTypes /\ LogTypes /\ ThreadTypes /\ EndTypes
  /\ TypeOK' <=> ChildTypes' /\ LogTypes' /\ ThreadTypes' /\ EndTypes'
BY DEF TypeOK, ChildTypes, LogTypes, ThreadTypes, EndTypes

LEMMA InitTypeOK == Init => TypeOK
<1> SUFFICES ASSUME Init PROVE TypeOK
  OBVIOUS
<1> USE AttemptAssumption DEF Init
<1>1. ChildTypes
  BY DEF ChildTypes
<1>2. LogTypes
  <2>1. << >> \in Seq(Events) /\ Len(<< >>) = 0
    OBVIOUS
  <2>2. out \in Seq(Events) /\ Len(out) <= PipeSize
    BY <2>1
  <2>3. err \in 0 .. PipeSize /\ used \in 0 .. LogLimit
    OBVIOUS
  <2>4. truncated \in BOOLEAN /\ stored \in Nat /\ logged \in Nat /\ streamTruncated \in BOOLEAN
    OBVIOUS
  <2> QED BY <2>2, <2>3, <2>4, Zenon DEF LogTypes
<1>3. ThreadTypes
  BY DEF ThreadTypes, MainSteps, WatchdogSteps
<1>4. EndTypes
  BY DEF EndTypes, NoRecord
<1> QED BY <1>1, <1>2, <1>3, <1>4, TypeParts

LEMMA NextChildTypes == TypeOK /\ [Next]_vars => ChildTypes'
<1> SUFFICES ASSUME ChildTypes, [Next]_vars PROVE ChildTypes'
  BY TypeParts
<1> USE AttemptAssumption DEF ChildTypes
<1>1. ASSUME WriteOut PROVE ChildTypes'
  BY <1>1 DEF WriteOut
<1>2. ASSUME WriteErr PROVE ChildTypes'
  BY <1>2 DEF WriteErr
<1>3. ASSUME ChangeState PROVE ChildTypes'
  BY <1>3 DEF ChangeState
<1>4. ASSUME ChildExits PROVE ChildTypes'
  BY <1>4 DEF ChildExits
<1>5. ASSUME HelperExits PROVE ChildTypes'
  BY <1>5 DEF HelperExits
<1>6. CASE ~(WriteOut \/ WriteErr \/ ChangeState \/ ChildExits \/ HelperExits)
  <2>1. UNCHANGED <<enforced, childVars>>
    BY <1>6, StepCases DEF Interrupt, InterruptEscapes, ReadEvent, EndOfStream, MainTerminates,
       ChildReaped, StopWatchdog, JoinWatchdog, JoinDrainer, FinalSample, Judge, Record, Conclude,
       Drain, DrainerEnds, WatchdogWakes, WatchdogSamples, WatchdogExceeds, WatchdogTerminates,
       vars, world
  <2> QED BY <2>1 DEF childVars
<1> QED BY <1>1, <1>2, <1>3, <1>4, <1>5, <1>6

LEMMA NextLogTypes == TypeOK /\ [Next]_vars => LogTypes'
<1> SUFFICES ASSUME TypeOK, LogTypes, [Next]_vars PROVE LogTypes'
  BY TypeParts
<1> USE AttemptAssumption DEF LogTypes
<1>1. CASE WriteOut
  <2>1. PICK e \in Lines : out' = Append(out, e)
    BY <1>1 DEF WriteOut
  <2>2. out' \in Seq(Events) /\ Len(out') = Len(out) + 1
    BY <2>1
  <2>3. Len(out) < PipeSize /\ UNCHANGED <<err, budgetVars, localVars>>
    BY <1>1 DEF WriteOut, manager
  <2> QED BY <2>2, <2>3 DEF budgetVars, localVars
<1>2. CASE WriteErr
  BY <1>2 DEF WriteErr, manager, budgetVars, localVars
<1>3. CASE ReadEvent
  <2>1. out' \in Seq(Events) /\ Len(out') <= PipeSize
    BY <1>3 DEF ReadEvent
  <2>2. UNCHANGED <<err, logged>>
    BY <1>3 DEF ReadEvent
  <2>3. used' \in 0 .. LogLimit /\ truncated' \in BOOLEAN /\ stored' \in Nat
        /\ streamTruncated' \in BOOLEAN
    BY <1>3 DEF ReadEvent, CopyEvent, Take
  <2> QED BY <2>1, <2>2, <2>3
<1>4. CASE Drain
  BY <1>4 DEF Drain, Readable, Take, localVars
<1>5. CASE ~(WriteOut \/ WriteErr \/ ReadEvent \/ Drain)
  <2>1. UNCHANGED <<out, err, used, truncated, stored, logged, streamTruncated>>
    BY <1>5, StepCases DEF ChangeState, ChildExits, HelperExits, Interrupt,
       InterruptEscapes, EndOfStream, MainTerminates, ChildReaped, StopWatchdog, JoinWatchdog,
       JoinDrainer, FinalSample, Judge, Record, Conclude, DrainerEnds, WatchdogWakes,
       WatchdogSamples, WatchdogExceeds, WatchdogTerminates, vars, manager, world, budgetVars,
       localVars
  <2> QED BY <2>1
<1> QED BY <1>1, <1>2, <1>3, <1>4, <1>5

LEMMA NextThreadTypes == TypeOK /\ [Next]_vars => ThreadTypes'
<1> SUFFICES ASSUME TypeOK, ThreadTypes, [Next]_vars PROVE ThreadTypes'
  BY TypeParts
<1> USE DEF ThreadTypes, MainSteps, WatchdogSteps, world, manager, localVars, rest, lateVars
<1>1. ASSUME ReadEvent PROVE ThreadTypes'
  BY <1>1 DEF ReadEvent, CopyEvent
<1>2. ASSUME EndOfStream PROVE ThreadTypes'
  BY <1>2 DEF EndOfStream
<1>3. ASSUME Interrupt PROVE ThreadTypes'
  BY <1>3 DEF Interrupt
<1>4. ASSUME InterruptEscapes PROVE ThreadTypes'
  BY <1>4 DEF InterruptEscapes
<1>5. ASSUME ChildReaped PROVE ThreadTypes'
  BY <1>5 DEF ChildReaped
<1>6. ASSUME Judge PROVE ThreadTypes'
  BY <1>6 DEF Judge
<1>7. ASSUME Record PROVE ThreadTypes'
  BY <1>7 DEF Record
<1>8. ASSUME Conclude PROVE ThreadTypes'
  BY <1>8 DEF Conclude
<1>9. ASSUME MainTerminates PROVE ThreadTypes'
  BY <1>9 DEF MainTerminates, AfterTermination, Kills
<1>10. ASSUME WatchdogTerminates PROVE ThreadTypes'
  BY <1>10 DEF WatchdogTerminates, AfterTermination, Kills
<1>11. ASSUME StopWatchdog PROVE ThreadTypes'
  BY <1>11 DEF StopWatchdog
<1>12. ASSUME JoinWatchdog PROVE ThreadTypes'
  BY <1>12 DEF JoinWatchdog
<1>13. ASSUME JoinDrainer PROVE ThreadTypes'
  BY <1>13 DEF JoinDrainer
<1>14. ASSUME FinalSample PROVE ThreadTypes'
  BY <1>14 DEF FinalSample, OverAtLast
<1>15. ASSUME Drain PROVE ThreadTypes'
  BY <1>15 DEF Drain
<1>16. ASSUME DrainerEnds PROVE ThreadTypes'
  BY <1>16 DEF DrainerEnds
<1>17. ASSUME WatchdogWakes PROVE ThreadTypes'
  BY <1>17 DEF WatchdogWakes
<1>18. ASSUME WatchdogSamples PROVE ThreadTypes'
  BY <1>18 DEF WatchdogSamples
<1>19. ASSUME WatchdogExceeds PROVE ThreadTypes'
  BY <1>19 DEF WatchdogExceeds
<1>20. ASSUME WriteOut PROVE ThreadTypes'
  BY <1>20 DEF WriteOut
<1>21. ASSUME WriteErr PROVE ThreadTypes'
  BY <1>21 DEF WriteErr
<1>22. ASSUME ChangeState PROVE ThreadTypes'
  BY <1>22 DEF ChangeState
<1>23. ASSUME ChildExits PROVE ThreadTypes'
  BY <1>23 DEF ChildExits
<1>24. ASSUME HelperExits PROVE ThreadTypes'
  BY <1>24 DEF HelperExits
<1>25. ASSUME UNCHANGED vars PROVE ThreadTypes'
  BY <1>25 DEF vars
<1> QED BY StepCases, <1>1, <1>2, <1>3, <1>4, <1>5, <1>6, <1>7, <1>8, <1>9, <1>10, <1>11, <1>12, <1>13, <1>14, <1>15, <1>16, <1>17, <1>18, <1>19, <1>20, <1>21, <1>22, <1>23, <1>24, <1>25

LEMMA NextEndTypes == TypeOK /\ [Next]_vars => EndTypes'
<1> SUFFICES ASSUME EndTypes, [Next]_vars, TypeOK PROVE EndTypes'
  BY TypeParts
<1> USE DEF EndTypes
<1>1. CASE Judge
  BY <1>1 DEF Judge, Complete
<1>2. CASE Record
  BY <1>2 DEF Record, TypeOK
<1>3. CASE Conclude
  <2>1. \A i \in DOMAIN Failures : Failures[i].as \in
          {"interrupted", "manifest", "budget", "child", "truncated", "noresult", "reconcile"}
    BY DEF Failures
  <2> QED BY <1>3, <2>1, ExitCodeIs DEF Conclude
<1>4. CASE ~(Judge \/ Record \/ Conclude)
  <2>1. UNCHANGED endVars
    BY <1>4, StepCases DEF WriteOut, WriteErr, ChangeState, ChildExits, HelperExits, Interrupt,
       InterruptEscapes, ReadEvent, EndOfStream, MainTerminates, ChildReaped, StopWatchdog,
       JoinWatchdog, JoinDrainer, FinalSample, Drain, DrainerEnds, WatchdogWakes,
       WatchdogSamples, WatchdogExceeds, WatchdogTerminates, vars, manager
  <2> QED BY <2>1 DEF endVars
<1> QED BY <1>1, <1>2, <1>3, <1>4

\* Every reachable state of an attempt is well typed: in particular no pipe and
\* no budget is used past its size.
THEOREM AttemptTypeCorrect == Spec => []TypeOK
<1>1. TypeOK /\ [Next]_vars => TypeOK'
  BY NextChildTypes, NextLogTypes, NextThreadTypes, NextEndTypes, TypeParts
<1> QED BY <1>1, InitTypeOK, PTL DEF Spec

-----------------------------------------------------------------------------
(* The log budget.                                                         *)

\* What the two logs hold was taken from the budget.
BudgetInv ==
  /\ used \in 0 .. LogLimit /\ stored \in Nat /\ logged \in Nat
  /\ stored + logged <= used

\* Both threads take from the budget before they write.
LEMMA NextBudgetInv == BudgetInv /\ [Next]_vars => BudgetInv'
<1> SUFFICES ASSUME BudgetInv, [Next]_vars PROVE BudgetInv'
  OBVIOUS
<1> USE AttemptAssumption DEF BudgetInv
<1>1. CASE ReadEvent
  BY <1>1 DEF ReadEvent, CopyEvent, Take
<1>2. CASE Drain
  BY <1>2 DEF Drain, localVars, Take
<1>3. CASE UNCHANGED <<used, stored, logged>>
  BY <1>3
<1>4. CASE ~ReadEvent /\ ~Drain
  <2>1. UNCHANGED <<used, stored, logged>>
    BY <1>4, StepCases DEF WriteOut, WriteErr, ChangeState, ChildExits, HelperExits, Interrupt,
       InterruptEscapes, EndOfStream, MainTerminates, ChildReaped, StopWatchdog, JoinWatchdog,
       JoinDrainer, FinalSample, Judge, Record, Conclude, DrainerEnds, WatchdogWakes,
       WatchdogSamples, WatchdogExceeds, WatchdogTerminates, vars, manager, world, budgetVars,
       localVars
  <2> QED BY <2>1, <1>3
<1> QED BY <1>1, <1>2, <1>4

\* The two logs together never exceed the limit of the attempt, in whichever
\* order the two threads find room.
THEOREM LogsStayInBudget == Spec => []LogsShareOneBudget
<1>1. Init => BudgetInv
  BY AttemptAssumption DEF Init, BudgetInv
<1>2. BudgetInv => LogsShareOneBudget
  BY AttemptAssumption DEF BudgetInv, LogsShareOneBudget
<1> QED BY <1>1, <1>2, NextBudgetInv, PTL DEF Spec
-----------------------------------------------------------------------------
(* The manifest.                                                           *)

Bools ==
  /\ seenInit \in BOOLEAN /\ streamTruncated \in BOOLEAN /\ manifestFailed \in BOOLEAN
  /\ interrupted \in BOOLEAN /\ exceeded \in BOOLEAN /\ over \in BOOLEAN
  /\ killed \in BOOLEAN /\ verdict \in BOOLEAN /\ enforced \in BOOLEAN
  /\ truncated \in BOOLEAN

\* A result is taken from a line that is no violation, and before the manifest
\* every line but the manifest is one.
THEOREM ManifestComesFirst == Spec => []ManifestBeforeResult
<1> USE DEF ManifestBeforeResult
<1>1. Init => ManifestBeforeResult
  BY DEF Init
<1>2. ManifestBeforeResult /\ [Next]_vars => ManifestBeforeResult'
  <2> SUFFICES ASSUME ManifestBeforeResult, [Next]_vars PROVE ManifestBeforeResult'
    OBVIOUS
  <2>1. CASE ReadEvent
    BY <2>1 DEF ReadEvent, ManifestViolation, Ignored
  <2>2. CASE ~ReadEvent
    <3>1. UNCHANGED <<enforced, result, seenInit>>
      BY <2>2, StepCases DEF WriteOut, WriteErr, ChangeState, ChildExits, HelperExits, Interrupt,
         InterruptEscapes, EndOfStream, MainTerminates, ChildReaped, StopWatchdog, JoinWatchdog,
         JoinDrainer, FinalSample, Judge, Record, Conclude, Drain, DrainerEnds, WatchdogWakes,
         WatchdogSamples, WatchdogExceeds, WatchdogTerminates, vars, manager, world, localVars
    <3> QED BY <3>1
  <2> QED BY <2>1, <2>2
<1> QED BY <1>1, <1>2, PTL DEF Spec

-----------------------------------------------------------------------------
(* The evidence of an attempt that is judged materializable.               *)

\* main has left the loop that reads stdout; it is past process.wait().
Stopping == {"terminate", "grace", "grace2"}
Reaped == {"stop", "joinWatchdog", "joinDrainer", "sample", "judge", "record", "conclude", "done"}
Sampled == {"judge", "record", "conclude", "done"}

\* Nothing is left in the pipe and nobody can write into it.
Drained == out = << >> /\ ~Holds("out")

\* What was written is in the stream or still in the pipe.
NothingLost == ~streamTruncated => stored + Len(out) = sent

\* The loop ends in one of three ways, and only one of them is no failure.
ReadToTheEnd ==
  /\ main \in Stopping => manifestFailed
  /\ main \in Reaped \union {"wait"} => interrupted \/ manifestFailed \/ Drained

\* The child is dead before anything is decided; a SIGKILL shows in its status.
ChildIsGone ==
  /\ main \in Reaped => child = "dead"
  /\ child = "dead" /\ killed => code = 1

\* The last sample saw whatever state a child without descendants left.
LastSampleCounts ==
  main \in Sampled /\ helper = "none" /\ over => exceeded

\* What the verdict was based on does not change any more.
VerdictStands ==
  verdict => /\ main \in {"record", "conclude", "done", "escaped"}
             /\ ~streamTruncated /\ Drained
             /\ child = "dead" /\ code = 0 /\ ~killed
             /\ helper = "none" => ~over

WholeInv ==
  /\ Bools /\ out \in Seq(Events) /\ stored \in Nat /\ sent \in Nat
  /\ NothingLost /\ ReadToTheEnd /\ ChildIsGone /\ LastSampleCounts /\ VerdictStands

LEMMA InitWholeInv == Init => WholeInv
<1> SUFFICES ASSUME Init PROVE WholeInv
  OBVIOUS
<1>1. Bools /\ stored \in Nat /\ sent \in Nat
  BY AttemptAssumption DEF Init, Bools
<1>2. out \in Seq(Events) /\ Len(out) = 0
  BY DEF Init
<1>3. NothingLost /\ ReadToTheEnd /\ ChildIsGone /\ LastSampleCounts /\ VerdictStands
  BY <1>2 DEF Init, NothingLost, ReadToTheEnd, ChildIsGone, LastSampleCounts, VerdictStands,
     Stopping, Reaped, Sampled
<1> QED BY <1>1, <1>2, <1>3 DEF WholeInv

\* Each action keeps all parts; only a few of them can disturb one.
LEMMA NextWholeInv == WholeInv /\ [Next]_vars => WholeInv'
<1> SUFFICES ASSUME WholeInv, [Next]_vars PROVE WholeInv'
  OBVIOUS
<1> USE AttemptAssumption DEF WholeInv, Bools, NothingLost, ReadToTheEnd, ChildIsGone,
    LastSampleCounts, VerdictStands, Drained, Holds, Stopping, Reaped, Sampled,
    vars, manager, world, childVars, budgetVars, localVars, rest, lateVars, endVars
<1>1. CASE WriteOut
  BY <1>1 DEF WriteOut, Managed
<1>2. CASE WriteErr
  BY <1>2 DEF WriteErr
<1>3. CASE ChangeState
  BY <1>3 DEF ChangeState
<1>4. CASE ChildExits
  BY <1>4 DEF ChildExits
<1>5. CASE HelperExits
  BY <1>5 DEF HelperExits
<1>6. CASE Interrupt
  BY <1>6 DEF Interrupt
<1>7. CASE InterruptEscapes
  BY <1>7 DEF InterruptEscapes
<1>8. CASE ReadEvent
  <2>1. /\ out' \in Seq(Events) /\ Len(out) = Len(out') + 1
        /\ stored' \in Nat /\ sent' = sent
        /\ streamTruncated' \in BOOLEAN
    BY <1>8 DEF ReadEvent, CopyEvent
  <2>2. NothingLost'
    <3>1. ~streamTruncated' => ~streamTruncated /\ stored' = stored + 1
      BY <1>8 DEF ReadEvent, CopyEvent, Take
    <3> QED BY <2>1, <3>1
  <2>3. /\ ~verdict /\ verdict' = verdict
        /\ main' \in {"read", "escaped", "terminate"}
        /\ main' = "terminate" => manifestFailed'
    BY <1>8 DEF ReadEvent
  <2>4. Bools'
    BY <1>8, <2>1 DEF ReadEvent, CopyEvent
  <2>5. UNCHANGED <<child, killed, code>>
    BY <1>8 DEF ReadEvent
  <2> QED BY <2>1, <2>2, <2>3, <2>4, <2>5
<1>9. CASE EndOfStream
  BY <1>9 DEF EndOfStream
<1>10. CASE MainTerminates
  BY <1>10 DEF MainTerminates, AfterTermination, Kills
<1>11. CASE ChildReaped
  BY <1>11 DEF ChildReaped
<1>12. CASE StopWatchdog
  BY <1>12 DEF StopWatchdog
<1>13. CASE JoinWatchdog
  BY <1>13 DEF JoinWatchdog
<1>14. CASE JoinDrainer
  BY <1>14 DEF JoinDrainer
<1>15. CASE FinalSample
  BY <1>15 DEF FinalSample, OverAtLast
<1>16. CASE Judge
  BY <1>16 DEF Judge, Complete, ManifestBad
<1>17. CASE Record
  BY <1>17 DEF Record
<1>18. CASE Conclude
  BY <1>18 DEF Conclude
<1>19. CASE Drain
  BY <1>19 DEF Drain, Take
<1>20. CASE DrainerEnds
  BY <1>20 DEF DrainerEnds
<1>21. CASE WatchdogWakes
  BY <1>21 DEF WatchdogWakes
<1>22. CASE WatchdogSamples
  BY <1>22 DEF WatchdogSamples
<1>23. CASE WatchdogExceeds
  BY <1>23 DEF WatchdogExceeds
<1>24. CASE WatchdogTerminates
  BY <1>24 DEF WatchdogTerminates, AfterTermination, Kills
<1>25. CASE UNCHANGED vars
  BY <1>25
<1> QED
  BY ONLY [Next]_vars, StepCases, <1>1, <1>2, <1>3, <1>4, <1>5, <1>6, <1>7, <1>8, <1>9, <1>10, <1>11, <1>12, <1>13, <1>14, <1>15, <1>16, <1>17, <1>18, <1>19, <1>20, <1>21, <1>22, <1>23, <1>24, <1>25

\* An attempt judged materializable has every event in its stream, an empty pipe
\* that stays empty, and a child that ended by itself with status 0.
THEOREM EvidenceIsWhole == Spec => []MaterializableIsWhole
<1>1. WholeInv => MaterializableIsWhole
  BY DEF WholeInv, VerdictStands, Drained, NothingLost, MaterializableIsWhole
<1> QED BY <1>1, InitWholeInv, NextWholeInv, PTL DEF Spec

\* State left over the threshold never passes, where nothing outlives the child.
THEOREM FinalSampleCatches == Spec => []OverBudgetIsCaught
<1>1. WholeInv => OverBudgetIsCaught
  BY DEF WholeInv, VerdictStands, OverBudgetIsCaught
<1> QED BY <1>1, InitWholeInv, NextWholeInv, PTL DEF Spec

-----------------------------------------------------------------------------
(* What the record, the verdict and the exit code say.                     *)

\* No join was given up: the threads that could change the flags are gone.
Prompt == ~lateDrainer /\ ~lateWatchdog

ThreadsGone ==
  /\ main \in {"joinDrainer", "sample"} \union Sampled /\ ~lateWatchdog => watchdog = "gone"
  /\ main \in {"sample"} \union Sampled /\ ~lateDrainer => drainer = "gone"

\* The verdict is Complete, which nothing changes between the three reads.
StoryInv ==
  /\ WholeInv
  /\ ThreadsGone
  /\ streamTruncated => truncated
  /\ main \notin {"conclude", "done", "escaped"} => exit = "none"
  /\ main = "record" /\ Prompt => (verdict <=> Complete)
  /\ main = "conclude" /\ Prompt =>
       /\ exit \in {"none", "reconcile"}
       /\ record = [truncated |-> truncated, exceeded |-> exceeded]
       /\ verdict <=> Complete /\ exit # "reconcile"
  /\ StoryIsOne

\* A step of the threads, of the child or of nobody: not of main.
Aside ==
  \/ WriteOut \/ WriteErr \/ ChangeState \/ ChildExits \/ HelperExits
  \/ Drain \/ DrainerEnds
  \/ WatchdogWakes \/ WatchdogSamples \/ WatchdogExceeds \/ WatchdogTerminates
  \/ UNCHANGED vars

\* Past the joins, threads that ended in time leave the flags and the child's
\* status alone.
LEMMA AsideKeeps ==
  ASSUME StoryInv, Aside
  PROVE  /\ main' = main /\ lateVars' = lateVars /\ endVars' = endVars
         /\ main \in {"record", "conclude"} /\ Prompt =>
              UNCHANGED <<truncated, exceeded, interrupted, code, streamTruncated, result,
                          manifestFailed, enforced, seenInit>>
BY DEF StoryInv, ThreadsGone, Prompt, WholeInv, ChildIsGone, Reaped, Sampled, Aside, WriteOut,
     WriteErr, ChangeState, ChildExits, HelperExits, Drain, DrainerEnds, WatchdogWakes,
     WatchdogSamples, WatchdogExceeds, WatchdogTerminates, vars, manager, world, childVars,
     budgetVars, localVars, rest, lateVars, endVars

LEMMA InitStoryInv == Init => StoryInv
BY InitWholeInv DEF Init, StoryInv, ThreadsGone, Sampled, StoryIsOne

LEMMA NextStoryInv == StoryInv /\ [Next]_vars => StoryInv'
<1> SUFFICES ASSUME StoryInv, [Next]_vars PROVE StoryInv'
  OBVIOUS
<1>0. WholeInv'
  BY NextWholeInv DEF StoryInv
<1> USE DEF StoryInv, ThreadsGone, Sampled, Prompt, StoryIsOne, Complete, ManifestBad,
    vars, manager, world, childVars, budgetVars, localVars, rest, lateVars, endVars
<1>1. CASE Aside
  <2>1. ASSUME WriteOut \/ WriteErr \/ ChangeState \/ ChildExits \/ HelperExits \/ UNCHANGED vars
       PROVE  ThreadsGone' /\ (streamTruncated => truncated)'
    <3>1. UNCHANGED <<main, drainer, watchdog, lateVars, streamTruncated, truncated>>
      BY <2>1 DEF WriteOut, WriteErr, ChangeState, ChildExits, HelperExits
    <3> QED BY <3>1
  <2>2. ASSUME Drain \/ DrainerEnds
       PROVE  ThreadsGone' /\ (streamTruncated => truncated)'
    <3>1. /\ UNCHANGED <<main, watchdog, lateVars, streamTruncated>>
          /\ drainer = "drain" /\ (truncated => truncated')
      BY <2>2 DEF Drain, DrainerEnds
    <3> QED BY <3>1
  <2>3. ASSUME WatchdogWakes \/ WatchdogSamples \/ WatchdogExceeds \/ WatchdogTerminates
       PROVE  ThreadsGone' /\ (streamTruncated => truncated)'
    <3>1. /\ UNCHANGED <<main, drainer, lateVars, streamTruncated, truncated>>
          /\ watchdog # "gone"
      BY <2>3 DEF WatchdogWakes, WatchdogSamples, WatchdogExceeds, WatchdogTerminates
    <3> QED BY <3>1
  <2>4. ThreadsGone' /\ (streamTruncated => truncated)'
    BY <1>1, <2>1, <2>2, <2>3 DEF Aside
  <2> QED BY <1>0, <1>1, <2>4, AsideKeeps
<1>2. CASE ReadEvent
  BY <1>0, <1>2 DEF ReadEvent, CopyEvent
<1>3. CASE EndOfStream \/ Interrupt \/ InterruptEscapes
  BY <1>0, <1>3 DEF EndOfStream, Interrupt, InterruptEscapes
<1>4. CASE MainTerminates \/ ChildReaped \/ StopWatchdog
  BY <1>0, <1>4 DEF MainTerminates, AfterTermination, ChildReaped, StopWatchdog
<1>5. CASE JoinWatchdog
  <2>1. /\ main = "joinWatchdog" /\ main' = "joinDrainer" /\ exit' = exit
        /\ lateWatchdog' = (watchdog # "gone")
        /\ UNCHANGED <<drainer, watchdog, streamTruncated, truncated>>
    BY <1>5 DEF JoinWatchdog
  <2> QED BY <1>0, <2>1
<1>10. CASE JoinDrainer
  <2>1. /\ main = "joinDrainer" /\ main' = "sample" /\ exit' = exit
        /\ lateDrainer' = (drainer # "gone") /\ lateWatchdog' = lateWatchdog
        /\ UNCHANGED <<drainer, watchdog, streamTruncated, truncated>>
    BY <1>10 DEF JoinDrainer
  <2> QED BY <1>0, <2>1
<1>6. CASE FinalSample
  BY <1>0, <1>6 DEF FinalSample
<1>7. CASE Judge
  BY <1>0, <1>7 DEF Judge
<1>8. CASE Record
  BY <1>0, <1>8 DEF Record, WholeInv, Bools
<1>9. CASE Conclude
  <2>1. exit' = "zero" <=> /\ ~interrupted /\ ~ManifestBad /\ ~exceeded /\ code = 0
                           /\ ~truncated /\ result = "ok" /\ exit # "reconcile"
    <3>1. (\A i \in DOMAIN Failures : ~Failures[i].is) <=>
            /\ ~interrupted /\ ~ManifestBad /\ ~exceeded /\ code = 0
            /\ ~truncated /\ result = "ok" /\ exit # "reconcile"
      <4>1. DOMAIN Failures = 1 .. 7
        BY DEF Failures
      <4>2. /\ (Failures[1].is <=> interrupted) /\ (Failures[2].is <=> ManifestBad)
            /\ (Failures[3].is <=> exceeded) /\ (Failures[4].is <=> code # 0)
            /\ (Failures[5].is <=> truncated) /\ (Failures[6].is <=> result # "ok")
            /\ (Failures[7].is <=> exit = "reconcile")
        BY DEF Failures, CutShort
      <4>3. \A i \in 1 .. 7 : i = 1 \/ i = 2 \/ i = 3 \/ i = 4 \/ i = 5 \/ i = 6 \/ i = 7
        OBVIOUS
      <4> HIDE DEF ManifestBad
      <4> QED BY <4>1, <4>2, <4>3
    <3> QED BY <1>9, <3>1, ExitCodeIs DEF Conclude
  <2>2. UNCHANGED <<verdict, record, truncated, exceeded, lateDrainer, lateWatchdog, drainer,
                    watchdog, streamTruncated>> /\ main = "conclude" /\ main' = "done"
    BY <1>9 DEF Conclude
  <2>3. Prompt => (verdict <=> exit' = "zero") /\ (record.truncated \/ record.exceeded => ~verdict)
    BY <2>1, <2>2
  <2> QED BY <1>0, <2>2, <2>3
<1> QED
  BY StepCases, <1>1, <1>2, <1>3, <1>4, <1>5, <1>6, <1>7, <1>8, <1>9, <1>10 DEF Aside

\* The verdict, the record and the exit code are read from the flags at three
\* moments and agree, whatever the stderr thread and the watchdog do meanwhile,
\* unless a join was given up.
THEOREM RecordsAgree == Spec => []StoryIsOne
<1>1. StoryInv => StoryIsOne
  BY DEF StoryInv
<1> QED BY <1>1, InitStoryInv, NextStoryInv, PTL DEF Spec
=============================================================================
