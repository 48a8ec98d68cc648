--------------------------- MODULE IntentReaders ---------------------------
(***************************************************************************)
(* `summarize' and `validate' beside the writers of IntentStore.  A reader *)
(* takes no lock: it lists the month files once and then reads them one    *)
(* after the other in the order of their names, each by a loop of os.read  *)
(* up to the end of the file, while writers append, tear and roll back     *)
(* lines between any two of its steps.  It is strict: an incomplete last   *)
(* line, an invalid record or two records that clash, in one file or in    *)
(* two, end the command with an error.                                     *)
(*                                                                         *)
(* Complete lines stay as they are, so where among them a read ends makes  *)
(* no difference.  A read that ends inside a line that is still torn does: *)
(* that line may be rolled back and another be written in its place before *)
(* the next read.                                                          *)
(***************************************************************************)
EXTENDS IntentStore, SequencesExt

CONSTANTS NameOrder,  \* [Months -> Nat]: the order of the names of the files
          MaxReads    \* bound: reads begun in a behaviour

ASSUME ReadersAssumption ==
  /\ NameOrder \in [Months -> Nat]
  /\ \A m, k \in Months : NameOrder[m] = NameOrder[k] => m = k
  /\ MaxReads \in Nat

VARIABLES todo,     \* the files listed and not yet read
          view,     \* [Months -> Seq(RecordType)]: the lines read of each file
          at,       \* [Months -> Nat]: the lines of it that were passed
          cut,      \* the text read ends inside a torn line
          head,     \* that line's record, None when its writer is gone
          verdict,  \* how the read stands
          asked,    \* history: the months the command was asked for
          before,   \* history: the store when the read began
          glued,    \* history: a line read was put together from two
          reads     \* reads begun

progress == <<view, at, cut, head, glued>>
reader == <<todo, progress, verdict, asked, before, reads>>
rvars == <<vars, reader>>

Verdicts == {"none", "reading", "ok", "torn", "rejected", "killed"}

Nowhere == [m \in Months |-> 0]

RInit ==
  /\ Init
  /\ todo = {}
  /\ view = Empty
  /\ at = Nowhere
  /\ cut = FALSE
  /\ head = None
  /\ verdict = "none"
  /\ asked = {}
  /\ before = Empty
  /\ glued = FALSE
  /\ reads = 0

\* An append creates the file before it writes to it: an empty file and no
\* file read the same.
Present(m) == file[m] # << >> \/ torn[m]

StoreFiles == {m \in Months : Present(m)}

\* Nothing read.
Fresh == view' = Empty /\ at' = Nowhere /\ cut' = FALSE /\ head' = None

StartRead(files, months) ==
  /\ verdict # "reading"
  /\ reads < MaxReads
  /\ reads' = reads + 1
  /\ todo' = files
  /\ asked' = months
  /\ Fresh
  /\ before' = file
  /\ verdict' = "reading"
  /\ glued' = FALSE
  /\ UNCHANGED vars

\* summarize, and validate of the whole home.
ReadStore == StartRead(StoreFiles, Months)

\* validate --file: one file, and so no comparison with the others.
ReadFile(m) == Present(m) /\ StartRead({m}, {m})

\* The command ends; the process and all it read are gone.
EndRead(v) ==
  /\ verdict' = v
  /\ todo' = {}
  /\ Fresh
  /\ before' = Empty
  /\ asked' = {}
  /\ UNCHANGED <<glued, reads>>

\* The next file of those listed, in the order of their names.
First(m) == m \in todo /\ \A k \in todo : NameOrder[m] <= NameOrder[k]

Reading(m) == verdict = "reading" /\ First(m)

\* What the reader has of that file when it passes its lines up to n.
ViewUpTo(m, n) == [view EXCEPT ![m] = @ \o SubSeq(file[m], at[m] + 1, n)]

\* os.read gives some more lines.
ReadLines(m) ==
  /\ Reading(m) /\ ~cut
  /\ \E n \in at[m] + 1 .. Len(file[m]) :
       /\ view' = ViewUpTo(m, n)
       /\ at' = [at EXCEPT ![m] = n]
  /\ UNCHANGED <<vars, todo, cut, head, verdict, asked, before, glued, reads>>

\* The record whose line is torn: that of the process about to roll it back.
TornLine(m) ==
  IF \E w \in Writers : pc[w] = "rollback" /\ Target(w) = m
  THEN rec[CHOOSE w \in Writers : pc[w] = "rollback" /\ Target(w) = m]
  ELSE None

\* os.read gives all there is, the beginning of a torn line included.
ReadTorn(m) ==
  /\ Reading(m) /\ ~cut
  /\ torn[m]
  /\ view' = ViewUpTo(m, Len(file[m]))
  /\ at' = [at EXCEPT ![m] = Len(file[m])]
  /\ cut' = TRUE
  /\ head' = TornLine(m)
  /\ UNCHANGED <<vars, todo, verdict, asked, before, glued, reads>>

\* The beginning of one line, up to its k-th key, with the end of another: what
\* comes out is a line the strict reader accepts, or (v) it is not.  Keys are
\* written in the order of their names; the ordinal stands where an intent has it.
Hybrid(x, y, k, v) ==
  LET Of(i) == IF i <= k THEN x ELSE y IN
  [ event_id |-> Of(1).event_id, kind |-> Of(2).kind, orphan |-> Of(3).orphan,
    origin |-> Of(4).origin, run |-> Of(5).run, session |-> Of(6).session,
    ordinal |-> Of(7).ordinal, terminal |-> Of(8).terminal, month |-> y.month,
    call |-> y.call, valid |-> v ]

\* The torn line was rolled back and others were written over its place: the
\* next os.read goes on at its offset, inside one of those.
ReadOn(m) ==
  /\ Reading(m) /\ cut
  /\ head # None
  /\ \E j \in at[m] + 1 .. Len(file[m]), k \in 0 .. 8, v \in BOOLEAN :
       /\ view' = [view EXCEPT ![m] = Append(@, Hybrid(head, file[m][j], k, v))]
       /\ at' = [at EXCEPT ![m] = j]
  /\ cut' = FALSE
  /\ head' = None
  /\ glued' = TRUE
  /\ UNCHANGED <<vars, todo, verdict, asked, before, reads>>

\* The strict reader finds fault with a line.
Faulty(f) == Complaint(f) \/ \E r \in RecordsIn(f) : ~r.valid

\* The end of the file, after a whole line.
AtEnd(m) == Reading(m) /\ ~cut /\ at[m] = Len(file[m]) /\ ~torn[m]

ReadMonth(m) ==
  /\ AtEnd(m)
  /\ ~Faulty(view)
  /\ todo' = todo \ {m}
  /\ UNCHANGED <<vars, progress, verdict, asked, before, reads>>

RefuseMonth(m) ==
  /\ AtEnd(m)
  /\ Faulty(view)
  /\ EndRead("rejected")
  /\ UNCHANGED vars

\* Bug: a file with an incomplete last line is skipped.
SkipTorn(m) ==
  /\ Reading(m) /\ cut
  /\ todo' = todo \ {m}
  /\ view' = [view EXCEPT ![m] = << >>]
  /\ cut' = FALSE
  /\ head' = None
  /\ UNCHANGED <<vars, at, verdict, asked, before, glued, reads>>

\* The end of the file inside a line: it is still torn, or was rolled back, and
\* what came after it, if anything, ends before the place the reader is at.
RefuseTorn(m) ==
  /\ Reading(m) /\ cut
  /\ EndRead("torn")
  /\ UNCHANGED vars

\* All files read: the counts are printed.
Report ==
  /\ verdict = "reading" /\ todo = {}
  /\ EndRead("ok")
  /\ UNCHANGED vars

ReaderStep ==
  \/ ReadStore
  \/ \E m \in Months :
       \/ ReadFile(m)
       \/ ReadLines(m) \/ ReadTorn(m) \/ ReadOn(m)
       \/ ReadMonth(m) \/ RefuseMonth(m) \/ RefuseTorn(m)
  \/ Report

\* A step of a writer leaves the reader alone; a power loss ends it.
Beside ==
  IF losses' = losses \/ verdict # "reading" THEN UNCHANGED reader
  ELSE EndRead("killed")

RNext == (Next /\ Beside) \/ ReaderStep

RSpec == RInit /\ [][RNext]_rvars

FairRSpec ==
  RSpec /\ \A w \in Writers : WF_vars(Step(w))

-----------------------------------------------------------------------------
ReaderTypeOK ==
  /\ TypeOK
  /\ todo \subseteq Months
  /\ view \in [Months -> Seq(RecordType)]
  /\ at \in [Months -> Nat]
  /\ cut \in BOOLEAN
  /\ head \in RecordType \union {None}
  /\ verdict \in Verdicts
  /\ asked \subseteq Months
  /\ before \in [Months -> Seq(RecordType)]
  /\ glued \in BOOLEAN
  /\ reads \in Nat

\* What writers wrote is never rejected (read_records: "every line validated, and
\* every cross-record invariant held").  The months a reader puts together were
\* read at different moments and may be no state the store ever had, and still
\* no two of their records clash: only a line that is rolled back under the
\* reader and written over can make it see a fault.
RejectsOnlyGlued == verdict = "rejected" => glued

\* A report misses nothing that was in the store when the command began, and
\* but for a line put together from two the reader never knows one the store
\* does not hold (summarize, validate): whatever was acknowledged by then is
\* counted, also when its month is read last, and whatever is glued.
ReportIsBetween ==
  [][verdict = "reading" /\ verdict' = "ok" =>
       \A m \in Months :
         /\ m \in asked => IsPrefix(before[m], view[m])
         /\ ~glued => IsPrefix(view[m], file[m])]_rvars
=============================================================================
