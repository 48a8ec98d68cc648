---------------------------- MODULE IntentStore ----------------------------
(***************************************************************************)
(* The driver-side record store of intent-writer: JSONL files, one per     *)
(* month, appended by independent writer processes under an advisory       *)
(* whole-store flock.                                                      *)
(*                                                                         *)
(* A call of write_record is: wait for the lock (or give up at its         *)
(* deadline), scan every month file into an index, prepare and validate    *)
(* the record against that index, append one line with one os.write, roll  *)
(* a short write back, fsync, release.  A process may die between any two  *)
(* of these steps and the kernel then frees its lock; the machine may lose *)
(* power, and then every line that no fsync covered may go.                *)
(*                                                                         *)
(* Records keep the fields the store's identity rules read; every other    *)
(* field is the `valid' verdict of validate_record.                        *)
(***************************************************************************)
EXTENDS IntentRecords, Sequences, FiniteSets, FiniteSetsExt

CONSTANTS Writers,         \* processes that call write_record
          Requests,        \* what callers ask for (fields: see RequestType)
          MaxCalls,        \* bound: calls begun in a behaviour
          MaxPowerLosses   \* bound: power losses in a behaviour

RequestType ==
  [ kind : Kinds, event_id : EventIds \union {None},
    origin : Origins \union {None}, run : Runs, session : Sessions \union {None},
    ordinal : Nat \union {None}, terminal : BOOLEAN, orphan : BOOLEAN,
    allowOrphan : BOOLEAN, month : Months \union {None}, valid : BOOLEAN ]

ASSUME ConstantsAssumption ==
  /\ Requests \subseteq RequestType
  /\ None \notin Writers
  /\ IsFiniteSet(Months)
  /\ MaxCalls \in Nat
  /\ MaxPowerLosses \in Nat

-----------------------------------------------------------------------------
(* The index: every invariant the write path needs, over the WHOLE store.  *)

At(f, p) == f[p[1]][p[2]]

Positions(f) == UNION {{m} \X (1 .. Len(f[m])) : m \in Months}

RecordsIn(f) == {At(f, p) : p \in Positions(f)}

\* Bug: a caller's retry is not recognised by its event_id.
HasEventIdForgotten(f, id) == FALSE

HasEventId(f, id) == \E r \in RecordsIn(f) : r.event_id = id
HasIntent(f, key) == \E r \in RecordsIn(f) : IsIntent(r) /\ RunKey(r) = key
\* Bug: an absent session is no bucket, so its ordinals are not compared.
HasSpawnOfSession(f, key) ==
  key[2] # None /\ \E r \in RecordsIn(f) : IsIntent(r) /\ SpawnKey(r) = key

HasSpawn(f, key) == \E r \in RecordsIn(f) : IsIntent(r) /\ SpawnKey(r) = key
HasOutcome(f, key) == \E r \in RecordsIn(f) : IsOutcome(r) /\ OutcomeKey(r) = key
HasTerminal(f, key) == \E r \in RecordsIn(f) : IsTerminal(r) /\ RunKey(r) = key

\* Some line is one the index complains about when it folds it in.
Complaint(f) == \E p, q \in Positions(f) : p # q /\ Clash(At(f, p), At(f, q))

\* Bug: the ordinal of the last spawn instead of the next.
LastSpawnOrdinal(f, key) ==
  Cardinality({p \in Positions(f) : IsIntent(At(f, p)) /\ SessionKey(At(f, p)) = key}) - 1

NextSpawnOrdinal(f, key) ==
  Cardinality({p \in Positions(f) : IsIntent(At(f, p)) /\ SessionKey(At(f, p)) = key})

OutcomeOrdinals(f, key) ==
  {r.ordinal : r \in {s \in RecordsIn(f) : IsOutcome(s) /\ RunKey(s) = key}} \ {None}

NextOutcomeOrdinal(f, key) ==
  IF OutcomeOrdinals(f, key) = {} THEN 0 ELSE Max(OutcomeOrdinals(f, key)) + 1

-----------------------------------------------------------------------------
(* Preparing a record from a request, and what refuses it.                 *)

PreparedOrdinal(f, q) ==
  IF q.ordinal # None \/ q.kind = "rekey" THEN q.ordinal
  ELSE IF IsIntent(q) THEN NextSpawnOrdinal(f, SessionKey(q))
  ELSE NextOutcomeOrdinal(f, RunKey(q))

\* Bug: the caller's claim is believed.
PreparedOrphanClaimed(f, q) == IsOutcome(q) /\ q.orphan

\* The caller's claim about `orphan' is dropped: the writer owns the flag.
PreparedOrphan(f, q) == IsOutcome(q) /\ ~HasIntent(f, RunKey(q))

Prepared(f, q, id, m, n) ==
  [ event_id |-> id, kind |-> q.kind, origin |-> q.origin,
    run |-> q.run, session |-> q.session, ordinal |-> PreparedOrdinal(f, q),
    terminal |-> q.terminal, orphan |-> PreparedOrphan(f, q),
    month |-> m, valid |-> q.valid, call |-> n ]

\* The refusals of _resolve_intent, _resolve_outcome and write_record.
Admissible(f, q, r) ==
  /\ r.valid
  /\ ~HasEventId(f, r.event_id)
  /\ IsIntent(r) => ~HasIntent(f, RunKey(r)) /\ ~HasSpawn(f, SpawnKey(r))
  /\ IsOutcome(r) => /\ r.orphan => q.allowOrphan
                     /\ ~HasOutcome(f, OutcomeKey(r))
                     /\ r.terminal => ~HasTerminal(f, RunKey(r))

-----------------------------------------------------------------------------
VARIABLES file,     \* [Months -> Seq(RecordType)]: the complete lines
          torn,     \* [Months -> BOOLEAN]: a last line without its newline
          durable,  \* [Months -> Nat]: lines an fsync has covered
          lock,     \* the process that holds the flock, or None
          pc, req, idx, rec, result, \* per process: the call in progress
          call,     \* per process: history, the number of that call
          calls,    \* calls begun
          minted,   \* event_ids minted by ulid()
          acked,    \* history: event_ids whose caller was told "recorded"
          unsure,   \* history: calls that ever ended in UNKNOWN COMMIT
          losses    \* power losses so far

shared == <<file, torn, durable>>
history == <<acked, unsure>>
vars == <<file, torn, durable, lock, pc, req, idx, rec, result, call, calls,
          minted, acked, unsure, losses>>

Steps == {"idle", "wait", "scan", "prepare", "write", "rollback", "sync", "release"}

Critical == {"scan", "prepare", "write", "rollback", "sync", "release"}

Results == {"none", "ok", "error", "unknown", "died"}

Empty == [m \in Months |-> << >>]

Init ==
  /\ file = Empty
  /\ torn = [m \in Months |-> FALSE]
  /\ durable = [m \in Months |-> 0]
  /\ lock = None
  /\ pc = [w \in Writers |-> "idle"]
  /\ req = [w \in Writers |-> None]
  /\ idx = [w \in Writers |-> Empty]
  /\ rec = [w \in Writers |-> None]
  /\ result = [w \in Writers |-> "none"]
  /\ call = [w \in Writers |-> 0]
  /\ calls = 0
  /\ minted = 0
  /\ acked = {}
  /\ unsure = {}
  /\ losses = 0

\* A caller starts write_record with some request.
Begin(w, q) ==
  /\ pc[w] = "idle"
  /\ calls < MaxCalls
  /\ calls' = calls + 1
  /\ call' = [call EXCEPT ![w] = calls + 1]
  /\ req' = [req EXCEPT ![w] = q]
  /\ rec' = [rec EXCEPT ![w] = None]
  /\ result' = [result EXCEPT ![w] = "none"]
  /\ pc' = [pc EXCEPT ![w] = "wait"]
  /\ UNCHANGED <<shared, lock, idx, minted, history, losses>>

\* After UNKNOWN COMMIT the caller retries as told: with the returned event_id.
Retry(w) ==
  /\ pc[w] = "idle"
  /\ result[w] = "unknown"
  /\ req' = [req EXCEPT ![w].event_id = rec[w].event_id]
  /\ rec' = [rec EXCEPT ![w] = None]
  /\ result' = [result EXCEPT ![w] = "none"]
  /\ pc' = [pc EXCEPT ![w] = "wait"]
  /\ UNCHANGED <<shared, lock, idx, call, calls, minted, history, losses>>

\* Bug: a waiter takes over a lock that looks stale.
AcquireReclaims(w) ==
  /\ pc[w] = "wait"
  /\ lock' = w
  /\ pc' = [pc EXCEPT ![w] = "scan"]
  /\ UNCHANGED <<shared, req, idx, rec, result, call, calls, minted, history, losses>>

\* flock(LOCK_EX | LOCK_NB) succeeds.
Acquire(w) ==
  /\ pc[w] = "wait"
  /\ lock = None
  /\ lock' = w
  /\ pc' = [pc EXCEPT ![w] = "scan"]
  /\ UNCHANGED <<shared, req, idx, rec, result, call, calls, minted, history, losses>>

\* It fails, and the deadline has passed: the descriptor is closed, RecordError.
GiveUp(w) ==
  /\ pc[w] = "wait"
  /\ lock # None
  /\ req' = [req EXCEPT ![w] = None]
  /\ pc' = [pc EXCEPT ![w] = "idle"]
  /\ result' = [result EXCEPT ![w] = "error"]
  /\ UNCHANGED <<shared, lock, idx, rec, call, calls, minted, history, losses>>

\* index_store: one scan of every file into the index.
Scan(w) ==
  /\ pc[w] = "scan"
  /\ \A m \in Months : ~torn[m]
  /\ ~Complaint(file)
  /\ idx' = [idx EXCEPT ![w] = file]
  /\ pc' = [pc EXCEPT ![w] = "prepare"]
  /\ UNCHANGED <<shared, lock, req, rec, result, call, calls, minted, history, losses>>

Fail(w) ==
  /\ result' = [result EXCEPT ![w] = "error"]
  /\ pc' = [pc EXCEPT ![w] = "release"]

\* The scan fails closed on an incomplete last line (or on a damaged store).
ScanRefused(w) ==
  /\ pc[w] = "scan"
  /\ (\E m \in Months : torn[m]) \/ Complaint(file)
  /\ Fail(w)
  /\ UNCHANGED <<shared, lock, req, idx, rec, call, calls, minted, history, losses>>

\* The event_id: the caller's, or a fresh one from ulid().
EventIdOf(w) == IF req[w].event_id = None THEN minted ELSE req[w].event_id

\* The month file named by ts: the caller's, or the wall clock's.
MonthsOf(w) == IF req[w].month = None THEN Months ELSE {req[w].month}

\* _prepare and validate_record accept (an id minted in vain is never seen).
Prepare(w) ==
  /\ pc[w] = "prepare"
  /\ \E m \in MonthsOf(w) :
       LET r == Prepared(idx[w], req[w], EventIdOf(w), m, call[w]) IN
         /\ Admissible(idx[w], req[w], r)
         /\ rec' = [rec EXCEPT ![w] = r]
  /\ minted' = IF req[w].event_id = None THEN minted + 1 ELSE minted
  /\ pc' = [pc EXCEPT ![w] = "write"]
  /\ UNCHANGED <<shared, lock, req, idx, result, call, calls, history, losses>>

\* Some check refuses.
Refuse(w) ==
  /\ pc[w] = "prepare"
  /\ \E m \in MonthsOf(w) :
       ~Admissible(idx[w], req[w],
                   Prepared(idx[w], req[w], EventIdOf(w), m, call[w]))
  /\ Fail(w)
  /\ UNCHANGED <<shared, lock, req, idx, rec, call, calls, minted, history, losses>>

-----------------------------------------------------------------------------
(* _append: one line, one os.write, then fsync.                            *)

Target(w) == rec[w].month

WriteFull(w) ==
  /\ pc[w] = "write"
  /\ file' = [file EXCEPT ![Target(w)] = Append(@, rec[w])]
  /\ pc' = [pc EXCEPT ![w] = "sync"]
  /\ UNCHANGED <<torn, durable, lock, req, idx, rec, result, call, calls,
                 minted, history, losses>>

\* Fewer bytes than the line (disk full, quota, signal).
WriteShort(w) ==
  /\ pc[w] = "write"
  /\ torn' = [torn EXCEPT ![Target(w)] = TRUE]
  /\ pc' = [pc EXCEPT ![w] = "rollback"]
  /\ UNCHANGED <<file, durable, lock, req, idx, rec, result, call, calls,
                 minted, history, losses>>

\* Opening the file, or the write itself, raises: nothing was written.
WriteFails(w) ==
  /\ pc[w] = "write"
  /\ Fail(w)
  /\ UNCHANGED <<shared, lock, req, idx, rec, call, calls, minted, history, losses>>

\* Bug: the rollback goes one line too far.
RollbackDropsLine(w) ==
  /\ pc[w] = "rollback"
  /\ torn' = [torn EXCEPT ![Target(w)] = FALSE]
  /\ file' = [file EXCEPT ![Target(w)] = IF @ = << >> THEN @ ELSE SubSeq(@, 1, Len(@) - 1)]
  /\ Fail(w)
  /\ UNCHANGED <<durable, lock, req, idx, rec, call, calls, minted, history, losses>>

\* ftruncate to the size before the write and fsync (which may raise, and then
\* covers nothing), then RecordError.
Rollback(w) ==
  /\ pc[w] = "rollback"
  /\ torn' = [torn EXCEPT ![Target(w)] = FALSE]
  /\ \E n \in {durable[Target(w)], Len(file[Target(w)])} :
       durable' = [durable EXCEPT ![Target(w)] = n]
  /\ Fail(w)
  /\ UNCHANGED <<file, lock, req, idx, rec, call, calls, minted, history, losses>>

\* ftruncate itself raises: the partial line stays.
RollbackFails(w) ==
  /\ pc[w] = "rollback"
  /\ Fail(w)
  /\ UNCHANGED <<shared, lock, req, idx, rec, call, calls, minted, history, losses>>

\* Bug: success is reported without the fsync.
SyncSkipped(w) ==
  /\ pc[w] = "sync"
  /\ result' = [result EXCEPT ![w] = "ok"]
  /\ pc' = [pc EXCEPT ![w] = "release"]
  /\ UNCHANGED <<shared, lock, req, idx, rec, call, calls, minted, history, losses>>

SyncOk(w) ==
  /\ pc[w] = "sync"
  /\ durable' = [durable EXCEPT ![Target(w)] = Len(file[Target(w)])]
  /\ result' = [result EXCEPT ![w] = "ok"]
  /\ pc' = [pc EXCEPT ![w] = "release"]
  /\ UNCHANGED <<file, torn, lock, req, idx, rec, call, calls, minted,
                 history, losses>>

\* Bug: a failed fsync is an ordinary failure.
SyncFailsAsError(w) ==
  /\ pc[w] = "sync"
  /\ Fail(w)
  /\ UNCHANGED <<shared, lock, req, idx, rec, call, calls, minted, history, losses>>

\* fsync raises: UnknownCommitError; any part of the unsynced tail may be on disk.
SyncFails(w) ==
  /\ pc[w] = "sync"
  /\ \E n \in durable[Target(w)] .. Len(file[Target(w)]) :
       durable' = [durable EXCEPT ![Target(w)] = n]
  /\ result' = [result EXCEPT ![w] = "unknown"]
  /\ unsure' = unsure \union {call[w]}
  /\ pc' = [pc EXCEPT ![w] = "release"]
  /\ UNCHANGED <<file, torn, lock, req, idx, rec, call, calls, minted, acked, losses>>

\* Leaving the with block frees the flock, then the caller hears the result.
Release(w) ==
  /\ pc[w] = "release"
  /\ lock' = None
  /\ idx' = [idx EXCEPT ![w] = Empty]
  /\ req' = [req EXCEPT ![w] = IF result[w] = "unknown" THEN @ ELSE None]
  /\ rec' = [rec EXCEPT ![w] = IF result[w] = "unknown" THEN @ ELSE None]
  /\ acked' = IF result[w] = "ok" THEN acked \union {rec[w].event_id} ELSE acked
  /\ pc' = [pc EXCEPT ![w] = "idle"]
  /\ UNCHANGED <<shared, result, call, calls, minted, unsure, losses>>

-----------------------------------------------------------------------------
\* Bug: the lock is a sentinel that outlives its process.
CrashKeepsLock(w) ==
  /\ pc[w] # "idle"
  /\ pc' = [pc EXCEPT ![w] = "idle"]
  /\ idx' = [idx EXCEPT ![w] = Empty]
  /\ req' = [req EXCEPT ![w] = None]
  /\ rec' = [rec EXCEPT ![w] = None]
  /\ result' = [result EXCEPT ![w] = "died"]
  /\ UNCHANGED <<shared, lock, call, calls, minted, history, losses>>

\* The process dies; the kernel closes its descriptors, which frees the flock.
Crash(w) ==
  /\ pc[w] # "idle"
  /\ lock' = IF lock = w THEN None ELSE lock
  /\ pc' = [pc EXCEPT ![w] = "idle"]
  /\ idx' = [idx EXCEPT ![w] = Empty]
  /\ req' = [req EXCEPT ![w] = None]
  /\ rec' = [rec EXCEPT ![w] = None]
  /\ result' = [result EXCEPT ![w] = "died"]
  /\ UNCHANGED <<shared, call, calls, minted, history, losses>>

\* What is left of month m after a power loss that kept its first n lines.
KeptLines(n) == [m \in Months |-> SubSeq(file[m], 1, n[m])]

PowerLoss ==
  /\ losses < MaxPowerLosses
  /\ losses' = losses + 1
  /\ \E n \in [Months -> 0 .. Max({Len(file[m]) : m \in Months} \union {0})] :
       /\ \A m \in Months : durable[m] <= n[m] /\ n[m] <= Len(file[m])
       /\ file' = KeptLines(n)
       /\ durable' = n
       /\ \E t \in [Months -> BOOLEAN] :
            /\ \A m \in Months : t[m] => torn[m] \/ n[m] < Len(file[m])
            /\ torn' = t
  /\ lock' = None
  /\ pc' = [w \in Writers |-> "idle"]
  /\ idx' = [w \in Writers |-> Empty]
  /\ req' = [w \in Writers |-> None]
  /\ rec' = [w \in Writers |-> None]
  /\ result' = [w \in Writers |-> "died"]
  /\ UNCHANGED <<call, calls, minted, history>>

Step(w) ==
  \/ Acquire(w) \/ GiveUp(w)
  \/ Scan(w) \/ ScanRefused(w)
  \/ Prepare(w) \/ Refuse(w)
  \/ WriteFull(w) \/ WriteShort(w) \/ WriteFails(w)
  \/ Rollback(w) \/ RollbackFails(w)
  \/ SyncOk(w) \/ SyncFails(w)
  \/ Release(w)

Next ==
  \/ \E w \in Writers :
       \/ \E q \in Requests : Begin(w, q)
       \/ Retry(w)
       \/ Step(w)
       \/ Crash(w)
  \/ PowerLoss

Spec == Init /\ [][Next]_vars

\* A running process keeps running until it is done or dies: its own loop
\* polls the lock until a deadline, everything else is straight-line code.
FairSpec == Spec /\ \A w \in Writers : WF_vars(Step(w))

-----------------------------------------------------------------------------
\* When a process holds a request, and when a prepared record.
HasRequest(w) == pc[w] # "idle" \/ result[w] = "unknown"

HasRecord(w) ==
  \/ pc[w] \in {"write", "rollback", "sync"}
  \/ pc[w] = "release" /\ result[w] = "ok"
  \/ result[w] = "unknown"

TypeOK ==
  /\ file \in [Months -> Seq(RecordType)]
  /\ torn \in [Months -> BOOLEAN]
  /\ durable \in [Months -> Nat]
  /\ lock \in Writers \union {None}
  /\ pc \in [Writers -> Steps]
  /\ req \in [Writers -> RequestType \union {None}]
  /\ idx \in [Writers -> [Months -> Seq(RecordType)]]
  /\ rec \in [Writers -> RecordType \union {None}]
  /\ \A w \in Writers : HasRequest(w) => req[w] \in RequestType
  /\ \A w \in Writers : HasRecord(w) => rec[w] \in RecordType
  /\ result \in [Writers -> Results]
  /\ call \in [Writers -> Nat]
  /\ calls \in Nat
  /\ minted \in Nat
  /\ acked \subseteq EventIds
  /\ unsure \subseteq Nat
  /\ losses \in Nat

\* One process at a time is between taking and releasing the flock, however
\* holders die and others time out (store_lock: "none of those races").
MutualExclusion ==
  \A w \in Writers : pc[w] \in Critical <=> lock = w

\* From its scan until its append a writer's index is the store itself: no
\* check it makes is stale when the bytes go out (write_record, one scan).
IndexFresh ==
  \A w \in Writers : pc[w] \in {"prepare", "write"} => idx[w] = file

\* SPEC.md "Record identity": unique event_id, one intent per (origin, run),
\* one intent per (origin, session, ordinal), one outcome per (origin, run,
\* ordinal), one terminal outcome per (origin, run), over all month files,
\* so that no reader ever rejects what the writers wrote.
StoreConsistent == ~Complaint(file)

\* A record about to be appended clashes with no line of the index it was
\* checked against: with IndexFresh, the reason StoreConsistent is inductive.
RecordFits ==
  \A w \in Writers : pc[w] = "write" =>
    \A r \in RecordsIn(idx[w]) : ~Clash(rec[w], r)

StoreInv == TypeOK /\ MutualExclusion /\ IndexFresh /\ RecordFits /\ StoreConsistent

\* "orphan states what the store showed at write time": an outcome without the
\* flag has its intent in the store (as long as the machine keeps its disk).
OrphanFlagTrue ==
  losses = 0 =>
    \A r \in RecordsIn(file) :
      IsOutcome(r) /\ ~r.orphan => HasIntent(file, RunKey(r))

\* An event_id handed to a caller is in the store for good, crashes and power
\* losses included (_append: "then fsync").
AcknowledgedIsDurable ==
  \A id \in acked : \E m \in Months : \E i \in 1 .. durable[m] : file[m][i].event_id = id

\* A caller that is told "failed" (exit 1, not 3) may retry blindly: the
\* failed call left no record (main: "a caller that retries a 1 blindly
\* would be right").
FailedLeavesNothing ==
  \A w \in Writers :
    pc[w] = "idle" /\ result[w] = "error" /\ call[w] \notin unsure =>
      \A r \in RecordsIn(file) : r.call # call[w]

\* A delegation is recorded at most once, even when its call ended in
\* UNKNOWN COMMIT and is retried with the same event_id.
OneRecordPerCall ==
  \A p, q \in Positions(file) :
    At(file, p).call = At(file, q).call => p = q

\* Only a power loss removes or changes a line; every other step appends.
AppendOnly ==
  [][losses' = losses =>
       \A m \in Months : /\ Len(file[m]) <= Len(file'[m])
                         /\ SubSeq(file'[m], 1, Len(file[m])) = file[m]]_vars

\* A partial line never outlives the call that wrote it: "a short append is
\* rolled back to the pre-write size inside the lock, so a partial line cannot
\* wedge the store" (SPEC.md).
PartialLineIsRolledBack ==
  \A m \in Months :
    torn[m] => \E w \in Writers : pc[w] = "rollback" /\ Target(w) = m

\* The lock never stays with a process: it is free again and again, as every holder
\* gives it back, by its own release, on every error path, or by dying.
LockIsReleased == []<>(lock = None)

\* The files, the lock and the processes implement the abstract log: every
\* step adds one record that clashes with none and has a true orphan flag,
\* acknowledges a stored record, loses unacknowledged ones, or changes nothing.
Log == INSTANCE IntentLog WITH log <- RecordsIn(file)
LogSpec == Log!Spec
=============================================================================
