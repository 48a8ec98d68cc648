--------------------------- MODULE IntentRecords ---------------------------
(***************************************************************************)
(* The records of the intent store, as far as its identity rules read      *)
(* them, and the keys those rules compare.                                 *)
(***************************************************************************)
EXTENDS Naturals

CONSTANTS Months,     \* the months a record's ts can fall in
          CallerIds,  \* event_ids supplied by callers
          Origins,    \* origins a record may name
          Runs,       \* run_id values
          Sessions,   \* session_id values
          Local,      \* DEFAULT_ORIGIN
          None        \* an absent field; no process

ASSUME RecordsAssumption ==
  /\ Local \in Origins
  /\ None \notin Months \union Origins \union Sessions \union CallerIds \union Nat
  /\ CallerIds \intersect Nat = {}

Kinds == {"intent", "outcome", "rekey"}

\* ulid() mints numbers: all that matters is that no two are equal.
EventIds == CallerIds \union Nat

\* A line of a store file.  `call' is a history field: which call wrote it.
RecordType ==
  [ event_id : EventIds, kind : Kinds, origin : Origins \union {None}, run : Runs,
    session : Sessions \union {None}, ordinal : Nat \union {None},
    terminal : BOOLEAN, orphan : BOOLEAN, month : Months, valid : BOOLEAN,
    call : Nat ]

\* An omitted origin means local: for keying, the record stays as written.
OriginOf(r) == IF r.origin = None THEN Local ELSE r.origin

RunKey(r)     == <<OriginOf(r), r.run>>
SessionKey(r) == <<OriginOf(r), r.session>>
SpawnKey(r)   == <<OriginOf(r), r.session, r.ordinal>>
OutcomeKey(r) == <<OriginOf(r), r.run, r.ordinal>>

IsIntent(r)   == r.kind = "intent"
IsOutcome(r)  == r.kind = "outcome"
IsTerminal(r) == IsOutcome(r) /\ r.terminal

\* Two lines that StoreIndex.add complains about, whichever comes second.
Clash(r, s) ==
  \/ r.event_id = s.event_id
  \/ IsIntent(r) /\ IsIntent(s) /\ RunKey(r) = RunKey(s)
  \/ IsIntent(r) /\ IsIntent(s) /\ SpawnKey(r) = SpawnKey(s)
  \/ IsOutcome(r) /\ IsOutcome(s) /\ OutcomeKey(r) = OutcomeKey(s)
  \/ IsTerminal(r) /\ IsTerminal(s) /\ RunKey(r) = RunKey(s)
============================================================================
