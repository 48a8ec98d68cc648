----------------------------- MODULE IntentLog -----------------------------
(***************************************************************************)
(* What the record store promises its readers and callers, with no files,  *)
(* locks or processes: a set of records that grows by one record at a      *)
(* time, in which no two records clash, whose orphan flags are true when   *)
(* written, and from which nothing that was acknowledged is ever lost.     *)
(***************************************************************************)
EXTENDS IntentRecords

VARIABLES log,    \* the records in the store
          acked   \* event_ids whose caller was told "recorded"

logVars == <<log, acked>>

Init == log = {} /\ acked = {}

\* An outcome is flagged iff no intent of its run is there at that moment.
OrphanFlagIsTrue(r) ==
  r.orphan <=> IsOutcome(r) /\ \A s \in log : IsIntent(s) => RunKey(s) # RunKey(r)

Add(r) ==
  /\ \A s \in log : ~Clash(r, s)
  /\ OrphanFlagIsTrue(r)
  /\ r.valid
  /\ log' = log \union {r}
  /\ UNCHANGED acked

Acknowledge(r) ==
  /\ acked' = acked \union {r.event_id}
  /\ UNCHANGED log

\* A power loss takes records nobody was told of.
Lose(lost) ==
  /\ \A r \in lost : r.event_id \notin acked
  /\ log' = log \ lost
  /\ UNCHANGED acked

Next ==
  \/ \E r \in log' \ log : Add(r)
  \/ \E r \in log : Acknowledge(r)
  \/ Lose(log \ log')

Spec == Init /\ [][Next]_logVars

\* No two records of the log clash: what every reader of the store relies on
\* (read_records: "every cross-record invariant held").
LogConsistent == \A r, s \in log : r # s => ~Clash(r, s)
============================================================================
