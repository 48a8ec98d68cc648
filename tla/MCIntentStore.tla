--------------------------- MODULE MCIntentStore ---------------------------
(* IntentStore on small instances: the requests callers make.              *)
EXTENDS IntentStore, TLC

CONSTANTS r1, r2, s1, other, m1, m2, c1

WriterSymmetry == Permutations(Writers)

Intent(origin, run, session, ordinal, month) ==
  [ kind |-> "intent", event_id |-> None, origin |-> origin, run |-> run,
    session |-> session, ordinal |-> ordinal, terminal |-> FALSE,
    orphan |-> FALSE, allowOrphan |-> FALSE, month |-> month, valid |-> TRUE ]

Outcome(origin, run, ordinal, terminal, allowOrphan, month) ==
  [ kind |-> "outcome", event_id |-> None, origin |-> origin, run |-> run,
    session |-> None, ordinal |-> ordinal, terminal |-> terminal,
    orphan |-> ~allowOrphan, allowOrphan |-> allowOrphan, month |-> month,
    valid |-> TRUE ]

Rekey(id) ==
  [ kind |-> "rekey", event_id |-> id, origin |-> None, run |-> r1,
    session |-> None, ordinal |-> None, terminal |-> FALSE, orphan |-> FALSE,
    allowOrphan |-> FALSE, month |-> m1, valid |-> TRUE ]

\* Every identity rule has two requests that meet it: r1 with the origin
\* omitted and with it spelled out; explicit and derived ordinals, in one
\* bucket, across months; a caller's event_id twice; a record that fails.
IdentityRequests ==
  { Intent(None, r1, None, None, None),
    Intent(Local, r1, s1, 0, m2),
    Intent(Local, r2, None, 0, m2),
    Outcome(None, r1, None, TRUE, FALSE, m2),
    Outcome(Local, r1, 0, TRUE, TRUE, m1),
    [Outcome(other, r1, None, FALSE, TRUE, m1) EXCEPT !.valid = FALSE],
    Rekey(c1),
    [Outcome(None, r1, None, FALSE, FALSE, m2) EXCEPT !.event_id = c1] }

\* What a power loss can separate: an intent and its outcome in two files.
DurabilityRequests ==
  { Intent(None, r1, None, None, m1),
    Intent(None, r2, None, None, m2),
    Outcome(None, r1, None, FALSE, TRUE, m2) }
============================================================================
