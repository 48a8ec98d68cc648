---------------------------- MODULE AgyProvider ----------------------------
(***************************************************************************)
(* One provider run of delegate-to-antigravity (run_provider): a single    *)
(* loop that watches the deadline, the state budget and the two pipes of   *)
(* the provider, stops it with SIGTERM and later SIGKILL, and returns when *)
(* the provider has exited AND both pipes are at end of file.              *)
(*                                                                         *)
(* A descendant of the provider may hold the pipes after it is gone.       *)
(***************************************************************************)
EXTENDS Naturals

CONSTANTS MaxChunks   \* bound: chunks written per pipe

ASSUME ProviderAssumption == MaxChunks \in Nat

Pipes == {"out", "err"}

VARIABLES provider, code,   \* "running" or "dead"; its exit status
          helper, held,     \* "none", "alive" or "exited"; the pipes it holds
          sent, taken,      \* per pipe: chunks written; chunks read
          written,          \* per pipe: chunks written to its log
          over,             \* the state tree is at STOP_BYTES
          deadlinePassed, graceOver,
          registered,       \* pipes the selector still watches
          ready,            \* pipes select() returned, not handled yet
          reason,           \* why the run is stopped
          killed,           \* SIGKILL was sent
          pc                \* "check", "select", "handle" or "done"

env == <<provider, code, helper, held, sent, over, deadlinePassed, graceOver>>
vars == <<env, taken, written, registered, ready, reason, killed, pc>>

Init ==
  /\ provider = "running" /\ code = 0
  /\ helper = "none" /\ held = {}
  /\ sent = [p \in Pipes |-> 0]
  /\ taken = sent /\ written = sent
  /\ over = FALSE /\ deadlinePassed = FALSE /\ graceOver = FALSE
  /\ registered = Pipes /\ ready = {}
  /\ reason = "none" /\ killed = FALSE
  /\ pc = "check"

Loop == <<taken, written, registered, ready, reason, killed, pc>>

-----------------------------------------------------------------------------
(* The provider, its descendant, the clock and the disk.                   *)

Holds(p) == provider = "running" \/ (helper = "alive" /\ p \in held)

Write(p) ==
  /\ Holds(p) /\ sent[p] < MaxChunks
  /\ sent' = [sent EXCEPT ![p] = @ + 1]
  /\ UNCHANGED <<provider, code, helper, held, over, deadlinePassed, graceOver, Loop>>

StateChanges ==
  /\ over' = ~over
  /\ UNCHANGED <<provider, code, helper, held, sent, deadlinePassed, graceOver, Loop>>

ProviderExits ==
  /\ provider = "running"
  /\ provider' = "dead"
  /\ \E c \in {0, 1} : code' = c /\ (killed => c = 1)
  /\ \/ helper' = "alive" /\ held' \in SUBSET Pipes
     \/ UNCHANGED <<helper, held>>
  /\ UNCHANGED <<sent, over, deadlinePassed, graceOver, Loop>>

HelperExits ==
  /\ helper = "alive" /\ helper' = "exited"
  /\ UNCHANGED <<provider, code, held, sent, over, deadlinePassed, graceOver, Loop>>

DeadlinePasses ==
  /\ ~deadlinePassed /\ deadlinePassed' = TRUE
  /\ UNCHANGED <<provider, code, helper, held, sent, over, graceOver, Loop>>

\* Two seconds after terminated_at.
GraceEnds ==
  /\ reason # "none"
  /\ ~graceOver /\ graceOver' = TRUE
  /\ UNCHANGED <<provider, code, helper, held, sent, over, deadlinePassed, Loop>>

-----------------------------------------------------------------------------
(* The loop.                                                               *)

\* Bug: the loop ends with the provider, whatever the pipes still hold.
FinishedWithProvider == provider = "dead"

Finished == registered = {} /\ provider = "dead"

Return ==
  /\ pc = "check"
  /\ Finished
  /\ pc' = "done"
  /\ UNCHANGED <<env, taken, written, registered, ready, reason, killed>>

\* Why the top of the loop stops the run now, if it does.
Stop ==
  CASE over -> "state_budget"
    [] ~over /\ deadlinePassed -> "timeout"
    [] OTHER -> "none"

\* Bug: a provider that ignores SIGTERM is waited for.
KillDueNever == FALSE

KillDue == reason # "none" /\ provider = "running" /\ graceOver

Check ==
  /\ pc = "check"
  /\ ~Finished
  /\ reason' = IF reason = "none" THEN Stop ELSE reason
  /\ killed' = (killed \/ KillDue)
  /\ pc' = "select"
  /\ UNCHANGED <<env, taken, written, registered, ready>>

AtEof(p) == taken[p] = sent[p] /\ ~Holds(p)

\* Bug: a pipe at end of file is not returned.
ReturnedIfData(p) == taken[p] < sent[p]

Returned(p) == taken[p] < sent[p] \/ AtEof(p)

\* selector.select(0.1): the pipes with data or at end of file, or none.
Select ==
  /\ pc = "select"
  /\ ready' = {p \in registered : Returned(p)}
  /\ pc' = IF ready' = {} THEN "check" ELSE "handle"
  /\ UNCHANGED <<env, taken, written, registered, reason, killed>>

NextAfter(p) == IF ready \ {p} = {} THEN "check" ELSE "handle"

Unregister(p) ==
  /\ pc = "handle" /\ p \in ready
  /\ taken[p] = sent[p]
  /\ registered' = registered \ {p}
  /\ ready' = ready \ {p}
  /\ pc' = NextAfter(p)
  /\ UNCHANGED <<env, taken, written, reason, killed>>

\* Data is kept while nothing stops the run, the chunk that would overrun included.
Copies(p, r) == r = "none"

\* What os.read can return: a part of it or all.
Unread(p) == sent[p] - taken[p]

\* One os.read.
Read(p) ==
  /\ pc = "handle" /\ p \in ready
  /\ \E n \in 1 .. Unread(p), overrun \in BOOLEAN :
       /\ over => overrun
       /\ taken' = [taken EXCEPT ![p] = @ + n]
       /\ reason' = IF reason = "none" /\ overrun THEN "state_budget" ELSE reason
       /\ written' = IF Copies(p, reason') THEN [written EXCEPT ![p] = @ + n] ELSE written
  /\ ready' = ready \ {p}
  /\ pc' = NextAfter(p)
  /\ UNCHANGED <<env, registered, killed>>

Manager ==
  \/ Return \/ Check \/ Select
  \/ \E p \in Pipes : Unregister(p) \/ Read(p)

Next ==
  \/ \E p \in Pipes : Write(p)
  \/ StateChanges \/ ProviderExits \/ HelperExits \/ DeadlinePasses \/ GraceEnds
  \/ Manager

Spec == Init /\ [][Next]_vars

\* The loop runs, time passes, and the kernel delivers SIGKILL; nothing is
\* assumed of the provider or of its descendant.
FairSpec ==
  /\ Spec
  /\ WF_vars(Manager) /\ WF_vars(DeadlinePasses) /\ WF_vars(GraceEnds)
  /\ WF_vars(killed /\ ProviderExits)

-----------------------------------------------------------------------------
TypeOK ==
  /\ provider \in {"running", "dead"} /\ code \in {0, 1}
  /\ helper \in {"none", "alive", "exited"} /\ held \subseteq Pipes
  /\ sent \in [Pipes -> 0 .. MaxChunks]
  /\ taken \in [Pipes -> 0 .. MaxChunks]
  /\ written \in [Pipes -> 0 .. MaxChunks]
  /\ over \in BOOLEAN /\ deadlinePassed \in BOOLEAN /\ graceOver \in BOOLEAN
  /\ registered \subseteq Pipes /\ ready \subseteq Pipes
  /\ reason \in {"none", "state_budget", "timeout"}
  /\ killed \in BOOLEAN
  /\ pc \in {"check", "select", "handle", "done"}

Succeeded == pc = "done" /\ reason = "none" /\ code = 0

\* A run reported as exit 0 has its logs whole: every chunk the provider or its
\* descendant wrote was logged, whatever order the pipes closed in.
SuccessIsWhole == Succeeded => \A p \in Pipes : written[p] = sent[p]

\* A provider over its time is dead in the end, also one that ignores SIGTERM
\* ("test_timeout_terminates_provider").
TimeoutStopsProvider == reason = "timeout" ~> provider = "dead"

\* The run itself ends, at its timeout at the latest, if nothing outlives the
\* provider for ever; without that assumption it does not ("Capture a provider
\* run while enforcing its timeout").
RunEnds == WF_vars(HelperExits) => <>(pc = "done")
=============================================================================
