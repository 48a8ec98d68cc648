------------------------ MODULE AgyProvider_proofs ------------------------
(***************************************************************************)
(* Proofs about one provider run, for any number of chunks per pipe.       *)
(***************************************************************************)
EXTENDS AgyProvider, TLAPS

\* A pipe is let go at end of file only, and from then on nobody writes to it;
\* what was read is logged as long as nothing stops the run.
PipeInv ==
  /\ \A p \in Pipes : written[p] <= taken[p] /\ taken[p] <= sent[p]
  /\ reason = "none" => \A p \in Pipes : written[p] = taken[p]
  /\ \A p \in Pipes \ registered : AtEof(p)
  /\ \A p \in ready : Returned(p)
  /\ pc = "done" => registered = {}

LoopInv == TypeOK /\ PipeInv

LEMMA InitLoopInv == Init => LoopInv
<1> SUFFICES ASSUME Init PROVE LoopInv
  OBVIOUS
<1>1. \A p \in Pipes : sent[p] = 0 /\ taken[p] = 0 /\ written[p] = 0
  BY DEF Init
<1>2. sent \in [Pipes -> 0 .. MaxChunks] /\ taken = sent /\ written = sent
  BY ProviderAssumption DEF Init
<1>3. TypeOK
  BY <1>2 DEF Init, TypeOK
<1>4. PipeInv
  BY <1>1 DEF Init, PipeInv
<1> QED BY <1>3, <1>4 DEF LoopInv

\* Only a pipe that is held grows, and one that is let go stays so.
LEMMA EofStays ==
  ASSUME TypeOK, NEW p \in Pipes, AtEof(p),
         \/ \E o \in Pipes : Write(o)
         \/ StateChanges \/ ProviderExits \/ HelperExits \/ DeadlinePasses \/ GraceEnds
  PROVE  AtEof(p)'
BY DEF TypeOK, AtEof, Holds, Write, StateChanges, ProviderExits, HelperExits,
     DeadlinePasses, GraceEnds, Loop

\* What the kernel had for the loop at the time of select() it has still.
LEMMA EnvironmentKeeps ==
  ASSUME LoopInv,
         \/ \E o \in Pipes : Write(o)
         \/ StateChanges \/ ProviderExits \/ HelperExits \/ DeadlinePasses \/ GraceEnds
  PROVE  LoopInv'
<1> USE ProviderAssumption
<1>1. UNCHANGED Loop
  BY DEF Write, StateChanges, ProviderExits, HelperExits, DeadlinePasses, GraceEnds
<1>2. sent' \in [Pipes -> 0 .. MaxChunks] /\ \A p \in Pipes : sent[p] <= sent'[p]
  BY DEF LoopInv, TypeOK, Write, StateChanges, ProviderExits, HelperExits, DeadlinePasses, GraceEnds
<1>3. TypeOK'
  <2>1. /\ provider' \in {"running", "dead"} /\ code' \in {0, 1}
        /\ helper' \in {"none", "alive", "exited"} /\ held' \subseteq Pipes
    BY DEF LoopInv, TypeOK, Write, StateChanges, ProviderExits, HelperExits, DeadlinePasses, GraceEnds
  <2>2. over' \in BOOLEAN /\ deadlinePassed' \in BOOLEAN /\ graceOver' \in BOOLEAN
    BY DEF LoopInv, TypeOK, Write, StateChanges, ProviderExits, HelperExits, DeadlinePasses, GraceEnds
  <2> QED BY <1>1, <1>2, <2>1, <2>2 DEF LoopInv, TypeOK, Loop
<1>4. \A p \in Pipes : AtEof(p) => AtEof(p)'
  BY EofStays DEF LoopInv
<1>5. PipeInv'
  BY <1>1, <1>2, <1>4 DEF LoopInv, PipeInv, TypeOK, Loop, Returned
<1> QED BY <1>3, <1>5 DEF LoopInv

LEMMA NextLoopInv == LoopInv /\ [Next]_vars => LoopInv'
<1> SUFFICES ASSUME LoopInv, [Next]_vars PROVE LoopInv'
  OBVIOUS
<1> USE ProviderAssumption DEF LoopInv
<1>1. CASE \/ \E p \in Pipes : Write(p)
           \/ StateChanges \/ ProviderExits \/ HelperExits \/ DeadlinePasses \/ GraceEnds
  BY <1>1, EnvironmentKeeps
<1>2. CASE Return
  BY <1>2 DEF Return, Finished, TypeOK, PipeInv, AtEof, Returned, Holds, env
<1>3. CASE Check
  BY <1>3 DEF Check, Stop, TypeOK, PipeInv, AtEof, Returned, Holds, env
<1>4. CASE Select
  BY <1>4 DEF Select, TypeOK, PipeInv, AtEof, Returned, Holds, env
<1>5. ASSUME NEW p \in Pipes, Unregister(p) PROVE LoopInv'
  \* It was returned, and not for data: nothing was read since.
  <2>1. AtEof(p)
    BY <1>5 DEF Unregister, PipeInv, TypeOK, Returned
  <2> QED BY <1>5, <2>1 DEF Unregister, NextAfter, TypeOK, PipeInv, AtEof, Returned, Holds, env
<1>6. ASSUME NEW p \in Pipes, Read(p) PROVE LoopInv'
  <2>1. PICK n \in 1 .. Unread(p), overrun \in BOOLEAN :
          /\ taken' = [taken EXCEPT ![p] = @ + n]
          /\ reason' = IF reason = "none" /\ overrun THEN "state_budget" ELSE reason
          /\ written' = IF Copies(p, reason') THEN [written EXCEPT ![p] = @ + n] ELSE written
    BY <1>6 DEF Read
  <2>2. /\ UNCHANGED <<env, registered, killed>>
        /\ p \in ready /\ ready' = ready \ {p} /\ pc' = NextAfter(p)
    BY <1>6 DEF Read
  <2>3. n \in Nat /\ n >= 1 /\ taken[p] + n <= sent[p]
    BY <2>1 DEF Unread, TypeOK
  <2>4. p \in registered
    BY <2>3 DEF PipeInv, AtEof, TypeOK
  <2>5. /\ \A o \in Pipes : written'[o] <= taken'[o] /\ taken'[o] <= sent[o]
        /\ reason' = "none" => \A o \in Pipes : written'[o] = taken'[o]
        /\ taken' \in [Pipes -> 0 .. MaxChunks] /\ written' \in [Pipes -> 0 .. MaxChunks]
    BY <2>1, <2>3 DEF Copies, PipeInv, TypeOK
  <2>6. TypeOK'
    BY <2>1, <2>2, <2>5 DEF TypeOK, NextAfter, env
  <2>7. \A o \in Pipes \ {p} : taken'[o] = taken[o]
    BY <2>1 DEF TypeOK
  <2>8. PipeInv'
    BY <2>2, <2>4, <2>5, <2>7 DEF PipeInv, TypeOK, AtEof, Returned, Holds, NextAfter, env
  <2> QED BY <2>6, <2>8
<1>7. CASE UNCHANGED vars
  BY <1>7 DEF vars, env, TypeOK, PipeInv, AtEof, Returned, Holds
<1> QED BY <1>1, <1>2, <1>3, <1>4, <1>5, <1>6, <1>7 DEF Next, Manager

\* Every reachable state of a provider run is well typed: in particular the loop
\* never reads or logs past what a pipe can have carried.
THEOREM ProviderTypeCorrect == Spec => []TypeOK
<1>1. LoopInv => TypeOK
  BY DEF LoopInv
<1> QED BY <1>1, InitLoopInv, NextLoopInv, PTL DEF Spec

\* A run that ends with exit 0 and was not stopped has logged all the provider
\* and its descendant wrote, in whatever parts it was read and in whatever order
\* the pipes closed.
THEOREM SuccessfulRunsAreWhole == Spec => []SuccessIsWhole
<1>1. LoopInv => SuccessIsWhole
  BY DEF LoopInv, PipeInv, AtEof, Succeeded, SuccessIsWhole
<1> QED BY <1>1, InitLoopInv, NextLoopInv, PTL DEF Spec
===========================================================================
