-------------------------------- MODULE Ulid --------------------------------
(***************************************************************************)
(* ulid(), as one process calls it: a millisecond and eighty random bits,  *)
(* which count on instead of being drawn again while the clock stands      *)
(* still or has stepped back.  Both parts are printed with a fixed number  *)
(* of digits of an ascending alphabet, so two ids compare as their pairs   *)
(* of numbers do.  The guard of the code makes each call one step.         *)
(***************************************************************************)
EXTENDS Integers, Sequences, TLAPS

CONSTANTS MaxMs,      \* ULID_MAX_MS
          MaxEntropy  \* ULID_MAX_ENTROPY

VARIABLES last,  \* _ULID_LAST: no id yet (empty), or the pair issued last
          ids    \* history: what the calls returned, in order

vars == <<last, ids>>

Stamps == 0 .. MaxMs
Entropies == 0 .. MaxEntropy
Ids == Stamps \X Entropies

\* How the printed ids sort.
Before(a, b) == a[1] < b[1] \/ (a[1] = b[1] /\ a[2] < b[2])

Init == last = << >> /\ ids = << >>

Issue(id) ==
  /\ last' = id
  /\ ids' = Append(ids, id)

\* The clock shows no later millisecond than that of the last id.
Clamped(now) == last # << >> /\ now <= last[1]

\* The first id, or a later millisecond than the last one: new random bits.
Fresh(now) ==
  /\ ~Clamped(now)
  /\ \E entropy \in Entropies : Issue(<<now, entropy>>)

\* The same millisecond, or an earlier one: the last id plus one.
CountOn(now) ==
  /\ Clamped(now)
  /\ last[2] < MaxEntropy
  /\ Issue(<<last[1], last[2] + 1>>)

\* No bits are left: on to the next millisecond, ahead of the clock.
RunAhead(now) ==
  /\ Clamped(now)
  /\ last[2] = MaxEntropy
  /\ last[1] < MaxMs
  /\ Issue(<<last[1] + 1, 0>>)

\* The clock shows any time; out of range, and when all is used up, the call
\* raises and leaves everything as it was.
Mint == \E now \in Stamps : Fresh(now) \/ CountOn(now) \/ RunAhead(now)

Spec == Init /\ [][Mint]_vars

-----------------------------------------------------------------------------
\* ulid: "ids issued in order sort in order" within a process, and so no two
\* are equal, whatever the clock shows between the calls.
IdsIncrease == \A i, j \in 1 .. Len(ids) : i < j => Before(ids[i], ids[j])

\* The last id is remembered, and in range: why the next one can be compared.
LastIsLast ==
  /\ ids \in Seq(Ids)
  /\ last = IF ids = << >> THEN << >> ELSE ids[Len(ids)]

UlidInv == LastIsLast /\ IdsIncrease

\* What is issued after the last id comes after all ids before it.
LEMMA IssueIncreases ==
  ASSUME UlidInv, NEW id \in Ids, Issue(id),
         ids # << >> => Before(ids[Len(ids)], id)
  PROVE  UlidInv'
<1>1. ids \in Seq(Ids) /\ Len(ids) \in Nat
  BY DEF UlidInv, LastIsLast
<1>2. ids' \in Seq(Ids) /\ Len(ids') = Len(ids) + 1 /\ ids'[Len(ids')] = id
  BY <1>1 DEF Issue
<1>3. \A i \in 1 .. Len(ids) : ids'[i] = ids[i] /\ ids[i] \in Ids
  BY <1>1 DEF Issue
<1>4. LastIsLast'
  BY <1>2 DEF LastIsLast, Issue
<1>5. ASSUME NEW i \in 1 .. Len(ids'), NEW j \in 1 .. Len(ids'), i < j
      PROVE  Before(ids'[i], ids'[j])
  <2>1. CASE j <= Len(ids)
    BY <2>1, <1>1, <1>2, <1>3, <1>5 DEF UlidInv, IdsIncrease
  <2>2. CASE j > Len(ids)
    <3>1. j = Len(ids') /\ i \in 1 .. Len(ids) /\ ids'[j] = id
      BY <2>2, <1>1, <1>2, <1>5
    <3>2. Len(ids) \in 1 .. Len(ids) /\ ids # << >> /\ ids[Len(ids)] \in Ids /\ ids[i] \in Ids
      BY <3>1, <1>1, <1>3
    <3>3. i = Len(ids) \/ Before(ids[i], ids[Len(ids)])
      BY <3>1, <3>2, <1>1 DEF UlidInv, IdsIncrease
    <3> QED BY <3>1, <3>2, <3>3, <1>3 DEF Before, Ids, Stamps, Entropies
  <2> QED BY <2>1, <2>2, <1>1, <1>2
<1> QED BY <1>4, <1>5 DEF UlidInv, IdsIncrease

\* No step of the clock, forward or back, makes ulid() repeat itself or go
\* back: in one process ids sort in the order in which they were issued.
THEOREM MintedIdsIncrease ==
  ASSUME MaxMs \in Nat, MaxEntropy \in Nat
  PROVE  Spec => []IdsIncrease
<1>1. Init => UlidInv
  BY DEF Init, UlidInv, LastIsLast, IdsIncrease
<1>2. UlidInv /\ [Mint]_vars => UlidInv'
  <2> SUFFICES ASSUME UlidInv, [Mint]_vars PROVE UlidInv'
    OBVIOUS
  <2>1. /\ ids \in Seq(Ids) /\ (last = << >> <=> ids = << >>)
        /\ last # << >> => last = ids[Len(ids)] /\ last \in Ids
    <3>1. \A id \in Ids : id # << >>
      <4> SUFFICES ASSUME NEW a \in Stamps, NEW b \in Entropies PROVE <<a, b>> # << >>
        BY DEF Ids
      <4>1. Len(<<a, b>>) = 2 /\ Len(<< >>) = 0
        OBVIOUS
      <4> QED BY <4>1
    <3>2. ids \in Seq(Ids)
      BY DEF UlidInv, LastIsLast
    <3>3. ids # << >> => ids[Len(ids)] \in Ids
      BY <3>2
    <3> QED BY <3>1, <3>2, <3>3 DEF UlidInv, LastIsLast
  <2>2. ASSUME NEW now \in Stamps, Fresh(now) PROVE UlidInv'
    <3>1. PICK entropy \in Entropies : Issue(<<now, entropy>>)
      BY <2>2 DEF Fresh
    <3>2. <<now, entropy>> \in Ids
      BY <3>1 DEF Ids
    <3>3. ids # << >> => Before(ids[Len(ids)], <<now, entropy>>)
      BY <2>1, <2>2 DEF Fresh, Clamped, Before, Ids, Stamps
    <3> QED BY <3>1, <3>2, <3>3, IssueIncreases
  <2>3. ASSUME NEW now \in Stamps, CountOn(now) PROVE UlidInv'
    <3>1. last[1] \in Stamps /\ last[2] \in Entropies
      BY <2>1, <2>3 DEF CountOn, Clamped, Ids
    <3>2. <<last[1], last[2] + 1>> \in Ids
      BY <3>1, <2>3 DEF CountOn, Ids, Entropies
    <3>3. ids # << >> => Before(ids[Len(ids)], <<last[1], last[2] + 1>>)
      BY <2>1, <3>1 DEF Before, Stamps, Entropies
    <3> QED BY <2>3, <3>2, <3>3, IssueIncreases DEF CountOn
  <2>4. ASSUME NEW now \in Stamps, RunAhead(now) PROVE UlidInv'
    <3>1. last[1] \in Stamps /\ last[2] \in Entropies
      BY <2>1, <2>4 DEF RunAhead, Clamped, Ids
    <3>2. <<last[1] + 1, 0>> \in Ids
      BY <3>1, <2>4 DEF RunAhead, Ids, Stamps, Entropies
    <3>3. ids # << >> => Before(ids[Len(ids)], <<last[1] + 1, 0>>)
      BY <2>1, <3>1 DEF Before, Stamps
    <3> QED BY <2>4, <3>2, <3>3, IssueIncreases DEF RunAhead
  <2>5. CASE UNCHANGED vars
    BY <2>5 DEF vars, UlidInv, LastIsLast, IdsIncrease
  <2> QED BY <2>2, <2>3, <2>4, <2>5 DEF Mint
<1>3. UlidInv => IdsIncrease
  BY DEF UlidInv
<1> QED BY <1>1, <1>2, <1>3, PTL DEF Spec
=============================================================================
