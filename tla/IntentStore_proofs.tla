------------------------ MODULE IntentStore_proofs ------------------------
(***************************************************************************)
(* Proofs about the record store and its readers, for any sets of          *)
(* processes, months and requests and any number of crashes, power losses, *)
(* calls and reads: identity and exclusion; durability and the refinement  *)
(* of IntentLog; calls and retries; readers without the lock.  Each part   *)
(* adds to the invariant of the one before.                                *)
(***************************************************************************)
EXTENDS IntentReaders, TLAPS, FiniteSetTheorems, WellFoundedInduction

-----------------------------------------------------------------------------
(* Identity and exclusion.                                                 *)

Less == OpToRel(<, Nat)

\* A finite set of naturals is bounded (by the least-number principle).
LEMMA FiniteIsBounded ==
  ASSUME NEW S \in SUBSET Nat, IsFiniteSet(S)
  PROVE  \E b \in Nat : \A s \in S : s <= b
<1> DEFINE n == Cardinality(S)
<1>1. n \in Nat /\ ExistsBijection(1 .. n, S)
  BY FS_CardinalityType
<1>2. PICK f \in [1 .. n -> S] : \A s \in S : \E i \in 1 .. n : f[i] = s
  BY <1>1 DEF ExistsBijection, Bijection, Surjection
<1> DEFINE Bounded(k) == \E b \in Nat : \A i \in 1 .. k : f[i] <= b
           T == {k \in 0 .. n : ~Bounded(k)}
<1>3. T = {}
  <2> SUFFICES ASSUME T # {} PROVE FALSE
    OBVIOUS
  <2>1. PICK k \in T : \A j \in T : ~(<<j, k>> \in Less)
    <3> HIDE DEF T
    <3>1. IsWellFoundedOn(Less, Nat)
      BY NatLessThanWellFounded DEF Less
    <3>2. T \subseteq Nat
      BY <1>1 DEF T
    <3> QED BY <3>1, <3>2, WFMin
  <2>2. k # 0
    <3>1. 0 \in Nat /\ \A i \in 1 .. 0 : f[i] <= 0
      OBVIOUS
    <3>2. \E b \in Nat : \A i \in 1 .. 0 : f[i] <= b
      BY <3>1
    <3> QED BY <3>2
  <2>3. k \in Nat /\ k - 1 \in 0 .. n /\ k \in 1 .. n
    BY <1>1, <2>2
  <2>4. Bounded(k - 1)
    <3> HIDE DEF n, Bounded
    <3>1. SUFFICES ASSUME ~Bounded(k - 1) PROVE FALSE
      OBVIOUS
    <3>2. k - 1 \in T
      BY <3>1, <2>3
    <3>3. <<k - 1, k>> \in Less
      BY <2>3 DEF Less, OpToRel
    <3> QED BY <3>2, <3>3, <2>1
  <2>5. PICK b \in Nat : \A i \in 1 .. (k - 1) : f[i] <= b
    BY <2>4
  <2>6. f[k] \in Nat
    BY <1>2, <2>3
  <2>7. \A i \in 1 .. k : f[i] <= b + f[k]
    <3> TAKE i \in 1 .. k
    <3>1. CASE i = k
      BY <3>1, <2>5, <2>6
    <3>2. CASE i # k
      <4> HIDE DEF n, T
      <4>1. i \in 1 .. (k - 1) /\ i \in 1 .. n
        BY <3>2, <2>3, <1>1
      <4>2. f[i] \in Nat
        BY <4>1, <1>2
      <4> QED BY <4>1, <4>2, <2>5, <2>6
    <3> QED BY <3>1, <3>2
  <2>8. b + f[k] \in Nat
    <3> HIDE DEF n, T, Bounded
    <3> QED BY <2>5, <2>6
  <2>9. Bounded(k)
    BY <2>7, <2>8
  <2> QED BY <2>9
<1>4. Bounded(n)
  <2>1. n \in 0 .. n
    BY <1>1
  <2> HIDE DEF Bounded
  <2> QED BY <2>1, <1>3
<1> QED BY <1>2, <1>4

\* The largest element that the next outcome ordinal is derived from.
LEMMA MaxOfNaturals ==
  ASSUME NEW S \in SUBSET Nat, IsFiniteSet(S), S # {}
  PROVE  Max(S) \in S
<1> DEFINE U == {n \in Nat : \A s \in S : s <= n}
<1>1. U # {}
  BY FiniteIsBounded
<1>2. PICK m \in U : \A n \in U : ~(<<n, m>> \in Less)
  <2> HIDE DEF U
  <2>1. IsWellFoundedOn(Less, Nat)
    BY NatLessThanWellFounded DEF Less
  <2>2. U \subseteq Nat
    BY DEF U
  <2> QED BY <1>1, <2>1, <2>2, WFMin
<1>3. m \in S
  <2> SUFFICES ASSUME m \notin S PROVE FALSE
    OBVIOUS
  <2>1. m \in Nat /\ \A s \in S : s < m
    OBVIOUS
  <2>2. PICK s0 \in S : TRUE
    OBVIOUS
  <2>3. m - 1 \in Nat
    BY <2>1, <2>2
  <2>4. \A s \in S : s <= m - 1
    BY <2>1
  <2>5. m - 1 \in U
    BY <2>3, <2>4
  <2>6. <<m - 1, m>> \in Less
    BY <2>1, <2>3 DEF Less, OpToRel
  <2> QED BY <2>5, <2>6, <1>2
<1>4. \A s \in S : m >= s
  OBVIOUS
<1> QED BY <1>3, <1>4 DEF Max

-----------------------------------------------------------------------------
Files == [Months -> Seq(RecordType)]

\* The image of a finite set under a function is finite.
LEMMA ImageFinite ==
  ASSUME NEW S, IsFiniteSet(S), NEW T, NEW g \in [S -> T],
         \A y \in T : \E x \in S : g[x] = y
  PROVE  IsFiniteSet(T)
<1>1. g \in Surjection(S, T)
  BY DEF Surjection
<1> QED BY <1>1, FS_Surjection

\* A store has finitely many lines.
LEMMA PositionsFinite ==
  ASSUME NEW f \in Files
  PROVE  IsFiniteSet(Positions(f))
<1> DEFINE Lines(m) == {m} \X (1 .. Len(f[m]))
           S == {Lines(m) : m \in Months}
<1>1. IsFiniteSet(S)
  <2> DEFINE g == [m \in Months |-> Lines(m)]
  <2>1. g \in [Months -> S] /\ \A y \in S : \E m \in Months : g[m] = y
    <3> HIDE DEF Lines
    <3> QED OBVIOUS
  <2> HIDE DEF g, S
  <2> QED BY <2>1, ImageFinite, ConstantsAssumption
<1>2. \A m \in Months : IsFiniteSet(Lines(m))
  <2> TAKE m \in Months
  <2>1. Len(f[m]) \in Int
    BY DEF Files
  <2>2. IsFiniteSet(1 .. Len(f[m]))
    BY <2>1, FS_Interval
  <2>3. IsFiniteSet({m})
    BY FS_Singleton
  <2> QED BY <2>2, <2>3, FS_Product
<1>3. \A T \in S : IsFiniteSet(T)
  BY <1>2
<1>4. IsFiniteSet(UNION S)
  <2> HIDE DEF S
  <2> QED BY <1>1, <1>3, FS_UNION
<1> QED BY <1>4 DEF Positions

\* The longest file of a store has a length.
LEMMA LongestType ==
  ASSUME NEW f \in Files
  PROVE  Max({Len(f[m]) : m \in Months} \union {0}) \in Nat
<1> DEFINE L == {Len(f[m]) : m \in Months}
           g == [m \in Months |-> Len(f[m])]
<1>1. g \in [Months -> L] /\ \A y \in L : \E m \in Months : g[m] = y
  OBVIOUS
<1>2. L \subseteq Nat
  BY DEF Files
<1>3. IsFiniteSet(L)
  <2> HIDE DEF g, L
  <2> QED BY <1>1, ImageFinite, ConstantsAssumption
<1>4. IsFiniteSet(L \union {0}) /\ L \union {0} \in SUBSET Nat /\ L \union {0} # {}
  <2>1. IsFiniteSet({0})
    BY FS_Singleton
  <2> HIDE DEF L
  <2>2. IsFiniteSet(L \union {0})
    BY <1>3, <2>1, FS_Union
  <2> QED BY <1>2, <2>2
<1> HIDE DEF L
<1>5. Max(L \union {0}) \in Nat
  BY <1>4, MaxOfNaturals
<1> QED BY <1>5 DEF L

\* A position of a store names a month and a line of that month's file.
LEMMA PositionType ==
  ASSUME NEW f \in Files, NEW p \in Positions(f)
  PROVE  /\ p[1] \in Months
         /\ p[2] \in 1 .. Len(f[p[1]])
         /\ p = <<p[1], p[2]>>
         /\ At(f, p) \in RecordType
BY DEF Files, Positions, At

\* Every line of a typed store is a record.
LEMMA RecordsType ==
  ASSUME NEW f \in Files
  PROVE  RecordsIn(f) \subseteq RecordType /\ IsFiniteSet(RecordsIn(f))
<1>1. RecordsIn(f) \subseteq RecordType
  BY PositionType DEF RecordsIn
<1>2. IsFiniteSet(RecordsIn(f))
  <2> DEFINE g == [p \in Positions(f) |-> At(f, p)]
  <2>1. /\ g \in [Positions(f) -> RecordsIn(f)]
        /\ \A y \in RecordsIn(f) : \E p \in Positions(f) : g[p] = y
    BY DEF RecordsIn
  <2> HIDE DEF g
  <2> QED BY <2>1, PositionsFinite, ImageFinite
<1> QED BY <1>1, <1>2

\* Both derived ordinals are naturals: a count, and one more than a maximum.
LEMMA OrdinalType ==
  ASSUME NEW f \in Files, NEW key
  PROVE  NextSpawnOrdinal(f, key) \in Nat /\ NextOutcomeOrdinal(f, key) \in Nat
<1>1. NextSpawnOrdinal(f, key) \in Nat
  <2> DEFINE T == {p \in Positions(f) : IsIntent(At(f, p)) /\ SessionKey(At(f, p)) = key}
  <2>1. IsFiniteSet(T)
    <3>1. T \in SUBSET Positions(f)
      OBVIOUS
    <3> HIDE DEF T
    <3> QED BY <3>1, PositionsFinite, FS_Subset
  <2> QED BY <2>1, FS_CardinalityType DEF NextSpawnOrdinal
<1>2. NextOutcomeOrdinal(f, key) \in Nat
  <2> DEFINE R == {s \in RecordsIn(f) : IsOutcome(s) /\ RunKey(s) = key}
             O == {r.ordinal : r \in R}
  <2>1. IsFiniteSet(R)
    <3>1. R \in SUBSET RecordsIn(f)
      OBVIOUS
    <3> HIDE DEF R
    <3> QED BY <3>1, RecordsType, FS_Subset
  <2>2. IsFiniteSet(O)
    <3> DEFINE g == [r \in R |-> r.ordinal]
    <3>1. g \in [R -> O] /\ \A y \in O : \E r \in R : g[r] = y
      <4> HIDE DEF R
      <4> QED OBVIOUS
    <3> HIDE DEF R, O, g
    <3> QED BY <2>1, <3>1, ImageFinite
  <2>3. OutcomeOrdinals(f, key) = O \ {None}
    BY DEF OutcomeOrdinals
  <2>4. OutcomeOrdinals(f, key) \in SUBSET Nat
    BY <2>3, RecordsType DEF RecordType
  <2>5. IsFiniteSet(OutcomeOrdinals(f, key))
    <3>1. OutcomeOrdinals(f, key) \in SUBSET O
      BY <2>3
    <3> HIDE DEF O
    <3> QED BY <2>2, <3>1, FS_Subset
  <2> QED BY <2>4, <2>5, MaxOfNaturals DEF NextOutcomeOrdinal
<1> QED BY <1>1, <1>2

\* _prepare makes a whole record of any request a caller can make.
LEMMA PreparedType ==
  ASSUME NEW f \in Files, NEW q \in RequestType, NEW id \in EventIds,
         NEW m \in Months, NEW n \in Nat
  PROVE  Prepared(f, q, id, m, n) \in RecordType
<1>1. PreparedOrdinal(f, q) \in Nat \union {None}
  BY OrdinalType DEF PreparedOrdinal, RequestType
<1>2. PreparedOrphan(f, q) \in BOOLEAN
  BY DEF PreparedOrphan
<1> QED BY <1>1, <1>2 DEF Prepared, RecordType, RequestType


-----------------------------------------------------------------------------
\* The id of a record is the caller's or one that ulid() minted.
LEMMA EventIdType ==
  ASSUME TypeOK, NEW w \in Writers, req[w] \in RequestType
  PROVE  EventIdOf(w) \in EventIds
BY DEF TypeOK, EventIdOf, RequestType, EventIds

\* The empty store with no call in progress is well typed.
LEMMA InitTypeOK == Init => TypeOK
<1> SUFFICES ASSUME Init PROVE TypeOK
  OBVIOUS
<1>1. Empty \in Files
  BY DEF Empty, Files
<1> QED BY <1>1, RecordsAssumption DEF Init, TypeOK, Files, Steps, Results, HasRequest, HasRecord

\* What a step that only moves the call of w to its error path preserves.
LEMMA FailTypeOK ==
  ASSUME TypeOK, NEW w \in Writers, pc[w] # "idle", Fail(w),
         torn' \in [Months -> BOOLEAN],
         UNCHANGED <<file, durable, lock, req, idx, rec, call, calls, minted,
                     acked, unsure, losses>>
  PROVE  TypeOK'
BY DEF TypeOK, Fail, Steps, Results, HasRequest, HasRecord

\* No step of a writer, no crash and no power loss breaks the types.
LEMMA NextTypeOK == TypeOK /\ [Next]_vars => TypeOK'
<1> SUFFICES ASSUME TypeOK, [Next]_vars PROVE TypeOK'
  OBVIOUS
<1> USE DEF Steps, Results, HasRequest, HasRecord
<1>1. ASSUME NEW w \in Writers, NEW q \in Requests, Begin(w, q) PROVE TypeOK'
  <2>1. q \in RequestType
    BY ConstantsAssumption
  <2> QED BY <1>1, <2>1 DEF Begin, TypeOK, shared, history
<1>2. ASSUME NEW w \in Writers, Retry(w) PROVE TypeOK'
  <2>1. req[w] \in RequestType /\ rec[w].event_id \in EventIds
    BY <1>2 DEF Retry, TypeOK, RecordType
  <2>2. [req[w] EXCEPT !.event_id = rec[w].event_id] \in RequestType
    BY <2>1 DEF RequestType
  <2>3. req' \in [Writers -> RequestType \union {None}] /\ req'[w] \in RequestType
    BY <1>2, <2>2 DEF Retry, TypeOK
  <2>4. \A v \in Writers : v # w => req'[v] = req[v] /\ rec'[v] = rec[v]
    BY <1>2 DEF Retry, TypeOK
  <2> QED BY <1>2, <2>3, <2>4 DEF Retry, TypeOK, shared, history
<1>3. ASSUME NEW w \in Writers, Acquire(w) PROVE TypeOK'
  BY <1>3 DEF Acquire, TypeOK, shared, history
<1>4. ASSUME NEW w \in Writers, GiveUp(w) PROVE TypeOK'
  BY <1>4 DEF GiveUp, TypeOK, shared, history
<1>5. ASSUME NEW w \in Writers, Scan(w) PROVE TypeOK'
  BY <1>5 DEF Scan, TypeOK, shared, history
<1>6. ASSUME NEW w \in Writers, ScanRefused(w) PROVE TypeOK'
  BY <1>6, FailTypeOK DEF ScanRefused, shared, history, TypeOK
<1>7. ASSUME NEW w \in Writers, Prepare(w) PROVE TypeOK'
  <2>1. req[w] \in RequestType
    BY <1>7 DEF Prepare, TypeOK
  <2>2. PICK m \in MonthsOf(w) :
          rec' = [rec EXCEPT ![w] =
                    Prepared(idx[w], req[w], EventIdOf(w), m, call[w])]
    BY <1>7 DEF Prepare
  <2>3. m \in Months
    BY <2>1 DEF MonthsOf, RequestType
  <2>4. idx[w] \in Files /\ call[w] \in Nat
    BY DEF TypeOK, Files
  <2>5. Prepared(idx[w], req[w], EventIdOf(w), m, call[w]) \in RecordType
    BY <2>1, <2>3, <2>4, PreparedType, EventIdType
  <2>6. /\ rec' \in [Writers -> RequestType \union RecordType \union {None}]
        /\ rec'[w] \in RecordType
        /\ \A v \in Writers : v # w => rec'[v] = rec[v]
    BY <2>2, <2>5 DEF TypeOK
  <2>7. rec' \in [Writers -> RecordType \union {None}]
    BY <2>2, <2>5 DEF TypeOK
  <2>8. minted' \in Nat
    BY <1>7 DEF Prepare, TypeOK
  <2> QED BY <1>7, <2>6, <2>7, <2>8 DEF Prepare, TypeOK, shared, history
<1>8. ASSUME NEW w \in Writers, Refuse(w) PROVE TypeOK'
  BY <1>8, FailTypeOK DEF Refuse, shared, history, TypeOK
<1>9. ASSUME NEW w \in Writers, WriteFull(w) PROVE TypeOK'
  <2>1. rec[w] \in RecordType /\ Target(w) \in Months
    BY <1>9 DEF WriteFull, TypeOK, Target, RecordType
  <2>2. file' \in [Months -> Seq(RecordType)]
    BY <1>9, <2>1 DEF WriteFull, TypeOK
  <2> QED BY <1>9, <2>1, <2>2 DEF WriteFull, TypeOK, history
<1>10. ASSUME NEW w \in Writers, WriteShort(w) PROVE TypeOK'
  BY <1>10 DEF WriteShort, TypeOK, history
<1>11. ASSUME NEW w \in Writers, WriteFails(w) PROVE TypeOK'
  BY <1>11, FailTypeOK DEF WriteFails, shared, history, TypeOK
<1>12. ASSUME NEW w \in Writers, Rollback(w) PROVE TypeOK'
  <2>1. rec[w] \in RecordType /\ Target(w) \in Months
    BY <1>12 DEF Rollback, TypeOK, Target, RecordType
  <2>2. PICK n \in {durable[Target(w)], Len(file[Target(w)])} :
          durable' = [durable EXCEPT ![Target(w)] = n]
    BY <1>12 DEF Rollback
  <2>3. n \in Nat
    BY <2>1 DEF TypeOK
  <2>4. durable' \in [Months -> Nat]
    BY <2>2, <2>3 DEF TypeOK
  <2> QED BY <1>12, <2>4 DEF Rollback, Fail, TypeOK, history
<1>13. ASSUME NEW w \in Writers, RollbackFails(w) PROVE TypeOK'
  BY <1>13, FailTypeOK DEF RollbackFails, shared, history, TypeOK
<1>14. ASSUME NEW w \in Writers, SyncOk(w) PROVE TypeOK'
  <2>1. rec[w] \in RecordType /\ Target(w) \in Months
    BY <1>14 DEF SyncOk, TypeOK, Target, RecordType
  <2>2. durable' \in [Months -> Nat]
    BY <1>14, <2>1 DEF SyncOk, TypeOK
  <2>3. \A v \in Writers : HasRequest(v)' => HasRequest(v)
    BY <1>14 DEF SyncOk, TypeOK
  <2>4. \A v \in Writers : HasRecord(v)' => v = w \/ HasRecord(v)
    BY <1>14 DEF SyncOk, TypeOK
  <2> QED BY <1>14, <2>1, <2>2, <2>3, <2>4 DEF SyncOk, TypeOK, history
<1>15. ASSUME NEW w \in Writers, SyncFails(w) PROVE TypeOK'
  <2>1. rec[w] \in RecordType /\ Target(w) \in Months
    BY <1>15 DEF SyncFails, TypeOK, Target, RecordType
  <2>2. PICK n \in durable[Target(w)] .. Len(file[Target(w)]) :
          durable' = [durable EXCEPT ![Target(w)] = n]
    BY <1>15 DEF SyncFails
  <2>3. n \in Nat
    BY <2>1 DEF TypeOK
  <2>4. durable' \in [Months -> Nat]
    BY <2>2, <2>3 DEF TypeOK
  <2>5. unsure' \subseteq Nat
    <3>1. call[w] \in Nat /\ unsure \subseteq Nat
      BY DEF TypeOK
    <3>2. unsure' = unsure \union {call[w]}
      BY <1>15 DEF SyncFails
    <3> QED BY <3>1, <3>2
  <2> QED BY <1>15, <2>4, <2>5 DEF SyncFails, TypeOK
<1>16. ASSUME NEW w \in Writers, Release(w) PROVE TypeOK'
  <2>1. Empty \in [Months -> Seq(RecordType)]
    BY DEF Empty
  <2>2. idx' \in [Writers -> [Months -> Seq(RecordType)]]
    BY <1>16, <2>1 DEF Release, TypeOK
  <2>3. result[w] = "ok" => rec[w].event_id \in EventIds
    BY <1>16 DEF Release, TypeOK, RecordType
  <2>4. acked' \subseteq EventIds
    BY <1>16, <2>3 DEF Release, TypeOK
  <2>5. req' \in [Writers -> RequestType \union {None}]
    BY <1>16 DEF Release, TypeOK
  <2>6. rec' \in [Writers -> RecordType \union {None}]
    BY <1>16 DEF Release, TypeOK
  <2>7. \A v \in Writers : HasRequest(v)' => req'[v] \in RequestType
    BY <1>16 DEF Release, TypeOK
  <2>8. \A v \in Writers : HasRecord(v)' => rec'[v] \in RecordType
    BY <1>16 DEF Release, TypeOK
  <2> QED BY <1>16, <2>2, <2>4, <2>5, <2>6, <2>7, <2>8 DEF Release, TypeOK, shared
<1>17. ASSUME NEW w \in Writers, Crash(w) PROVE TypeOK'
  <2>1. Empty \in [Months -> Seq(RecordType)]
    BY DEF Empty
  <2>2. idx' \in [Writers -> [Months -> Seq(RecordType)]]
    BY <1>17, <2>1 DEF Crash, TypeOK
  <2> QED BY <1>17, <2>2 DEF Crash, TypeOK, shared, history
<1>18. ASSUME PowerLoss PROVE TypeOK'
  <2>1. PICK n \in [Months -> 0 .. Max({Len(file[m]) : m \in Months} \union {0})] :
          /\ \A m \in Months : durable[m] <= n[m] /\ n[m] <= Len(file[m])
          /\ file' = KeptLines(n)
          /\ durable' = n
          /\ \E t \in [Months -> BOOLEAN] : torn' = t
    BY <1>18 DEF PowerLoss
  <2>2. n \in [Months -> Nat]
    <3>1. Max({Len(file[m]) : m \in Months} \union {0}) \in Nat
      BY LongestType DEF TypeOK, Files
    <3> QED BY <2>1, <3>1
  <2>3. file' \in [Months -> Seq(RecordType)]
    <3>1. \A m \in Months : SubSeq(file[m], 1, n[m]) \in Seq(RecordType)
      BY <2>1, <2>2 DEF TypeOK
    <3> QED BY <2>1, <3>1 DEF KeptLines
  <2>4. Empty \in [Months -> Seq(RecordType)]
    BY DEF Empty
  <2> QED BY <1>18, <2>1, <2>2, <2>3, <2>4 DEF PowerLoss, TypeOK, history
<1>19. CASE UNCHANGED vars
  BY <1>19 DEF vars, TypeOK
<1> QED
  BY <1>1, <1>2, <1>3, <1>4, <1>5, <1>6, <1>7, <1>8, <1>9, <1>10, <1>11,
     <1>12, <1>13, <1>14, <1>15, <1>16, <1>17, <1>18, <1>19 DEF Next, Step

\* The store's state keeps its types through any interleaving of calls,
\* crashes and power losses; in particular every process past _prepare holds
\* a whole record with natural ordinals.
THEOREM TypeCorrect == Spec => []TypeOK
BY InitTypeOK, NextTypeOK, PTL DEF Spec


-----------------------------------------------------------------------------
(* Lines of a store after an append, and after a power loss.               *)

AppendTo(f, m, r) == [f EXCEPT ![m] = Append(@, r)]

\* One append adds one position, and every older line stays where it was.
LEMMA AppendPositions ==
  ASSUME NEW f \in Files, NEW m \in Months, NEW r \in RecordType,
         NEW p \in Positions(AppendTo(f, m, r))
  PROVE  \/ p \in Positions(f) /\ At(AppendTo(f, m, r), p) = At(f, p)
         \/ p = <<m, Len(f[m]) + 1>> /\ At(AppendTo(f, m, r), p) = r
<1> DEFINE g == AppendTo(f, m, r)
<1>1. g \in Files /\ g[m] = Append(f[m], r) /\ \A k \in Months : k # m => g[k] = f[k]
  BY DEF Files, AppendTo
<1>2. PICK k \in Months : p \in {k} \X (1 .. Len(g[k]))
  BY DEF Positions
<1>3. p = <<k, p[2]>> /\ p[1] = k /\ p[2] \in 1 .. Len(g[k])
  BY <1>2
<1> HIDE DEF g
<1>4. CASE k # m
  <2>1. p[2] \in 1 .. Len(f[k]) /\ g[k] = f[k]
    BY <1>1, <1>3, <1>4
  <2>2. p \in Positions(f)
    BY <1>2, <2>1 DEF Positions
  <2>3. At(g, p) = At(f, p)
    BY <1>3, <2>1 DEF At
  <2> QED BY <2>2, <2>3 DEF g
<1>5. CASE k = m /\ p[2] <= Len(f[m])
  <2>1. f[m] \in Seq(RecordType) /\ Len(f[m]) \in Nat
    BY DEF Files
  <2>2. p[2] \in 1 .. Len(f[m])
    BY <1>1, <1>3, <1>5, <2>1
  <2>3. p \in {m} \X (1 .. Len(f[m]))
    BY <1>2, <1>5, <2>2
  <2>4. g[m][p[2]] = f[m][p[2]]
    BY <1>1, <2>1, <2>2
  <2>5. At(g, p) = At(f, p)
    BY <1>3, <1>5, <2>4 DEF At
  <2> QED BY <2>3, <2>5 DEF Positions, g
<1>6. CASE k = m /\ p[2] > Len(f[m])
  <2>1. f[m] \in Seq(RecordType) /\ Len(f[m]) \in Nat
    BY DEF Files
  <2>2. Len(g[m]) = Len(f[m]) + 1 /\ g[m][Len(f[m]) + 1] = r
    BY <1>1, <2>1
  <2>3. p[2] = Len(f[m]) + 1
    BY <1>3, <1>6, <2>1, <2>2
  <2>4. At(g, p) = r
    BY <1>3, <1>6, <2>2, <2>3 DEF At
  <2> QED BY <1>3, <1>6, <2>3, <2>4 DEF g
<1>7. Len(f[m]) \in Nat /\ p[2] \in Int
  BY <1>3 DEF Files
<1> QED BY <1>4, <1>5, <1>6, <1>7

\* Whether two lines clash does not depend on which the index reads first.
LEMMA ClashSymmetric ==
  ASSUME NEW r, NEW s, Clash(r, s)
  PROVE  Clash(s, r)
BY DEF Clash

\* The checks under the lock leave a record that clashes with no stored one.
LEMMA AdmissibleFits ==
  ASSUME NEW f, NEW q, NEW r, Admissible(f, q, r)
  PROVE  \A s \in RecordsIn(f) : ~Clash(r, s)
BY DEF Admissible, Clash, HasEventId, HasIntent, HasSpawn, HasOutcome, HasTerminal,
       IsTerminal

\* Appending a record that fits keeps the store free of complaints.
LEMMA AppendConsistent ==
  ASSUME NEW f \in Files, NEW m \in Months, NEW r \in RecordType,
         ~Complaint(f), \A s \in RecordsIn(f) : ~Clash(r, s)
  PROVE  ~Complaint(AppendTo(f, m, r))
<1> DEFINE g == AppendTo(f, m, r)
<1> SUFFICES ASSUME NEW p \in Positions(g), NEW q \in Positions(g), p # q,
                    Clash(At(g, p), At(g, q))
             PROVE  FALSE
  BY DEF Complaint
<1>1. \/ p \in Positions(f) /\ At(g, p) = At(f, p)
      \/ p = <<m, Len(f[m]) + 1>> /\ At(g, p) = r
  BY AppendPositions
<1>2. \/ q \in Positions(f) /\ At(g, q) = At(f, q)
      \/ q = <<m, Len(f[m]) + 1>> /\ At(g, q) = r
  BY AppendPositions
<1>3. \A o \in Positions(f) : At(f, o) \in RecordsIn(f)
  BY DEF RecordsIn
<1> HIDE DEF g
<1> QED BY <1>1, <1>2, <1>3, ClashSymmetric DEF Complaint

\* Losing the tails of files keeps it so.
LEMMA PrefixConsistent ==
  ASSUME NEW f \in Files, NEW n \in [Months -> Nat],
         \A m \in Months : n[m] <= Len(f[m]), ~Complaint(f)
  PROVE  ~Complaint([m \in Months |-> SubSeq(f[m], 1, n[m])])
<1> DEFINE g == [m \in Months |-> SubSeq(f[m], 1, n[m])]
<1>1. ASSUME NEW p \in Positions(g)
      PROVE  p \in Positions(f) /\ At(g, p) = At(f, p)
  <2>1. PICK k \in Months : p \in {k} \X (1 .. Len(g[k]))
    BY DEF Positions
  <2>2. f[k] \in Seq(RecordType) /\ n[k] \in Nat /\ n[k] <= Len(f[k])
    BY DEF Files
  <2>3. Len(g[k]) = n[k] /\ \A i \in 1 .. n[k] : g[k][i] = f[k][i]
    BY <2>2
  <2>4. p[1] = k /\ p[2] \in 1 .. n[k] /\ p \in {k} \X (1 .. Len(f[k]))
    BY <2>1, <2>2, <2>3
  <2>5. At(g, p) = At(f, p)
    BY <2>3, <2>4 DEF At
  <2> QED BY <2>4, <2>5 DEF Positions
<1> HIDE DEF g
<1>2. ~Complaint(g)
  BY <1>1 DEF Complaint
<1> QED BY <1>2 DEF g


-----------------------------------------------------------------------------
(* The lock makes the index fresh, the fresh index makes the record fit,   *)
(* and appending a record that fits keeps the store consistent.            *)

\* The strengthened invariant holds of the empty store.
LEMMA InitStoreInv == Init => StoreInv
<1> SUFFICES ASSUME Init PROVE StoreInv
  OBVIOUS
<1>1. TypeOK
  BY InitTypeOK
<1>2. MutualExclusion /\ IndexFresh /\ RecordFits
  BY ConstantsAssumption DEF Init, MutualExclusion, IndexFresh, RecordFits, Critical
<1>3. StoreConsistent
  <2>1. Positions(Empty) = {}
    BY DEF Positions, Empty
  <2> QED BY <2>1 DEF Init, StoreConsistent, Complaint
<1> QED BY <1>1, <1>2, <1>3 DEF StoreInv

\* A step of w that keeps the files, w's index and record, and after which w
\* is not about to write, keeps what the index facts say.
LEMMA QuietStep ==
  ASSUME StoreInv, NEW w \in Writers, TypeOK',
         file' = file,
         \A v \in Writers : v # w => pc'[v] = pc[v] /\ idx'[v] = idx[v] /\ rec'[v] = rec[v],
         pc'[w] \notin {"prepare", "write"}
  PROVE  IndexFresh' /\ RecordFits' /\ StoreConsistent'
BY DEF StoreInv, IndexFresh, RecordFits, StoreConsistent

\* It is inductive: every step of every writer keeps all five parts.
LEMMA NextStoreInv == StoreInv /\ [Next]_vars => StoreInv'
<1> SUFFICES ASSUME StoreInv, [Next]_vars PROVE StoreInv'
  OBVIOUS
<1>0. TypeOK /\ TypeOK'
  BY NextTypeOK DEF StoreInv
<1> USE <1>0 DEF Critical, shared
<1>1. ASSUME NEW w \in Writers, NEW q \in Requests, Begin(w, q) PROVE StoreInv'
  <2>1. MutualExclusion'
    BY <1>1 DEF Begin, StoreInv, TypeOK, MutualExclusion
  <2> QED BY <1>1, <2>1, QuietStep DEF Begin, StoreInv, TypeOK
<1>2. ASSUME NEW w \in Writers, Retry(w) PROVE StoreInv'
  <2>1. MutualExclusion'
    BY <1>2 DEF Retry, StoreInv, TypeOK, MutualExclusion
  <2> QED BY <1>2, <2>1, QuietStep DEF Retry, StoreInv, TypeOK
<1>3. ASSUME NEW w \in Writers, Acquire(w) PROVE StoreInv'
  <2>1. MutualExclusion'
    BY <1>3, ConstantsAssumption DEF Acquire, StoreInv, TypeOK, MutualExclusion
  <2> QED BY <1>3, <2>1, QuietStep DEF Acquire, StoreInv, TypeOK
<1>4. ASSUME NEW w \in Writers, GiveUp(w) PROVE StoreInv'
  <2>1. MutualExclusion'
    BY <1>4 DEF GiveUp, StoreInv, TypeOK, MutualExclusion
  <2> QED BY <1>4, <2>1, QuietStep DEF GiveUp, StoreInv, TypeOK
<1>5. ASSUME NEW w \in Writers, Scan(w) PROVE StoreInv'
  <2>1. MutualExclusion'
    BY <1>5 DEF Scan, StoreInv, TypeOK, MutualExclusion
  <2>2. IndexFresh' /\ RecordFits' /\ StoreConsistent'
    BY <1>5 DEF Scan, StoreInv, TypeOK, IndexFresh, RecordFits, StoreConsistent
  <2> QED BY <2>1, <2>2 DEF StoreInv
<1>6. ASSUME NEW w \in Writers, ScanRefused(w) PROVE StoreInv'
  <2>1. MutualExclusion'
    BY <1>6 DEF ScanRefused, Fail, StoreInv, TypeOK, MutualExclusion
  <2> QED BY <1>6, <2>1, QuietStep DEF ScanRefused, Fail, StoreInv, TypeOK
<1>7. ASSUME NEW w \in Writers, Prepare(w) PROVE StoreInv'
  <2>1. MutualExclusion'
    BY <1>7 DEF Prepare, StoreInv, TypeOK, MutualExclusion
  <2>2. IndexFresh' /\ StoreConsistent'
    BY <1>7 DEF Prepare, StoreInv, TypeOK, IndexFresh, StoreConsistent
  <2>3. \A s \in RecordsIn(idx[w]) : ~Clash(rec'[w], s)
    BY <1>7, AdmissibleFits DEF Prepare, TypeOK
  <2>4. RecordFits'
    BY <1>7, <2>3 DEF Prepare, StoreInv, TypeOK, RecordFits
  <2> QED BY <2>1, <2>2, <2>4 DEF StoreInv
<1>8. ASSUME NEW w \in Writers, Refuse(w) PROVE StoreInv'
  <2>1. MutualExclusion'
    BY <1>8 DEF Refuse, Fail, StoreInv, TypeOK, MutualExclusion
  <2> QED BY <1>8, <2>1, QuietStep DEF Refuse, Fail, StoreInv, TypeOK
<1>9. ASSUME NEW w \in Writers, WriteFull(w) PROVE StoreInv'
  <2>1. MutualExclusion'
    BY <1>9 DEF WriteFull, StoreInv, TypeOK, MutualExclusion
  <2>2. \A v \in Writers : v # w => pc[v] \notin Critical /\ pc'[v] = pc[v]
    BY <1>9 DEF WriteFull, StoreInv, TypeOK, MutualExclusion
  <2>3. IndexFresh' /\ RecordFits'
    BY <1>9, <2>2 DEF WriteFull, TypeOK, IndexFresh, RecordFits
  <2>4. rec[w] \in RecordType /\ Target(w) \in Months /\ file \in Files
    BY <1>9 DEF WriteFull, TypeOK, HasRecord, Target, RecordType, Files
  <2>5. \A s \in RecordsIn(file) : ~Clash(rec[w], s)
    BY <1>9 DEF WriteFull, StoreInv, IndexFresh, RecordFits
  <2>6. ~Complaint(AppendTo(file, Target(w), rec[w]))
    BY <2>4, <2>5, AppendConsistent DEF StoreInv, StoreConsistent
  <2>7. StoreConsistent'
    BY <1>9, <2>6 DEF WriteFull, AppendTo, StoreConsistent
  <2> QED BY <2>1, <2>3, <2>7 DEF StoreInv
<1>10. ASSUME NEW w \in Writers, WriteShort(w) PROVE StoreInv'
  <2>1. MutualExclusion'
    BY <1>10 DEF WriteShort, StoreInv, TypeOK, MutualExclusion
  <2> QED BY <1>10, <2>1, QuietStep DEF WriteShort, StoreInv, TypeOK
<1>11. ASSUME NEW w \in Writers, WriteFails(w) PROVE StoreInv'
  <2>1. MutualExclusion'
    BY <1>11 DEF WriteFails, Fail, StoreInv, TypeOK, MutualExclusion
  <2> QED BY <1>11, <2>1, QuietStep DEF WriteFails, Fail, StoreInv, TypeOK
<1>12. ASSUME NEW w \in Writers, Rollback(w) \/ RollbackFails(w) PROVE StoreInv'
  <2>1. MutualExclusion'
    BY <1>12 DEF Rollback, RollbackFails, Fail, StoreInv, TypeOK, MutualExclusion
  <2> QED BY <1>12, <2>1, QuietStep DEF Rollback, RollbackFails, Fail, StoreInv, TypeOK
<1>13. ASSUME NEW w \in Writers, SyncOk(w) \/ SyncFails(w) PROVE StoreInv'
  <2>1. MutualExclusion'
    BY <1>13 DEF SyncOk, SyncFails, StoreInv, TypeOK, MutualExclusion
  <2> QED BY <1>13, <2>1, QuietStep DEF SyncOk, SyncFails, StoreInv, TypeOK
<1>14. ASSUME NEW w \in Writers, Release(w) PROVE StoreInv'
  <2>1. MutualExclusion'
    BY <1>14, ConstantsAssumption DEF Release, StoreInv, TypeOK, MutualExclusion
  <2> QED BY <1>14, <2>1, QuietStep DEF Release, StoreInv, TypeOK
<1>15. ASSUME NEW w \in Writers, Crash(w) PROVE StoreInv'
  <2>1. MutualExclusion'
    BY <1>15, ConstantsAssumption DEF Crash, StoreInv, TypeOK, MutualExclusion
  <2> QED BY <1>15, <2>1, QuietStep DEF Crash, StoreInv, TypeOK
<1>16. ASSUME PowerLoss PROVE StoreInv'
  <2>1. MutualExclusion' /\ IndexFresh' /\ RecordFits'
    BY <1>16, ConstantsAssumption DEF PowerLoss, MutualExclusion, IndexFresh, RecordFits
  <2>2. PICK n : /\ \A m \in Months : n[m] <= Len(file[m])
                 /\ file' = KeptLines(n)
                 /\ durable' = n
    BY <1>16 DEF PowerLoss
  <2>3. n \in [Months -> Nat] /\ file \in Files
    BY <2>2 DEF TypeOK, Files
  <2>4. ~Complaint(KeptLines(n))
    BY <2>2, <2>3, PrefixConsistent DEF KeptLines, StoreInv, StoreConsistent
  <2>5. StoreConsistent'
    BY <2>2, <2>4 DEF StoreConsistent
  <2> QED BY <2>1, <2>5 DEF StoreInv
<1>17. CASE UNCHANGED vars
  BY <1>17 DEF vars, StoreInv, MutualExclusion, IndexFresh, RecordFits, StoreConsistent
<1> QED
  BY <1>1, <1>2, <1>3, <1>4, <1>5, <1>6, <1>7, <1>8, <1>9, <1>10, <1>11,
     <1>12, <1>13, <1>14, <1>15, <1>16, <1>17 DEF Next, Step

\* Hence it holds in every reachable state.
LEMMA StoreInvariant == Spec => []StoreInv
BY InitStoreInv, NextStoreInv, PTL DEF Spec

\* The flock is a lock, whichever holders die and whichever waiters give up.
THEOREM LockExcludes == Spec => []MutualExclusion
<1>1. StoreInv => MutualExclusion
  BY DEF StoreInv
<1> QED BY <1>1, StoreInvariant, PTL

\* No writer acts on a stale index: what it checked is what it appends to.
THEOREM IndexStaysFresh == Spec => []IndexFresh
<1>1. StoreInv => IndexFresh
  BY DEF StoreInv
<1> QED BY <1>1, StoreInvariant, PTL

\* No interleaving of writers, crashes, rollbacks, retries and power losses
\* puts two records that clash into the store.
THEOREM IdentitiesAreUnique == Spec => []StoreConsistent
<1>1. StoreInv => StoreConsistent
  BY DEF StoreInv
<1> QED BY <1>1, StoreInvariant, PTL

-----------------------------------------------------------------------------
(* What is acknowledged stays, and the store implements IntentLog.         *)

\* A step of one writer, whichever action it is.
WriterStep(w) ==
  \/ \E q \in Requests : Begin(w, q)
  \/ Retry(w)
  \/ Step(w)
  \/ Crash(w)

\* A step of the store is one of a writer, a power loss, or none.
LEMMA StepCases ==
  ASSUME [Next]_vars
  PROVE  (\E w \in Writers : WriterStep(w)) \/ PowerLoss \/ UNCHANGED vars
BY DEF Next, WriterStep

\* A writer's step leaves the calls of the other writers alone.
LEMMA OthersKeep ==
  ASSUME TypeOK, NEW w \in Writers, WriterStep(w), NEW v \in Writers, v # w
  PROVE  /\ pc'[v] = pc[v] /\ req'[v] = req[v] /\ idx'[v] = idx[v]
         /\ rec'[v] = rec[v] /\ result'[v] = result[v] /\ call'[v] = call[v]
<1> USE DEF TypeOK, history, Fail
<1>1. CASE (\E q \in Requests : Begin(w, q)) \/ Retry(w) \/ Crash(w)
  BY <1>1 DEF Begin, Retry, Crash
<1>2. CASE Acquire(w) \/ GiveUp(w) \/ Scan(w) \/ ScanRefused(w) \/ Refuse(w)
  BY <1>2 DEF Acquire, GiveUp, Scan, ScanRefused, Refuse
<1>3. CASE Prepare(w)
  BY <1>3 DEF Prepare
<1>4. CASE WriteFull(w) \/ WriteShort(w) \/ WriteFails(w) \/ RollbackFails(w)
  BY <1>4 DEF WriteFull, WriteShort, WriteFails, RollbackFails
<1>5. CASE Rollback(w)
  BY <1>5 DEF Rollback
<1>6. CASE SyncOk(w) \/ SyncFails(w) \/ Release(w)
  BY <1>6 DEF SyncOk, SyncFails, Release
<1> QED BY <1>1, <1>2, <1>3, <1>4, <1>5, <1>6 DEF WriterStep, Step

\* Only a whole write changes the files, and no writer undoes a power loss.
LEMMA FilesKeep ==
  ASSUME TypeOK, NEW w \in Writers, WriterStep(w)
  PROVE  (file' = file \/ WriteFull(w)) /\ losses' = losses
BY DEF WriterStep, Step, Begin, Retry, Crash, Acquire, GiveUp, Scan, ScanRefused, Prepare,
       Refuse, WriteFull, WriteShort, WriteFails, Rollback, RollbackFails, SyncOk, SyncFails,
       Release, shared

\* What a whole write makes of the files.
LEMMA WriteAppends ==
  ASSUME TypeOK, NEW w \in Writers, WriteFull(w)
  PROVE  /\ rec[w] \in RecordType /\ Target(w) \in Months
         /\ file' = AppendTo(file, Target(w), rec[w])
         /\ file'[Target(w)] = Append(file[Target(w)], rec[w])
         /\ \A m \in Months : m # Target(w) => file'[m] = file[m]
BY DEF WriteFull, TypeOK, HasRecord, Target, RecordType, AppendTo

\* Every line stays where it is, unless the machine loses power.
LEMMA LinesStay ==
  ASSUME TypeOK, [Next]_vars, losses' = losses, NEW m \in Months
  PROVE  /\ Len(file[m]) <= Len(file'[m])
         /\ SubSeq(file'[m], 1, Len(file[m])) = file[m]
<1>1. file[m] \in Seq(RecordType) /\ Len(file[m]) \in Nat
  BY DEF TypeOK
<1>2. CASE file' = file
  BY <1>1, <1>2
<1>3. ASSUME NEW w \in Writers, WriteFull(w)
      PROVE  /\ Len(file[m]) <= Len(file'[m])
             /\ SubSeq(file'[m], 1, Len(file[m])) = file[m]
  <2>1. CASE m = Target(w)
    <3>1. file'[m] = Append(file[m], rec[w]) /\ rec[w] \in RecordType
      BY <1>3, <2>1, WriteAppends
    <3> QED BY <1>1, <3>1
  <2>2. CASE m # Target(w)
    BY <1>1, <1>3, <2>2, WriteAppends
  <2> QED BY <2>1, <2>2
<1>4. ~PowerLoss
  BY DEF PowerLoss, TypeOK
<1>5. file' = file \/ \E w \in Writers : WriteFull(w)
  BY <1>4, StepCases, FilesKeep DEF vars
<1> QED BY <1>2, <1>3, <1>5

\* Only a power loss takes or changes a line: no rollback, crash or retry of
\* any writer reaches a line another call has written.
THEOREM FilesOnlyGrow == Spec => AppendOnly
<1>1. TypeOK /\ [Next]_vars =>
        [losses' = losses =>
           \A m \in Months : /\ Len(file[m]) <= Len(file'[m])
                             /\ SubSeq(file'[m], 1, Len(file[m])) = file[m]]_vars
  BY LinesStay
<1> QED BY <1>1, TypeCorrect, PTL DEF Spec, AppendOnly

-----------------------------------------------------------------------------
(* What an fsync has covered stays, and what is acknowledged is covered.   *)

\* No file is shorter than what an fsync has covered of it.
Bounded == \A m \in Months : durable[m] <= Len(file[m])

\* The line that is being synced is the last of its file.
SyncsItsLine ==
  \A w \in Writers : pc[w] = "sync" =>
    /\ file[Target(w)] # << >>
    /\ file[Target(w)][Len(file[Target(w)])] = rec[w]

\* A record that is going to be acknowledged is covered by an fsync.
Covered(m, id) == \E i \in 1 .. durable[m] : file[m][i].event_id = id

ReleasesDurable ==
  \A w \in Writers : pc[w] = "release" /\ result[w] = "ok" =>
    Covered(Target(w), rec[w].event_id)

DurabilityInv ==
  StoreInv /\ Bounded /\ SyncsItsLine /\ ReleasesDurable /\ AcknowledgedIsDurable

\* What a step may do to the covered lines: cover more of them.
Grows ==
  \A m \in Months : /\ durable[m] <= durable'[m]
                    /\ durable'[m] <= Len(file'[m])
                    /\ \A i \in 1 .. durable[m] : file'[m][i] = file[m][i]

\* Keeping the covered lines keeps what is covered.
LEMMA CoveredStays ==
  ASSUME TypeOK, TypeOK', Grows, NEW m \in Months, NEW id, Covered(m, id)
  PROVE  Covered(m, id)'
<1>1. PICK i \in 1 .. durable[m] : file[m][i].event_id = id
  BY DEF Covered
<1>2. durable[m] \in Nat /\ durable'[m] \in Nat
  BY DEF TypeOK
<1>3. i \in 1 .. durable'[m] /\ file'[m][i] = file[m][i]
  BY <1>2 DEF Grows
<1> QED BY <1>1, <1>3 DEF Covered

\* No step of a writer and no power loss takes a covered line: a rollback
\* returns to the size before its own write, which is no less.
LEMMA NextGrows ==
  ASSUME TypeOK, TypeOK', Bounded, [Next]_vars
  PROVE  Grows
<1>0. \A m \in Months : /\ file[m] \in Seq(RecordType) /\ Len(file[m]) \in Nat
                        /\ durable[m] \in Nat /\ durable[m] <= Len(file[m])
  BY DEF TypeOK, Bounded
<1>1. ASSUME file' = file, durable' = durable PROVE Grows
  BY <1>0, <1>1 DEF Grows
<1>2. ASSUME NEW w \in Writers, WriterStep(w) PROVE Grows
  <2>1. CASE WriteFull(w)
    <3>1. durable' = durable
      BY <2>1 DEF WriteFull
    <3>2. \A m \in Months : m # Target(w) => file'[m] = file[m]
      BY <2>1, WriteAppends
    <3>3. rec[w] \in RecordType /\ file'[Target(w)] = Append(file[Target(w)], rec[w])
      BY <2>1, WriteAppends
    <3>4. Target(w) \in Months
      BY <2>1, WriteAppends
    <3>5. /\ Len(file'[Target(w)]) = Len(file[Target(w)]) + 1
          /\ \A i \in 1 .. Len(file[Target(w)]) : file'[Target(w)][i] = file[Target(w)][i]
      BY <1>0, <3>3, <3>4
    <3>6. ASSUME NEW m \in Months
          PROVE  /\ durable[m] <= durable'[m] /\ durable'[m] <= Len(file'[m])
                 /\ \A i \in 1 .. durable[m] : file'[m][i] = file[m][i]
      <4>1. CASE m = Target(w)
        BY <1>0, <3>1, <3>5, <4>1
      <4>2. CASE m # Target(w)
        BY <1>0, <3>1, <3>2, <4>2
      <4> QED BY <4>1, <4>2
    <3> QED BY <3>6 DEF Grows
  <2>2. CASE Rollback(w) \/ SyncOk(w) \/ SyncFails(w)
    <3>1. rec[w] \in RecordType /\ Target(w) \in Months /\ file' = file
      BY <2>2 DEF Rollback, SyncOk, SyncFails, TypeOK, HasRecord, Target, RecordType
    <3>2. PICK n \in durable[Target(w)] .. Len(file[Target(w)]) :
            durable' = [durable EXCEPT ![Target(w)] = n]
      BY <1>0, <2>2, <3>1 DEF Rollback, SyncOk, SyncFails
    <3>3. /\ \A m \in Months : m # Target(w) => durable'[m] = durable[m]
          /\ durable'[Target(w)] = n
      BY <3>1, <3>2 DEF TypeOK
    <3>4. \A m \in Months : durable[m] <= durable'[m] /\ durable'[m] <= Len(file[m])
      BY <1>0, <3>1, <3>2, <3>3
    <3> QED BY <3>1, <3>4 DEF Grows
  <2>3. CASE ~(WriteFull(w) \/ Rollback(w) \/ SyncOk(w) \/ SyncFails(w))
    <3>1. file' = file
      BY <1>2, <2>3, FilesKeep
    <3>2. durable' = durable
      BY <1>2, <2>3 DEF WriterStep, Step, Begin, Retry, Crash, Acquire, GiveUp, Scan,
           ScanRefused, Prepare, Refuse, WriteShort, WriteFails, RollbackFails, Release, shared
    <3> QED BY <3>1, <3>2, <1>1
  <2> QED BY <2>1, <2>2, <2>3
<1>3. ASSUME PowerLoss PROVE Grows
  <2>1. PICK n : /\ \A m \in Months : durable[m] <= n[m] /\ n[m] <= Len(file[m])
                 /\ file' = KeptLines(n)
                 /\ durable' = n
    BY <1>3 DEF PowerLoss
  <2>2. \A m \in Months : n[m] \in Nat
    BY <2>1 DEF TypeOK
  <2>3. \A m \in Months : file'[m] = SubSeq(file[m], 1, n[m])
    BY <2>1 DEF KeptLines
  <2>4. \A m \in Months : Len(file'[m]) = n[m] /\ \A i \in 1 .. n[m] : file'[m][i] = file[m][i]
    BY <1>0, <2>1, <2>2, <2>3
  <2> QED BY <1>0, <2>1, <2>2, <2>4 DEF Grows
<1> QED BY <1>1, <1>2, <1>3, StepCases DEF vars

\* An empty store has nothing to keep.
LEMMA InitDurabilityInv == Init => DurabilityInv
BY InitStoreInv DEF Init, DurabilityInv, Bounded, SyncsItsLine, ReleasesDurable,
   AcknowledgedIsDurable, Empty

\* Every step keeps it: the fsync covers the line just written, the release
\* acknowledges what it covered, and nothing covered is taken back.
LEMMA NextDurabilityInv == DurabilityInv /\ [Next]_vars => DurabilityInv'
<1> SUFFICES ASSUME DurabilityInv, [Next]_vars PROVE DurabilityInv'
  OBVIOUS
<1>1. StoreInv /\ TypeOK /\ MutualExclusion /\ Bounded
  BY DEF DurabilityInv, StoreInv
<1>2. StoreInv' /\ TypeOK'
  BY <1>1, NextStoreInv DEF StoreInv
<1>3. Grows
  BY <1>1, <1>2, NextGrows
<1>4. Bounded'
  BY <1>3 DEF Grows, Bounded
<1>5. SyncsItsLine'
  <2> SUFFICES ASSUME NEW w \in Writers, pc'[w] = "sync"
               PROVE  /\ file'[Target(w)'] # << >>
                      /\ file'[Target(w)'][Len(file'[Target(w)'])] = rec'[w]
    BY DEF SyncsItsLine
  <2>1. CASE PowerLoss \/ UNCHANGED vars
    <3>0. ~PowerLoss
      BY DEF PowerLoss
    <3>1. pc[w] = "sync" /\ file' = file /\ rec' = rec
      BY <2>1, <3>0 DEF vars
    <3> QED BY <3>1 DEF DurabilityInv, SyncsItsLine, Target
  <2>2. ASSUME NEW v \in Writers, WriterStep(v), v # w
        PROVE  /\ file'[Target(w)'] # << >>
               /\ file'[Target(w)'][Len(file'[Target(w)'])] = rec'[w]
    <3>1. pc[w] = "sync" /\ rec'[w] = rec[w]
      BY <1>1, <2>2, OthersKeep
    <3>2. ~WriteFull(v)
      BY <1>1, <2>2, <3>1 DEF WriteFull, MutualExclusion, Critical
    <3>3. file' = file
      BY <1>1, <2>2, <3>2, FilesKeep
    <3> QED BY <3>1, <3>3 DEF DurabilityInv, SyncsItsLine, Target
  <2>3. ASSUME WriterStep(w)
        PROVE  /\ file'[Target(w)'] # << >>
               /\ file'[Target(w)'][Len(file'[Target(w)'])] = rec'[w]
    <3>1. WriteFull(w)
      BY <1>1, <2>3 DEF TypeOK, WriterStep, Step, Begin, Retry, Crash, Acquire, GiveUp, Scan,
         ScanRefused, Prepare, Refuse, WriteShort, WriteFails, Rollback, RollbackFails, SyncOk,
         SyncFails, Release, Fail
    <3>2. rec' = rec
      BY <3>1 DEF WriteFull
    <3>3. /\ rec[w] \in RecordType /\ Target(w) \in Months
          /\ file'[Target(w)] = Append(file[Target(w)], rec[w])
      BY <1>1, <3>1, WriteAppends
    <3>4. file[Target(w)] \in Seq(RecordType)
      BY <1>1, <3>3 DEF TypeOK
    <3>5. /\ file'[Target(w)] # << >>
          /\ file'[Target(w)][Len(file'[Target(w)])] = rec[w]
      BY <3>3, <3>4
    <3>6. Target(w)' = Target(w) /\ rec'[w] = rec[w]
      BY <3>2 DEF Target
    <3> HIDE DEF Target
    <3> QED BY <3>5, <3>6
  <2> QED BY <2>1, <2>2, <2>3, StepCases
<1>6. ReleasesDurable'
  <2> SUFFICES ASSUME NEW w \in Writers, pc'[w] = "release", result'[w] = "ok"
               PROVE  Covered(Target(w), rec[w].event_id)'
    BY DEF ReleasesDurable
  <2>1. CASE pc[w] = "release" /\ result[w] = "ok" /\ rec'[w] = rec[w]
    <3>1. Target(w) \in Months /\ Target(w)' = Target(w)
      BY <1>1, <2>1 DEF TypeOK, HasRecord, Target, RecordType
    <3>2. Covered(Target(w), rec[w].event_id)
      BY <2>1 DEF DurabilityInv, ReleasesDurable
    <3>3. \A m \in Months : \A id : Covered(m, id) => Covered(m, id)'
      BY <1>1, <1>2, <1>3, CoveredStays
    <3> QED BY <2>1, <3>1, <3>2, <3>3 DEF Covered
  <2>2. CASE SyncOk(w)
    <3>1. /\ rec' = rec /\ file' = file /\ rec[w] \in RecordType /\ Target(w) \in Months
          /\ durable'[Target(w)] = Len(file[Target(w)])
      BY <1>1, <2>2 DEF SyncOk, TypeOK, HasRecord, Target, RecordType
    <3>2. /\ file[Target(w)] # << >> /\ file[Target(w)] \in Seq(RecordType)
          /\ file[Target(w)][Len(file[Target(w)])] = rec[w]
      BY <1>1, <2>2, <3>1 DEF SyncOk, DurabilityInv, SyncsItsLine, TypeOK
    <3>3. Len(file[Target(w)]) \in 1 .. durable'[Target(w)]
      BY <3>1, <3>2
    <3> QED BY <3>1, <3>2, <3>3 DEF Covered, Target
  <2>3. CASE WriterStep(w) /\ ~SyncOk(w)
    <3>1. FALSE
      BY <1>1, <2>3 DEF TypeOK, WriterStep, Step, Begin, Retry, Crash, Acquire, GiveUp, Scan,
         ScanRefused, Prepare, Refuse, WriteFull, WriteShort, WriteFails, Rollback, RollbackFails,
         SyncFails, Release, Fail
    <3> QED BY <3>1
  <2>4. CASE \E v \in Writers : v # w /\ WriterStep(v)
    BY <1>1, <2>1, <2>4, OthersKeep
  <2>5. CASE PowerLoss \/ UNCHANGED vars
    BY <2>1, <2>5 DEF PowerLoss, vars
  <2> QED BY <2>2, <2>3, <2>4, <2>5, StepCases
<1>7. AcknowledgedIsDurable'
  <2> SUFFICES ASSUME NEW id \in acked' PROVE \E m \in Months : Covered(m, id)'
    BY DEF AcknowledgedIsDurable, Covered
  <2>1. \E m \in Months : Covered(m, id)
    <3>1. CASE id \in acked
      BY <3>1 DEF DurabilityInv, AcknowledgedIsDurable, Covered
    <3>2. CASE id \notin acked
      <4>1. PICK w \in Writers : Release(w) /\ result[w] = "ok" /\ id = rec[w].event_id
        BY <3>2, StepCases DEF vars, PowerLoss, WriterStep, Step, Begin, Retry, Crash, Acquire,
           GiveUp, Scan, ScanRefused, Prepare, Refuse, WriteFull, WriteShort, WriteFails,
           Rollback, RollbackFails, SyncOk, SyncFails, Release, history
      <4>2. Target(w) \in Months
        BY <1>1, <4>1 DEF Release, TypeOK, HasRecord, Target, RecordType
      <4> QED BY <4>1, <4>2 DEF Release, DurabilityInv, ReleasesDurable
    <3> QED BY <3>1, <3>2
  <2> QED BY <1>1, <1>2, <1>3, <2>1, CoveredStays
<1> QED BY <1>2, <1>4, <1>5, <1>6, <1>7 DEF DurabilityInv

\* Whatever fails or dies afterwards, power losses included, a caller that was
\* told "recorded" finds the record, under the id it was told.
THEOREM AcknowledgedStays == Spec => []AcknowledgedIsDurable
<1>1. DurabilityInv => AcknowledgedIsDurable
  BY DEF DurabilityInv
<1> QED BY <1>1, InitDurabilityInv, NextDurabilityInv, PTL DEF Spec

-----------------------------------------------------------------------------
(* Every step of the files is a step of the abstract log, or none.         *)

\* A record about to be written is valid and says of its orphan flag what the
\* index it was made from says.
RecordReady ==
  \A w \in Writers : pc[w] = "write" =>
    /\ rec[w].valid
    /\ rec[w].orphan <=> IsOutcome(rec[w]) /\ ~HasIntent(idx[w], RunKey(rec[w]))

\* What _prepare accepts is ready.
LEMMA PreparedReady ==
  ASSUME NEW f \in Files, NEW q \in RequestType, NEW id \in EventIds, NEW m \in Months,
         NEW n \in Nat, Admissible(f, q, Prepared(f, q, id, m, n))
  PROVE  LET r == Prepared(f, q, id, m, n) IN
           /\ r.valid
           /\ r.orphan <=> IsOutcome(r) /\ ~HasIntent(f, RunKey(r))
<1> DEFINE r == Prepared(f, q, id, m, n)
<1>1. /\ r.orphan = PreparedOrphan(f, q) /\ r.kind = q.kind
      /\ r.origin = q.origin /\ r.run = q.run
  BY DEF Prepared
<1>2. RunKey(r) = RunKey(q) /\ IsOutcome(r) = IsOutcome(q)
  BY <1>1 DEF RunKey, OriginOf, IsOutcome
<1>3. r.valid
  BY DEF Admissible
<1> HIDE DEF r
<1>4. r.orphan <=> IsOutcome(r) /\ ~HasIntent(f, RunKey(r))
  BY <1>1, <1>2 DEF PreparedOrphan
<1> QED BY <1>3, <1>4 DEF r

LogInv == DurabilityInv /\ RecordReady

\* Only _prepare makes a record, and nothing changes it before the write.
LEMMA NextLogInv == LogInv /\ [Next]_vars => LogInv'
<1> SUFFICES ASSUME LogInv, [Next]_vars PROVE LogInv'
  OBVIOUS
<1>1. DurabilityInv /\ TypeOK /\ DurabilityInv'
  BY NextDurabilityInv DEF LogInv, DurabilityInv, StoreInv
<1>2. RecordReady'
  <2> SUFFICES ASSUME NEW w \in Writers, pc'[w] = "write"
               PROVE  /\ rec'[w].valid
                      /\ rec'[w].orphan <=> /\ IsOutcome(rec'[w])
                                            /\ ~HasIntent(idx'[w], RunKey(rec'[w]))
    BY DEF RecordReady
  <2>1. CASE pc[w] = "write" /\ rec'[w] = rec[w] /\ idx'[w] = idx[w]
    BY <2>1 DEF LogInv, RecordReady
  <2>2. CASE Prepare(w)
    <3>1. req[w] \in RequestType /\ idx[w] \in Files /\ call[w] \in Nat
      BY <1>1, <2>2 DEF Prepare, TypeOK, HasRequest, Files
    <3>2. PICK m \in MonthsOf(w) :
            /\ Admissible(idx[w], req[w], Prepared(idx[w], req[w], EventIdOf(w), m, call[w]))
            /\ rec' = [rec EXCEPT ![w] = Prepared(idx[w], req[w], EventIdOf(w), m, call[w])]
      BY <2>2 DEF Prepare
    <3>3. m \in Months /\ EventIdOf(w) \in EventIds
      BY <1>1, <3>1, EventIdType DEF MonthsOf, RequestType
    <3>4. rec'[w] = Prepared(idx[w], req[w], EventIdOf(w), m, call[w]) /\ idx'[w] = idx[w]
      BY <1>1, <2>2, <3>2 DEF Prepare, TypeOK
    <3> QED BY <3>1, <3>2, <3>3, <3>4, PreparedReady
  <2>3. CASE WriterStep(w) /\ ~Prepare(w)
    <3>1. FALSE
      BY <1>1, <2>3 DEF TypeOK, WriterStep, Step, Begin, Retry, Crash, Acquire, GiveUp, Scan,
         ScanRefused, Refuse, WriteFull, WriteShort, WriteFails, Rollback, RollbackFails,
         SyncOk, SyncFails, Release, Fail
    <3> QED BY <3>1
  <2>4. CASE \E v \in Writers : v # w /\ WriterStep(v)
    BY <1>1, <2>1, <2>4, OthersKeep
  <2>5. CASE PowerLoss
    BY <2>5 DEF PowerLoss
  <2>6. CASE UNCHANGED vars
    BY <2>1, <2>6 DEF vars
  <2> QED BY <2>2, <2>3, <2>4, <2>5, <2>6, StepCases
<1> QED BY <1>1, <1>2 DEF LogInv

\* The records of a store after an append.
LEMMA AppendRecords ==
  ASSUME NEW f \in Files, NEW m \in Months, NEW r \in RecordType
  PROVE  RecordsIn(AppendTo(f, m, r)) = RecordsIn(f) \union {r}
<1> DEFINE g == AppendTo(f, m, r)
<1>1. RecordsIn(g) \subseteq RecordsIn(f) \union {r}
  BY AppendPositions DEF RecordsIn
<1>2. /\ f[m] \in Seq(RecordType) /\ Len(f[m]) \in Nat /\ g[m] = Append(f[m], r)
      /\ \A k \in Months : k # m => g[k] = f[k]
  BY DEF AppendTo, Files
<1>3. /\ Len(g[m]) = Len(f[m]) + 1 /\ g[m][Len(f[m]) + 1] = r
      /\ \A i \in 1 .. Len(f[m]) : g[m][i] = f[m][i]
  BY <1>2
<1> HIDE DEF g
<1>4. \A k \in Months : \A i \in 1 .. Len(f[k]) : i \in 1 .. Len(g[k]) /\ g[k][i] = f[k][i]
  BY <1>2, <1>3
<1>5. RecordsIn(f) \subseteq RecordsIn(g)
  <2> SUFFICES ASSUME NEW p \in Positions(f) PROVE p \in Positions(g) /\ At(g, p) = At(f, p)
    BY DEF RecordsIn
  <2>1. p[1] \in Months /\ p[2] \in 1 .. Len(f[p[1]]) /\ p = <<p[1], p[2]>>
    BY PositionType
  <2>2. p[2] \in 1 .. Len(g[p[1]]) /\ At(g, p) = At(f, p)
    BY <1>4, <2>1 DEF At
  <2>3. p \in {p[1]} \X (1 .. Len(g[p[1]]))
    BY <2>1, <2>2
  <2> QED BY <2>1, <2>2, <2>3 DEF Positions
<1>6. r \in RecordsIn(g)
  <2> DEFINE p == <<m, Len(f[m]) + 1>>
  <2>1. Len(f[m]) + 1 \in 1 .. Len(g[m])
    BY <1>2, <1>3
  <2>2. p \in {m} \X (1 .. Len(g[m]))
    BY <2>1
  <2>3. p \in Positions(g) /\ At(g, p) = r
    BY <1>3, <2>2 DEF Positions, At
  <2> HIDE DEF p
  <2> QED BY <2>3 DEF RecordsIn
<1> QED BY <1>1, <1>5, <1>6 DEF g

\* A whole write adds one record, which fits and whose flag is true.
LEMMA WriteFullAdds ==
  ASSUME LogInv, NEW w \in Writers, WriteFull(w)
  PROVE  /\ RecordsIn(file') = RecordsIn(file) \union {rec[w]}
         /\ rec[w] \notin RecordsIn(file) /\ rec[w].valid
         /\ \A s \in RecordsIn(file) : ~Clash(rec[w], s)
         /\ rec[w].orphan <=> IsOutcome(rec[w]) /\ ~HasIntent(file, RunKey(rec[w]))
         /\ acked' = acked
<1>1. TypeOK /\ IndexFresh /\ RecordFits
  BY DEF LogInv, DurabilityInv, StoreInv
<1>2. /\ rec[w] \in RecordType /\ Target(w) \in Months
      /\ file' = AppendTo(file, Target(w), rec[w]) /\ file \in Files
  BY <1>1, WriteAppends DEF TypeOK, Files
<1>3. RecordsIn(file') = RecordsIn(file) \union {rec[w]}
  BY <1>2, AppendRecords
<1>4. idx[w] = file /\ \A s \in RecordsIn(file) : ~Clash(rec[w], s)
  BY <1>1 DEF WriteFull, IndexFresh, RecordFits
<1>5. rec[w] \notin RecordsIn(file)
  BY <1>4 DEF Clash
<1>6. /\ rec[w].valid
      /\ rec[w].orphan <=> IsOutcome(rec[w]) /\ ~HasIntent(file, RunKey(rec[w]))
  BY <1>4 DEF WriteFull, LogInv, RecordReady
<1>7. acked' = acked
  BY DEF WriteFull, history
<1> QED BY <1>3, <1>4, <1>5, <1>6, <1>7

\* The lines that are left after a power loss are where they were.
LEMMA PowerLossKeeps ==
  ASSUME TypeOK, PowerLoss, NEW p \in Positions(file')
  PROVE  p \in Positions(file) /\ At(file', p) = At(file, p)
<1>1. PICK n : /\ \A m \in Months : durable[m] <= n[m] /\ n[m] <= Len(file[m])
               /\ file' = KeptLines(n)
               /\ durable' = n
  BY DEF PowerLoss
<1>2. TypeOK'
  BY NextTypeOK DEF Next
<1>3. \A m \in Months : /\ n[m] \in Nat /\ file[m] \in Seq(RecordType)
                        /\ file'[m] = SubSeq(file[m], 1, n[m])
  BY <1>1, <1>2 DEF TypeOK, KeptLines
<1>4. \A m \in Months : Len(file'[m]) = n[m] /\ \A i \in 1 .. n[m] : file'[m][i] = file[m][i]
  BY <1>1, <1>3
<1>5. file' \in Files
  BY <1>2 DEF TypeOK, Files
<1>6. p[1] \in Months /\ p[2] \in 1 .. Len(file'[p[1]]) /\ p = <<p[1], p[2]>>
  BY <1>5, PositionType
<1>7. p[2] \in 1 .. Len(file[p[1]]) /\ At(file', p) = At(file, p)
  BY <1>1, <1>3, <1>4, <1>6 DEF At
<1>8. p \in {p[1]} \X (1 .. Len(file[p[1]]))
  BY <1>6, <1>7
<1> QED BY <1>6, <1>7, <1>8 DEF Positions

\* A power loss leaves some of the records, all acknowledged ones among them.
LEMMA PowerLossLoses ==
  ASSUME LogInv, PowerLoss
  PROVE  /\ RecordsIn(file') \subseteq RecordsIn(file)
         /\ \A r \in RecordsIn(file) \ RecordsIn(file') : r.event_id \notin acked
         /\ acked' = acked
<1>1. TypeOK /\ Bounded /\ StoreConsistent /\ AcknowledgedIsDurable
  BY DEF LogInv, DurabilityInv, StoreInv
<1>2. PICK n : /\ \A m \in Months : durable[m] <= n[m] /\ n[m] <= Len(file[m])
               /\ file' = KeptLines(n)
               /\ durable' = n
  BY DEF PowerLoss
<1>3. TypeOK'
  BY <1>1, NextTypeOK DEF Next
<1>4. \A m \in Months : /\ n[m] \in Nat /\ durable[m] \in Nat /\ file[m] \in Seq(RecordType)
                        /\ file'[m] = SubSeq(file[m], 1, n[m])
  BY <1>1, <1>2, <1>3 DEF TypeOK, KeptLines
<1>5. \A m \in Months : Len(file'[m]) = n[m] /\ \A i \in 1 .. n[m] : file'[m][i] = file[m][i]
  BY <1>2, <1>4
<1>7. RecordsIn(file') \subseteq RecordsIn(file)
  BY <1>1, PowerLossKeeps DEF RecordsIn
<1>8. ASSUME NEW r \in RecordsIn(file), r.event_id \in acked
      PROVE  r \in RecordsIn(file')
  <2>0. PICK m \in Months : \E i \in 1 .. durable[m] : file[m][i].event_id = r.event_id
    BY <1>1, <1>8 DEF AcknowledgedIsDurable
  <2>1. PICK i \in 1 .. durable[m] : file[m][i].event_id = r.event_id
    BY <2>0
  <2>2. i \in 1 .. Len(file[m]) /\ i \in 1 .. Len(file'[m]) /\ file'[m][i] = file[m][i]
    BY <1>2, <1>4, <1>5, <2>1
  <2>3. PICK p \in Positions(file) : r = At(file, p)
    BY DEF RecordsIn
  <2> DEFINE q == <<m, i>>
  <2>4. q \in {m} \X (1 .. Len(file[m])) /\ q \in {m} \X (1 .. Len(file'[m]))
    BY <2>2
  <2>5. /\ q \in Positions(file) /\ q \in Positions(file')
        /\ At(file, q) = file[m][i] /\ At(file', q) = file[m][i]
    BY <2>2, <2>4 DEF Positions, At
  <2> HIDE DEF q
  <2>6. p = q
    BY <1>1, <2>1, <2>3, <2>5 DEF StoreConsistent, Complaint, Clash
  <2> QED BY <2>3, <2>5, <2>6 DEF RecordsIn
<1>9. acked' = acked
  BY DEF PowerLoss, history
<1> QED BY <1>7, <1>8, <1>9

\* What a caller is told is recorded, is.
LEMMA ReleaseAcknowledges ==
  ASSUME LogInv, NEW w \in Writers, Release(w), result[w] = "ok"
  PROVE  \E r \in RecordsIn(file) : acked' = acked \union {r.event_id}
<1>1. /\ TypeOK /\ Bounded /\ Target(w) \in Months
      /\ Covered(Target(w), rec[w].event_id)
  BY DEF LogInv, DurabilityInv, StoreInv, ReleasesDurable, Release, TypeOK, HasRecord, Target,
     RecordType
<1>2. PICK i \in 1 .. durable[Target(w)] : file[Target(w)][i].event_id = rec[w].event_id
  BY <1>1 DEF Covered
<1> DEFINE m == Target(w)
           p == <<m, i>>
<1>3. i \in 1 .. Len(file[m])
  BY <1>1, <1>2 DEF Bounded, TypeOK
<1>4. p \in {m} \X (1 .. Len(file[m]))
  BY <1>3
<1>5. p \in Positions(file) /\ At(file, p) = file[m][i]
  BY <1>1, <1>4 DEF Positions, At
<1>6. At(file, p) \in RecordsIn(file)
  BY <1>5 DEF RecordsIn
<1> QED BY <1>2, <1>5, <1>6 DEF Release

\* The empty store is the empty log.
LEMMA InitIsLogInit == Init => Log!Init
<1>1. Positions(Empty) = {}
  BY DEF Positions, Empty
<1> QED BY <1>1 DEF Init, Log!Init, RecordsIn

\* Steps that write no line and acknowledge nothing are not seen in the log.
LEMMA QuietInLog ==
  ASSUME TypeOK, NEW w \in Writers, WriterStep(w), ~WriteFull(w),
         ~(Release(w) /\ result[w] = "ok")
  PROVE  file' = file /\ acked' = acked
<1>1. file' = file
  BY FilesKeep
<1>2. acked' = acked
  BY DEF WriterStep, Step, Begin, Retry, Crash, Acquire, GiveUp, Scan, ScanRefused, Prepare,
     Refuse, WriteShort, WriteFails, Rollback, RollbackFails, SyncOk, SyncFails, Release, history
<1> QED BY <1>1, <1>2

\* A whole write is an Add, an "ok" release an Acknowledge, a power loss a
\* Lose, and every other step leaves the log as it is.
LEMMA NextIsLogNext == LogInv /\ [Next]_vars => [Log!Next]_(Log!logVars)
<1> SUFFICES ASSUME LogInv, [Next]_vars PROVE [Log!Next]_(Log!logVars)
  OBVIOUS
<1>1. TypeOK
  BY DEF LogInv, DurabilityInv, StoreInv
<1>2. ASSUME NEW w \in Writers, WriteFull(w) PROVE Log!Next
  <2>1. rec[w] \in RecordsIn(file') \ RecordsIn(file)
    BY <1>2, WriteFullAdds
  <2>2. Log!OrphanFlagIsTrue(rec[w])
    BY <1>2, WriteFullAdds DEF Log!OrphanFlagIsTrue, Log!IsOutcome, Log!IsIntent, Log!RunKey,
       Log!OriginOf, HasIntent, IsOutcome, IsIntent, RunKey, OriginOf
  <2>3. \A s \in RecordsIn(file) : ~Log!Clash(rec[w], s)
    BY <1>2, WriteFullAdds DEF Clash, Log!Clash, IsIntent, IsOutcome, IsTerminal, RunKey,
       SpawnKey, OutcomeKey, OriginOf, Log!IsIntent, Log!IsOutcome, Log!IsTerminal, Log!RunKey,
       Log!SpawnKey, Log!OutcomeKey, Log!OriginOf
  <2>4. Log!Add(rec[w])
    BY <1>2, <2>2, <2>3, WriteFullAdds DEF Log!Add
  <2> QED BY <2>1, <2>4 DEF Log!Next
<1>3. ASSUME NEW w \in Writers, Release(w), result[w] = "ok" PROVE Log!Next
  <2>1. PICK r \in RecordsIn(file) : acked' = acked \union {r.event_id}
    BY <1>3, ReleaseAcknowledges
  <2>2. file' = file
    BY <1>3 DEF Release, shared
  <2>3. Log!Acknowledge(r)
    BY <2>1, <2>2 DEF Log!Acknowledge
  <2> QED BY <2>1, <2>3 DEF Log!Next
<1>4. ASSUME PowerLoss PROVE Log!Next
  <2>1. Log!Lose(RecordsIn(file) \ RecordsIn(file'))
    BY <1>4, PowerLossLoses DEF Log!Lose
  <2> QED BY <2>1 DEF Log!Next
<1>5. ASSUME file' = file, acked' = acked PROVE UNCHANGED Log!logVars
  BY <1>5 DEF Log!logVars
<1> QED BY <1>1, <1>2, <1>3, <1>4, <1>5, StepCases, QuietInLog DEF vars

\* The empty store satisfies the invariant the mapping rests on.
LEMMA InitLogInv == Init => LogInv
BY InitDurabilityInv DEF Init, LogInv, RecordReady

\* What the log promises is enough: whoever trusts the abstract log, and not the
\* files, finds no two records of it that clash.
THEOREM PromiseIsConsistent == LogSpec => []Log!LogConsistent
<1>1. Log!Init => Log!LogConsistent
  BY DEF Log!Init, Log!LogConsistent
<1>2. Log!LogConsistent /\ [Log!Next]_Log!logVars => Log!LogConsistent'
  <2> SUFFICES ASSUME Log!LogConsistent, [Log!Next]_Log!logVars PROVE Log!LogConsistent'
    OBVIOUS
  <2> DEFINE log == RecordsIn(file)
             later == RecordsIn(file)'
  <2>1. \A r, s \in log : r # s => ~Log!Clash(r, s)
    BY DEF Log!LogConsistent
  <2>2. CASE \E r \in later \ log : Log!Add(r)
    <3>1. PICK r : later = log \union {r} /\ \A s \in log : ~Log!Clash(r, s)
      BY <2>2 DEF Log!Add
    <3>2. \A s \in log : ~Log!Clash(s, r)
      BY <3>1 DEF Log!Clash
    <3> HIDE DEF log, later
    <3>3. \A q, s \in later : q # s => ~Log!Clash(q, s)
      BY <2>1, <3>1, <3>2
    <3> QED BY <3>3 DEF Log!LogConsistent, later
  <2>3. CASE later \subseteq log
    BY <2>1, <2>3 DEF Log!LogConsistent
  <2>4. later \subseteq log \/ \E r \in later \ log : Log!Add(r)
    BY DEF Log!Next, Log!Acknowledge, Log!Lose, Log!logVars
  <2> QED BY <2>2, <2>3, <2>4
<1> QED BY <1>1, <1>2, PTL DEF LogSpec, Log!Spec

\* The store implements the abstract log: records appear one at a time, each
\* fitting all others with a true orphan flag, and acknowledged ones stay.
THEOREM StoreImplementsLog == Spec => LogSpec
BY InitLogInv, NextLogInv, InitIsLogInit, NextIsLogNext, PTL DEF Spec, LogSpec, Log!Spec

-----------------------------------------------------------------------------
(* The orphan flag.                                                        *)

LogAndFlags == LogInv /\ OrphanFlagTrue

\* A record that is added has a true flag, and no later step takes its intent
\* from the store as long as the machine keeps its power.
LEMMA NextLogAndFlags == LogAndFlags /\ [Next]_vars => LogAndFlags'
<1> SUFFICES ASSUME LogAndFlags, [Next]_vars PROVE LogAndFlags'
  OBVIOUS
<1>1. LogInv /\ LogInv' /\ TypeOK
  BY NextLogInv DEF LogAndFlags, LogInv, DurabilityInv, StoreInv
<1>2. OrphanFlagTrue'
  <2> SUFFICES ASSUME losses' = 0, NEW r \in RecordsIn(file'), IsOutcome(r), ~r.orphan
               PROVE  HasIntent(file', RunKey(r))
    BY DEF OrphanFlagTrue
  <2>1. ~PowerLoss
    BY <1>1 DEF PowerLoss, TypeOK
  <2>2. losses = 0
    BY <1>1, <2>1, StepCases, FilesKeep DEF vars
  <2>3. \A s \in RecordsIn(file) : IsOutcome(s) /\ ~s.orphan => HasIntent(file, RunKey(s))
    BY <2>2 DEF LogAndFlags, OrphanFlagTrue
  <2>4. CASE file' = file
    BY <2>3, <2>4
  <2>5. ASSUME NEW w \in Writers, WriteFull(w) PROVE HasIntent(file', RunKey(r))
    <3>1. HasIntent(file, RunKey(r))
      BY <1>1, <2>3, <2>5, WriteFullAdds
    <3> QED BY <1>1, <2>5, <3>1, WriteFullAdds DEF HasIntent
  <2> QED BY <1>1, <2>1, <2>4, <2>5, StepCases, FilesKeep DEF vars
<1> QED BY <1>1, <1>2 DEF LogAndFlags

\* "orphan" is true of the store for any interleaving of intents and outcomes
\* over any months, however ids, origins and ordinals are chosen.
THEOREM FlagsAreTrue == Spec => []OrphanFlagTrue
<1>1. Init => LogAndFlags
  <2>1. Positions(Empty) = {}
    BY DEF Positions, Empty
  <2> QED BY <2>1, InitLogInv DEF Init, LogAndFlags, OrphanFlagTrue, RecordsIn
<1>2. LogAndFlags => OrphanFlagTrue
  BY DEF LogAndFlags
<1> QED BY <1>1, <1>2, NextLogAndFlags, PTL DEF Spec

-----------------------------------------------------------------------------
(* What a caller may conclude from the end of its call: a failed call left *)
(* no record, and an uncertain one that is retried leaves one record.      *)

\* The call of w has written no line that is in the store.
Unrecorded(w) == \A r \in RecordsIn(file) : r.call # call[w]

\* Any line of it carries this id.
RecordedOnlyAs(w, id) == \A r \in RecordsIn(file) : r.call = call[w] => r.event_id = id

Uncertain(w) == pc[w] \in {"release", "idle"} /\ result[w] = "unknown"
Failed(w) == pc[w] \in {"release", "idle"} /\ result[w] = "error"
Unwritten(w) == pc[w] \in {"wait", "scan", "prepare"}

\* Calls are numbered apart, and a line is of a call that was begun.
CallNumbers ==
  /\ \A w \in Writers : call[w] <= calls /\ (HasRequest(w) => call[w] # 0)
  /\ \A v, w \in Writers : v # w /\ call[v] # 0 => call[v] # call[w]
  /\ \A r \in RecordsIn(file) : r.call \in 1 .. calls

\* Before its write, a call that was not retried has no line, and one that is
\* retried has none but under the id it is retried with.
CallInv(w) ==
  /\ Unwritten(w) => RecordedOnlyAs(w, req[w].event_id)
  /\ pc[w] \in {"write", "rollback"} => Unrecorded(w) /\ rec[w].call = call[w]
  /\ pc[w] = "sync" \/ Uncertain(w) => RecordedOnlyAs(w, rec[w].event_id)
  /\ result[w] = "unknown" => call[w] \in unsure
  /\ call[w] \notin unsure /\ (Unwritten(w) \/ Failed(w)) => Unrecorded(w)

CallsInv == LogInv /\ CallNumbers /\ (\A w \in Writers : CallInv(w)) /\ OneRecordPerCall

\* The records after a writer's step: the same, and the one it wrote.
LEMMA RecordsAfter ==
  ASSUME LogInv, NEW w \in Writers, WriterStep(w)
  PROVE  \/ ~WriteFull(w) /\ file' = file
         \/ WriteFull(w) /\ RecordsIn(file') = RecordsIn(file) \union {rec[w]}
BY FilesKeep, WriteFullAdds DEF LogInv, DurabilityInv, StoreInv

\* How a writer's step numbers its call.
LEMMA NumbersAfter ==
  ASSUME TypeOK, NEW w \in Writers, WriterStep(w)
  PROVE  \/ calls' = calls + 1 /\ call' = [call EXCEPT ![w] = calls + 1]
         \/ calls' = calls /\ call' = call
BY DEF WriterStep, Step, Begin, Retry, Crash, Acquire, GiveUp, Scan, ScanRefused, Prepare,
   Refuse, WriteFull, WriteShort, WriteFails, Rollback, RollbackFails, SyncOk, SyncFails,
   Release, shared

\* Only a failed fsync makes a call one of the uncertain ones, for good.
LEMMA UnsureGrows ==
  ASSUME TypeOK, NEW w \in Writers, WriterStep(w)
  PROVE  unsure \subseteq unsure'
BY DEF WriterStep, Step, Begin, Retry, Crash, Acquire, GiveUp, Scan, ScanRefused, Prepare,
   Refuse, WriteFull, WriteShort, WriteFails, Rollback, RollbackFails, SyncOk, SyncFails,
   Release, shared, history

\* A writer holds a request unless its step begins or ends a call.
LEMMA RequestBefore ==
  ASSUME TypeOK, NEW w \in Writers, WriterStep(w), HasRequest(w)'
  PROVE  HasRequest(w) \/ call'[w] = calls + 1
<1> USE DEF TypeOK, HasRequest, history, Fail
<1>1. CASE \E q \in Requests : Begin(w, q)
  BY <1>1 DEF Begin
<1>2. CASE ~\E q \in Requests : Begin(w, q)
  BY <1>2 DEF WriterStep, Step, Retry, Crash, Acquire, GiveUp, Scan, ScanRefused, Prepare,
     Refuse, WriteFull, WriteShort, WriteFails, Rollback, RollbackFails, SyncOk, SyncFails, Release
<1> QED BY <1>1, <1>2

\* A new call has a number of its own, and so has every line.
LEMMA NextCallNumbers ==
  ASSUME CallsInv, NEW w \in Writers, WriterStep(w), TypeOK'
  PROVE  CallNumbers'
<1>1. TypeOK /\ LogInv
  BY DEF CallsInv, LogInv, DurabilityInv, StoreInv
<1>2. /\ calls \in Nat /\ calls' \in Nat
      /\ \A v \in Writers : call[v] \in Nat /\ call'[v] \in Nat
  BY <1>1 DEF TypeOK
<1>3. \/ calls' = calls + 1 /\ call'[w] = calls + 1
      \/ calls' = calls /\ call'[w] = call[w]
  BY <1>1, NumbersAfter DEF TypeOK
<1>4. \A v \in Writers : v # w => call'[v] = call[v] /\ HasRequest(v)' = HasRequest(v)
  BY <1>1, OthersKeep DEF HasRequest
<1>5. \A v \in Writers : call'[v] <= calls' /\ (HasRequest(v)' => call'[v] # 0)
  <2>1. HasRequest(w)' => call'[w] # 0
    BY <1>1, <1>2, <1>3, RequestBefore DEF CallsInv, CallNumbers
  <2> QED BY <1>2, <1>3, <1>4, <2>1 DEF CallsInv, CallNumbers
<1>6. \A u, v \in Writers : u # v /\ call'[u] # 0 => call'[u] # call'[v]
  BY <1>2, <1>3, <1>4 DEF CallsInv, CallNumbers
<1>7. \A r \in RecordsIn(file') : r.call \in 1 .. calls'
  <2>1. \A r \in RecordsIn(file) : r.call \in 1 .. calls'
    BY <1>2, <1>3 DEF CallsInv, CallNumbers
  <2>2. CASE WriteFull(w)
    <3>1. rec[w].call = call[w] /\ call[w] # 0 /\ calls' = calls
      BY <2>2 DEF WriteFull, CallsInv, CallInv, CallNumbers, HasRequest
    <3>2. rec[w].call \in 1 .. calls'
      BY <1>2, <3>1 DEF CallsInv, CallNumbers
    <3> QED BY <1>1, <2>1, <2>2, <3>2, RecordsAfter
  <2> QED BY <1>1, <2>1, <2>2, RecordsAfter
<1> QED BY <1>5, <1>6, <1>7 DEF CallNumbers

\* What is known of the call of another writer: the line added is not of it.
LEMMA OthersCallInv ==
  ASSUME CallsInv, NEW w \in Writers, WriterStep(w), NEW v \in Writers, v # w
  PROVE  CallInv(v)'
<1>1. TypeOK /\ LogInv /\ CallInv(v)
  BY DEF CallsInv, LogInv, DurabilityInv, StoreInv
<1>2. /\ pc'[v] = pc[v] /\ req'[v] = req[v] /\ rec'[v] = rec[v]
      /\ result'[v] = result[v] /\ call'[v] = call[v]
  BY <1>1, OthersKeep
<1>3. unsure \subseteq unsure'
  BY <1>1, UnsureGrows
<1>4. \A r \in RecordsIn(file') : r.call = call[v] => r \in RecordsIn(file)
  <2>1. CASE WriteFull(w)
    <3>1. rec[w].call = call[w] /\ call[w] # 0
      BY <2>1 DEF WriteFull, CallsInv, CallInv, CallNumbers, HasRequest
    <3>2. rec[w].call # call[v]
      BY <3>1 DEF CallsInv, CallNumbers
    <3> QED BY <1>1, <3>2, RecordsAfter
  <2> QED BY <1>1, <2>1, RecordsAfter
<1>5. \A id : RecordedOnlyAs(v, id) => \A r \in RecordsIn(file') : r.call = call'[v] => r.event_id = id
  BY <1>2, <1>4 DEF RecordedOnlyAs
<1>6. Unrecorded(v) => \A r \in RecordsIn(file') : r.call # call'[v]
  BY <1>2, <1>4 DEF Unrecorded
<1> QED BY <1>1, <1>2, <1>3, <1>5, <1>6 DEF CallInv, Unwritten, Uncertain, Failed, Unrecorded,
     RecordedOnlyAs

\* What is known of the writer's own call after its step.
LEMMA OwnCallInv ==
  ASSUME CallsInv, NEW w \in Writers, WriterStep(w), TypeOK'
  PROVE  CallInv(w)'
<1>1. TypeOK /\ LogInv /\ CallInv(w) /\ CallNumbers
  BY DEF CallsInv, LogInv, DurabilityInv, StoreInv
<1>2. /\ pc \in [Writers -> Steps] /\ result \in [Writers -> Results] /\ call \in [Writers -> Nat]
      /\ calls \in Nat
      /\ DOMAIN req = Writers /\ DOMAIN rec = Writers /\ unsure \subseteq Nat
  BY <1>1 DEF TypeOK
<1> USE DEF CallInv, Unwritten, Uncertain, Failed
<1>3. ASSUME NEW q \in Requests, Begin(w, q) PROVE CallInv(w)'
  <2>1. /\ pc'[w] = "wait" /\ result'[w] = "none" /\ call'[w] = calls + 1 /\ file' = file
    BY <1>2, <1>3 DEF Begin, shared
  <2>2. \A r \in RecordsIn(file) : r.call # calls + 1
    BY <1>1, <1>2 DEF CallNumbers
  <2> QED BY <2>1, <2>2 DEF Unrecorded, RecordedOnlyAs
<1>4. ASSUME Retry(w) PROVE CallInv(w)'
  <2>1. /\ pc'[w] = "wait" /\ result'[w] = "none" /\ call' = call /\ file' = file
        /\ unsure' = unsure
    BY <1>2, <1>4 DEF Retry, shared, history
  <2>2. req'[w].event_id = rec[w].event_id
    <3>1. req[w] \in RequestType
      BY <1>1, <1>4 DEF Retry, TypeOK, HasRequest
    <3>2. req'[w] = [req[w] EXCEPT !.event_id = rec[w].event_id]
      BY <1>2, <1>4 DEF Retry
    <3> QED BY <3>1, <3>2 DEF RequestType
  <2>3. RecordedOnlyAs(w, rec[w].event_id) /\ call[w] \in unsure
    BY <1>1, <1>4 DEF Retry
  <2> QED BY <2>1, <2>2, <2>3 DEF Unrecorded, RecordedOnlyAs
<1>5. ASSUME Acquire(w) \/ Scan(w) PROVE CallInv(w)'
  <2>1. /\ Unwritten(w) /\ pc'[w] \in {"scan", "prepare"} /\ result' = result /\ call' = call
        /\ file' = file /\ req' = req /\ unsure' = unsure
    BY <1>2, <1>5 DEF Acquire, Scan, shared, history
  <2> QED BY <1>1, <2>1 DEF Unrecorded, RecordedOnlyAs
<1>6. ASSUME GiveUp(w) \/ ScanRefused(w) \/ Refuse(w) PROVE CallInv(w)'
  <2>1. /\ Unwritten(w) /\ pc'[w] \in {"idle", "release"} /\ result'[w] = "error"
        /\ call' = call /\ file' = file /\ unsure' = unsure
    BY <1>2, <1>6 DEF GiveUp, ScanRefused, Refuse, Fail, shared, history
  <2> QED BY <1>1, <2>1 DEF Unrecorded, RecordedOnlyAs
<1>7. ASSUME Prepare(w) PROVE CallInv(w)'
  <2>1. /\ pc[w] = "prepare" /\ pc'[w] = "write" /\ call' = call /\ file' = file
        /\ unsure' = unsure /\ result' = result /\ idx[w] = file
    BY <1>1, <1>2, <1>7 DEF Prepare, shared, history, LogInv, DurabilityInv, StoreInv, IndexFresh
  <2>2. req[w] \in RequestType
    BY <1>1, <2>1 DEF TypeOK, HasRequest
  <2>3. PICK m : /\ Admissible(idx[w], req[w],
                             Prepared(idx[w], req[w], EventIdOf(w), m, call[w]))
                 /\ rec' = [rec EXCEPT ![w] =
                             Prepared(idx[w], req[w], EventIdOf(w), m, call[w])]
    BY <1>7 DEF Prepare
  <2>4. rec'[w].call = call[w] /\ ~HasEventId(file, EventIdOf(w))
    BY <1>2, <2>1, <2>3 DEF Prepared, Admissible
  <2>5. Unrecorded(w)
    <3> SUFFICES ASSUME NEW r \in RecordsIn(file), r.call = call[w] PROVE FALSE
      BY DEF Unrecorded
    <3>1. r.event_id = req[w].event_id
      BY <1>1, <2>1 DEF RecordedOnlyAs
    <3>2. r.event_id \in EventIds /\ None \notin EventIds
      <4>1. file \in Files
        BY <1>1 DEF TypeOK, Files
      <4> QED BY <4>1, RecordsType, RecordsAssumption DEF RecordType, EventIds
    <3> QED BY <2>4, <3>1, <3>2 DEF EventIdOf, HasEventId
  <2>6. result'[w] = "unknown" => call'[w] \in unsure'
    BY <1>1, <2>1
  <2> QED BY <2>1, <2>4, <2>5, <2>6 DEF Unrecorded
<1>8. ASSUME WriteFull(w) PROVE CallInv(w)'
  <2>1. /\ pc[w] = "write" /\ pc'[w] = "sync" /\ call' = call /\ rec' = rec
        /\ unsure' = unsure /\ result' = result
    BY <1>2, <1>8 DEF WriteFull, history
  <2>2. RecordsIn(file') = RecordsIn(file) \union {rec[w]}
    BY <1>1, <1>8, WriteFullAdds
  <2>3. Unrecorded(w)
    BY <1>1, <2>1
  <2>4. \A r \in RecordsIn(file') : r.call = call[w] => r.event_id = rec[w].event_id
    BY <2>2, <2>3 DEF Unrecorded
  <2> QED BY <1>1, <2>1, <2>4 DEF RecordedOnlyAs
<1>9. ASSUME WriteShort(w) PROVE CallInv(w)'
  <2>1. /\ pc[w] = "write" /\ pc'[w] = "rollback" /\ call' = call /\ rec' = rec /\ file' = file
        /\ unsure' = unsure /\ result' = result
    BY <1>2, <1>9 DEF WriteShort, history
  <2> QED BY <1>1, <2>1 DEF Unrecorded
<1>10. ASSUME WriteFails(w) \/ Rollback(w) \/ RollbackFails(w) PROVE CallInv(w)'
  <2>1. /\ pc[w] \in {"write", "rollback"} /\ pc'[w] = "release" /\ result'[w] = "error"
        /\ call' = call /\ file' = file /\ unsure' = unsure
    BY <1>2, <1>10 DEF WriteFails, Rollback, RollbackFails, Fail, shared, history
  <2> QED BY <1>1, <2>1 DEF Unrecorded
<1>11. ASSUME SyncOk(w) \/ Crash(w) PROVE CallInv(w)'
  <2>1. pc'[w] \in {"release", "idle"} /\ result'[w] \in {"ok", "died"}
    BY <1>2, <1>11 DEF SyncOk, Crash
  <2> QED BY <2>1
<1>12. ASSUME SyncFails(w) PROVE CallInv(w)'
  <2>1. /\ pc[w] = "sync" /\ pc'[w] = "release" /\ result'[w] = "unknown" /\ call' = call
        /\ rec' = rec /\ file' = file /\ unsure' = unsure \union {call[w]}
    BY <1>2, <1>12 DEF SyncFails
  <2> QED BY <1>1, <2>1 DEF RecordedOnlyAs
<1>13. ASSUME Release(w) PROVE CallInv(w)'
  <2>1. /\ pc[w] = "release" /\ pc'[w] = "idle" /\ result' = result /\ call' = call
        /\ file' = file /\ unsure' = unsure
        /\ result[w] = "unknown" => rec'[w] = rec[w]
    BY <1>2, <1>13 DEF Release, shared
  <2> QED BY <1>1, <2>1 DEF Unrecorded, RecordedOnlyAs
<1> QED BY <1>3, <1>4, <1>5, <1>6, <1>7, <1>8, <1>9, <1>10, <1>11, <1>12, <1>13
     DEF WriterStep, Step

\* A line that is written is the only one of its call.
LEMMA NextOneRecordPerCall ==
  ASSUME CallsInv, NEW w \in Writers, WriterStep(w)
  PROVE  OneRecordPerCall'
<1>1. TypeOK /\ LogInv /\ OneRecordPerCall
  BY DEF CallsInv, LogInv, DurabilityInv, StoreInv
<1>2. CASE file' = file
  BY <1>1, <1>2 DEF OneRecordPerCall
<1>3. CASE WriteFull(w)
  <2> DEFINE m == Target(w)
             last == <<m, Len(file[m]) + 1>>
  <2>1. /\ file' = AppendTo(file, m, rec[w]) /\ file \in Files /\ m \in Months
        /\ rec[w] \in RecordType
    BY <1>1, <1>3, WriteAppends DEF TypeOK, Files
  <2>2. Unrecorded(w) /\ rec[w].call = call[w]
    BY <1>3 DEF WriteFull, CallsInv, CallInv
  <2> HIDE DEF m
  <2>3. \A p \in Positions(file') : \/ p \in Positions(file) /\ At(file', p) = At(file, p)
                                    \/ p = last /\ At(file', p) = rec[w]
    BY <2>1, AppendPositions
  <2>4. \A p \in Positions(file) : At(file, p).call # rec[w].call
    BY <2>2 DEF Unrecorded, RecordsIn
  <2> HIDE DEF last
  <2> QED BY <1>1, <2>3, <2>4 DEF OneRecordPerCall
<1> QED BY <1>1, <1>2, <1>3, FilesKeep

\* After a power loss every process is gone and no call is in progress.
LEMMA PowerLossCalls ==
  ASSUME CallsInv, PowerLoss, LogInv'
  PROVE  CallsInv'
<1>1. TypeOK /\ LogInv
  BY DEF CallsInv, LogInv, DurabilityInv, StoreInv
<1>2. /\ \A w \in Writers : pc'[w] = "idle" /\ result'[w] = "died"
      /\ call' = call /\ calls' = calls
  BY DEF PowerLoss
<1>3. RecordsIn(file') \subseteq RecordsIn(file)
  BY <1>1, PowerLossLoses
<1>4. CallNumbers'
  BY <1>2, <1>3 DEF CallNumbers, CallsInv, HasRequest
<1>5. \A w \in Writers : CallInv(w)'
  BY <1>2 DEF CallInv, Unwritten, Uncertain, Failed
<1>6. OneRecordPerCall'
  BY <1>1, PowerLossKeeps DEF CallsInv, OneRecordPerCall
<1> QED BY <1>4, <1>5, <1>6 DEF CallsInv

\* Nothing has been called and nothing is in the store.
LEMMA InitCallsInv == Init => CallsInv
<1>1. Positions(Empty) = {}
  BY DEF Positions, Empty
<1> QED BY <1>1, InitLogInv DEF Init, CallsInv, CallNumbers, CallInv, OneRecordPerCall, RecordsIn,
     Unwritten, Uncertain, Failed, HasRequest

\* Every step keeps what is known of all calls.
LEMMA NextCallsInv == CallsInv /\ [Next]_vars => CallsInv'
<1> SUFFICES ASSUME CallsInv, [Next]_vars PROVE CallsInv'
  OBVIOUS
<1>1. LogInv' /\ TypeOK'
  BY NextLogInv DEF CallsInv, LogInv, DurabilityInv, StoreInv
<1>2. ASSUME NEW w \in Writers, WriterStep(w) PROVE CallsInv'
  <2>1. \A v \in Writers : CallInv(v)'
    BY <1>1, <1>2, OwnCallInv, OthersCallInv
  <2> QED BY <1>1, <1>2, <2>1, NextCallNumbers, NextOneRecordPerCall DEF CallsInv
<1>3. CASE UNCHANGED vars
  <2>1. CallNumbers' /\ OneRecordPerCall'
    BY <1>3 DEF vars, CallsInv, CallNumbers, OneRecordPerCall, HasRequest
  <2>2. \A w \in Writers : CallInv(w)'
    BY <1>3 DEF vars, CallsInv, CallInv, Unwritten, Uncertain, Failed, Unrecorded, RecordedOnlyAs
  <2> QED BY <1>1, <2>1, <2>2 DEF CallsInv
<1> QED BY <1>1, <1>2, <1>3, PowerLossCalls, StepCases

\* One call makes one record, also when its end is uncertain and it is made
\* again with the id it was told, as often as that happens.
THEOREM RetriesAreSafe == Spec => []OneRecordPerCall
<1>1. CallsInv => OneRecordPerCall
  BY DEF CallsInv
<1> QED BY <1>1, InitCallsInv, NextCallsInv, PTL DEF Spec

\* A call that is told it failed, and was never uncertain, left no record: it
\* may be made again without a second look.
THEOREM FailuresAreClean == Spec => []FailedLeavesNothing
<1>1. CallsInv => FailedLeavesNothing
  BY DEF CallsInv, CallInv, Failed, Unrecorded, FailedLeavesNothing
<1> QED BY <1>1, InitCallsInv, NextCallsInv, PTL DEF Spec

-----------------------------------------------------------------------------
(* A reader that takes no lock, beside the writers.                        *)

\* s is the beginning of t, line by line.
Begins(s, t) == Len(s) <= Len(t) /\ \A i \in 1 .. Len(s) : s[i] = t[i]

\* What begins a file line by line is a prefix of it.
LEMMA BeginsIsPrefix ==
  ASSUME NEW s \in Seq(RecordType), NEW t \in Seq(RecordType), Begins(s, t)
  PROVE  IsPrefix(s, t)
<1>1. Len(s) \in Nat /\ Len(t) \in Nat /\ Len(s) <= Len(t)
  BY DEF Begins
<1>2. SubSeq(s, 1, Len(s)) = SubSeq(t, 1, Len(s))
  <2> DEFINE a == SubSeq(s, 1, Len(s))
             b == SubSeq(t, 1, Len(s))
  <2>1. a \in Seq(RecordType) /\ b \in Seq(RecordType) /\ Len(a) = Len(s) /\ Len(b) = Len(s)
    BY <1>1
  <2>2. \A i \in 1 .. Len(s) : a[i] = b[i]
    BY <1>1 DEF Begins
  <2> HIDE DEF a, b
  <2>3. a = b
    BY <2>1, <2>2
  <2> QED BY <2>3 DEF a, b
<1> QED BY <1>1, <1>2 DEF IsPrefix

\* Some more of the lines of t after the first a of them.
LEMMA LinesAfterBegin ==
  ASSUME NEW s \in Seq(RecordType), NEW t \in Seq(RecordType), Begins(s, t),
         NEW n \in Nat, Len(s) <= n, n <= Len(t)
  PROVE  /\ s \o SubSeq(t, Len(s) + 1, n) \in Seq(RecordType)
         /\ Begins(s \o SubSeq(t, Len(s) + 1, n), t)
         /\ Len(s \o SubSeq(t, Len(s) + 1, n)) = n
<1> DEFINE u == SubSeq(t, Len(s) + 1, n)
<1>1. Len(s) \in Nat /\ Len(t) \in Nat
  OBVIOUS
<1>2. u \in Seq(RecordType) /\ Len(u) = n - Len(s)
  BY <1>1
<1>3. \A i \in 1 .. Len(u) : u[i] = t[Len(s) + i]
  BY <1>1, <1>2
<1> HIDE DEF u
<1>4. Len(s \o u) = n
  BY <1>1, <1>2
<1>5. \A i \in 1 .. n : (s \o u)[i] = t[i]
  <2> SUFFICES ASSUME NEW i \in 1 .. n PROVE (s \o u)[i] = t[i]
    OBVIOUS
  <2>1. CASE i <= Len(s)
    <3>1. i \in 1 .. Len(s) /\ (s \o u)[i] = s[i]
      BY <1>1, <1>2, <2>1
    <3>2. s[i] = t[i]
      BY <3>1 DEF Begins
    <3> QED BY <3>1, <3>2
  <2>2. CASE ~(i <= Len(s))
    <3>1. (s \o u)[i] = u[i - Len(s)]
      BY <1>1, <1>2, <2>2
    <3>2. i - Len(s) \in 1 .. Len(u)
      BY <1>1, <1>2, <2>2
    <3> QED BY <1>1, <1>3, <3>1, <3>2
  <2> QED BY <2>1, <2>2
<1>6. Begins(s \o u, t)
  BY <1>4, <1>5 DEF Begins
<1>7. s \o u \in Seq(RecordType)
  BY <1>2
<1> QED BY <1>4, <1>6, <1>7 DEF u

\* What begins a sequence begins what it grows to.
LEMMA BeginsLonger ==
  ASSUME NEW b \in Seq(RecordType), NEW s \in Seq(RecordType), NEW u \in Seq(RecordType),
         Begins(b, s)
  PROVE  Begins(b, s \o u)
<1>1. Len(b) \in Nat /\ Len(s) \in Nat /\ Len(u) \in Nat /\ Len(s \o u) = Len(s) + Len(u)
  OBVIOUS
<1>2. \A i \in 1 .. Len(s) : (s \o u)[i] = s[i]
  OBVIOUS
<1> QED BY <1>1, <1>2 DEF Begins

\* Every line in the store passed validate_record.
RecordsValid == \A r \in RecordsIn(file) : r.valid

\* What was read of a file is its beginning, up to where the reader is; it has
\* all that was there when the command began.
Straight(m) == Begins(view[m], file[m]) /\ Len(view[m]) = at[m]
Covers(m) == Begins(before[m], view[m])

\* What was there when the command began is still there.  As long as no line
\* was glued the reader has read the beginning of each file; a text that ends
\* inside a torn line, where gluing starts, has every complete line before it.
ReaderInv ==
  /\ LogInv
  /\ RecordsValid
  /\ view \in Files
  /\ before \in Files
  /\ at \in [Months -> Nat]
  /\ head \in RecordType \union {None}
  /\ verdict = "reading" => /\ \A m \in Months : Begins(before[m], file[m])
                            /\ \A m \in Months : at[m] <= Len(file[m])
                            /\ \A m \in Months : Straight(m) \/ Covers(m)
                            /\ ~glued => \A m \in Months : Straight(m)
                            /\ \A m \in asked \ todo : m \in Months => Covers(m)
                            /\ cut => \A m \in Months : First(m) => Covers(m)
  /\ RejectsOnlyGlued

\* A reader's step changes nothing of the store; a writer's step nothing of
\* the reader, unless the power goes.
LEMMA ReaderStepsAreSteps ==
  ASSUME [RNext]_rvars
  PROVE  /\ [Next]_vars
         /\ \/ Next /\ Beside
            \/ ReaderStep /\ UNCHANGED vars
            \/ UNCHANGED rvars
BY DEF RNext, rvars, ReaderStep, ReadStore, ReadFile, StartRead, ReadLines, ReadTorn, ReadOn,
   ReadMonth, RefuseMonth, RefuseTorn, Report

\* Writers put only valid records into the store.
LEMMA NextRecordsValid ==
  ASSUME LogInv, RecordsValid, [Next]_vars
  PROVE  RecordsValid'
<1>1. TypeOK
  BY DEF LogInv, DurabilityInv, StoreInv
<1>2. ASSUME NEW w \in Writers, WriterStep(w) PROVE RecordsValid'
  BY <1>1, <1>2, FilesKeep, WriteFullAdds DEF RecordsValid
<1>3. CASE PowerLoss
  BY <1>3, PowerLossLoses DEF RecordsValid
<1> QED BY <1>2, <1>3, StepCases DEF vars, RecordsValid

\* A store that is beginning by beginning part of another has no record that
\* is not in that one, and no clash if that one has none.
LEMMA ViewIsFine ==
  ASSUME NEW f \in Files, NEW g \in Files, \A m \in Months : Begins(g[m], f[m]),
         ~Complaint(f), \A r \in RecordsIn(f) : r.valid
  PROVE  ~Faulty(g)
<1>1. ASSUME NEW p \in Positions(g) PROVE p \in Positions(f) /\ At(g, p) = At(f, p)
  <2>1. p[1] \in Months /\ p[2] \in 1 .. Len(g[p[1]]) /\ p = <<p[1], p[2]>>
    BY PositionType
  <2>2. Len(g[p[1]]) \in Nat /\ Len(f[p[1]]) \in Nat /\ Begins(g[p[1]], f[p[1]])
    BY <2>1 DEF Files
  <2>3. p[2] \in 1 .. Len(f[p[1]]) /\ At(g, p) = At(f, p)
    BY <2>1, <2>2 DEF Begins, At
  <2>4. p \in {p[1]} \X (1 .. Len(f[p[1]]))
    BY <2>1, <2>3
  <2> QED BY <2>1, <2>3, <2>4 DEF Positions
<1>2. ~Complaint(g)
  BY <1>1 DEF Complaint
<1>3. \A r \in RecordsIn(g) : r \in RecordsIn(f)
  BY <1>1 DEF RecordsIn
<1> QED BY <1>2, <1>3 DEF Faulty

\* What begins a file still begins it when the file has grown.
LEMMA BeginsStays ==
  ASSUME TypeOK, TypeOK', [Next]_vars, losses' = losses, NEW m \in Months,
         NEW s \in Seq(RecordType), Begins(s, file[m])
  PROVE  Begins(s, file'[m])
<1>1. file[m] \in Seq(RecordType) /\ file'[m] \in Seq(RecordType)
  BY DEF TypeOK
<1>2. Len(file[m]) <= Len(file'[m]) /\ SubSeq(file'[m], 1, Len(file[m])) = file[m]
  BY LinesStay
<1>3. \A i \in 1 .. Len(file[m]) : file'[m][i] = file[m][i]
  BY <1>1, <1>2
<1> QED BY <1>1, <1>2, <1>3 DEF Begins

\* At most one file is the next one.
LEMMA FirstIsOne ==
  ASSUME NEW m \in Months, NEW k \in Months, First(m), First(k)
  PROVE  k = m
<1>1. NameOrder[m] \in Nat /\ NameOrder[k] \in Nat
  BY ReadersAssumption
<1>2. NameOrder[m] <= NameOrder[k] /\ NameOrder[k] <= NameOrder[m]
  BY DEF First
<1> QED BY <1>1, <1>2, ReadersAssumption

\* A reader that reads more of a file keeps what it knows of it.
LEMMA ReadsOn ==
  ASSUME ReaderInv, NEW m \in Months, Reading(m), NEW n \in Nat,
         at[m] <= n, n <= Len(file[m])
  PROVE  /\ ViewUpTo(m, n) \in Files
         /\ \A k \in Months : k # m => ViewUpTo(m, n)[k] = view[k]
         /\ (Straight(m) => Begins(ViewUpTo(m, n)[m], file[m]) /\ Len(ViewUpTo(m, n)[m]) = n)
         /\ (Covers(m) => Begins(before[m], ViewUpTo(m, n)[m]))
<1> DEFINE u == SubSeq(file[m], at[m] + 1, n)
<1>1. /\ file[m] \in Seq(RecordType) /\ view[m] \in Seq(RecordType) /\ view \in Files
      /\ before[m] \in Seq(RecordType) /\ at[m] \in Nat /\ Len(file[m]) \in Nat
  BY DEF ReaderInv, LogInv, DurabilityInv, StoreInv, TypeOK, Files
<1>2. u \in Seq(RecordType)
  BY <1>1
<1>3. /\ ViewUpTo(m, n)[m] = view[m] \o u
      /\ \A k \in Months : k # m => ViewUpTo(m, n)[k] = view[k]
  BY <1>1 DEF ViewUpTo, Files
<1>4. view[m] \o u \in Seq(RecordType)
  BY <1>1, <1>2
<1>5. ViewUpTo(m, n) \in Files
  BY <1>1, <1>4 DEF ViewUpTo, Files
<1>6. Straight(m) => Begins(view[m] \o u, file[m]) /\ Len(view[m] \o u) = n
  <2> SUFFICES ASSUME Straight(m)
               PROVE  Begins(view[m] \o u, file[m]) /\ Len(view[m] \o u) = n
    OBVIOUS
  <2>1. Begins(view[m], file[m]) /\ Len(view[m]) = at[m]
    BY DEF Straight
  <2>2. u = SubSeq(file[m], Len(view[m]) + 1, n)
    BY <2>1
  <2> HIDE DEF u
  <2>3. Len(view[m]) <= n
    BY <2>1
  <2>4. LET s == view[m] \o SubSeq(file[m], Len(view[m]) + 1, n) IN Begins(s, file[m]) /\ Len(s) = n
    BY <1>1, <2>1, <2>3, LinesAfterBegin
  <2> QED BY <2>2, <2>4
<1>7. Covers(m) => Begins(before[m], view[m] \o u)
  BY <1>1, <1>2, BeginsLonger DEF Covers
<1> QED BY <1>3, <1>5, <1>6, <1>7

\* Who has read a file to its end has what was there when the command began.
LEMMA WholeFileCovers ==
  ASSUME NEW b \in Seq(RecordType), NEW s \in Seq(RecordType), NEW t \in Seq(RecordType),
         Begins(b, t), Begins(s, t), Len(s) = Len(t)
  PROVE  Begins(b, s)
BY DEF Begins

\* A line put together from two is a record, whatever it says.
LEMMA HybridIsRecord ==
  ASSUME NEW x \in RecordType, NEW y \in RecordType, NEW k \in Nat, NEW v \in BOOLEAN
  PROVE  Hybrid(x, y, k, v) \in RecordType
BY DEF Hybrid, RecordType

\* A reader's step keeps it: as long as no line was glued, what it reads next is
\* the file itself, which begins with what was there when the command began.
LEMMA ReaderStepInv ==
  ASSUME ReaderInv, ReaderStep, UNCHANGED vars, LogInv', RecordsValid'
  PROVE  ReaderInv'
<1>1. /\ TypeOK /\ file \in Files /\ StoreConsistent /\ file' = file /\ torn' = torn
      /\ view \in Files /\ before \in Files /\ RecordsValid /\ at \in [Months -> Nat]
      /\ head \in RecordType \union {None}
  BY DEF ReaderInv, LogInv, DurabilityInv, StoreInv, TypeOK, Files, vars
<1>2. /\ Empty \in Files /\ \A m \in Months : Empty[m] = << >> /\ Begins(<< >>, file[m])
      /\ Nowhere \in [Months -> Nat] /\ \A m \in Months : Nowhere[m] = 0
  BY <1>1 DEF Empty, Files, Begins, Nowhere
<1>3. \A m \in Months : Len(file[m]) \in Nat /\ Begins(file[m], file[m])
  BY <1>1 DEF Begins, Files
<1>4. ASSUME NEW files, NEW months, StartRead(files, months),
             \A m \in Months : m \in months \ files => file[m] = << >>
      PROVE  ReaderInv'
  <2>1. /\ view' = Empty /\ before' = file /\ todo' = files /\ asked' = months
        /\ verdict' = "reading" /\ at' = Nowhere /\ cut' = FALSE /\ head' = None
    BY <1>4 DEF StartRead, Fresh
  <2>2. \A m \in asked' \ todo' : m \in Months => Covers(m)'
    BY <1>2, <1>4, <2>1 DEF Begins, Covers
  <2>3. \A m \in Months : /\ Straight(m)' /\ Begins(before'[m], file'[m])
                          /\ at'[m] <= Len(file'[m])
    BY <1>1, <1>2, <1>3, <2>1 DEF Straight
  <2> QED BY <1>1, <1>2, <2>1, <2>2, <2>3 DEF ReaderInv, RejectsOnlyGlued
<1>5. CASE ReadStore
  <2>1. \A m \in Months : m \in Months \ StoreFiles => file[m] = << >>
    BY DEF StoreFiles, Present
  <2> QED BY <1>4, <1>5, <2>1 DEF ReadStore
<1>6. ASSUME NEW m \in Months, ReadFile(m) PROVE ReaderInv'
  BY <1>4, <1>6 DEF ReadFile
<1>7. ASSUME NEW m \in Months, ReadLines(m) PROVE ReaderInv'
  <2>1. PICK n \in at[m] + 1 .. Len(file[m]) :
          view' = ViewUpTo(m, n) /\ at' = [at EXCEPT ![m] = n]
    BY <1>7 DEF ReadLines
  <2>2. /\ Reading(m) /\ verdict = "reading" /\ verdict' = "reading" /\ cut = FALSE /\ cut' = FALSE
        /\ todo' = todo /\ asked' = asked /\ before' = before /\ glued' = glued /\ head' = head
    BY <1>7 DEF ReadLines, Reading
  <2>3. n \in Nat /\ at[m] <= n /\ n <= Len(file[m])
    BY <1>1, <1>3, <2>1
  <2>4. /\ at' \in [Months -> Nat] /\ at'[m] = n /\ \A k \in Months : k # m => at'[k] = at[k]
    BY <1>1, <2>1, <2>3
  <2>5. /\ view' \in Files /\ \A k \in Months : k # m => view'[k] = view[k]
        /\ (Straight(m) => Straight(m)') /\ (Covers(m) => Covers(m)')
    BY <1>1, <2>1, <2>2, <2>3, <2>4, ReadsOn DEF Straight, Covers
  <2>6. \A k \in Months : (Straight(k) => Straight(k)') /\ (Covers(k) => Covers(k)')
    <3> SUFFICES ASSUME NEW k \in Months, k # m
                 PROVE  (Straight(k) => Straight(k)') /\ (Covers(k) => Covers(k)')
      BY <2>5
    <3> QED BY <1>1, <2>2, <2>4, <2>5 DEF Straight, Covers
  <2>7. \A k \in Months : at'[k] <= Len(file'[k])
    BY <1>1, <2>2, <2>3, <2>4 DEF ReaderInv
  <2> QED BY <1>1, <2>2, <2>4, <2>5, <2>6, <2>7 DEF ReaderInv, RejectsOnlyGlued
<1>8. ASSUME NEW m \in Months, ReadTorn(m) PROVE ReaderInv'
  <2>1. view' = ViewUpTo(m, Len(file[m])) /\ at' = [at EXCEPT ![m] = Len(file[m])]
    BY <1>8 DEF ReadTorn
  <2>2. /\ Reading(m) /\ verdict = "reading" /\ verdict' = "reading" /\ First(m)
        /\ todo' = todo /\ asked' = asked /\ before' = before /\ glued' = glued
        /\ head' = TornLine(m)
    BY <1>8 DEF ReadTorn, Reading
  <2>3. Len(file[m]) \in Nat /\ at[m] <= Len(file[m])
    BY <1>3, <2>2 DEF ReaderInv
  <2>4. /\ at' \in [Months -> Nat] /\ at'[m] = Len(file[m])
        /\ \A k \in Months : k # m => at'[k] = at[k]
    BY <1>1, <2>1, <2>3
  <2>5. /\ view' \in Files /\ \A k \in Months : k # m => view'[k] = view[k]
        /\ (Straight(m) => Straight(m)') /\ (Covers(m) => Covers(m)')
    BY <1>1, <2>1, <2>2, <2>3, <2>4, ReadsOn DEF Straight, Covers
  <2>6. Straight(m)' => Covers(m)'
    <3>1. /\ before[m] \in Seq(RecordType) /\ view'[m] \in Seq(RecordType)
          /\ file[m] \in Seq(RecordType) /\ Begins(before[m], file[m])
      BY <1>1, <2>2, <2>5 DEF ReaderInv, Files
    <3> QED BY <1>1, <2>2, <2>4, <3>1, WholeFileCovers DEF Straight, Covers
  <2>7. Covers(m)'
    <3>1. Straight(m) \/ Covers(m)
      BY <2>2 DEF ReaderInv
    <3> QED BY <2>5, <2>6, <3>1
  <2>8. \A k \in Months : (Straight(k) => Straight(k)') /\ (Covers(k) => Covers(k)')
    <3> SUFFICES ASSUME NEW k \in Months, k # m
                 PROVE  (Straight(k) => Straight(k)') /\ (Covers(k) => Covers(k)')
      BY <2>5
    <3> QED BY <1>1, <2>2, <2>4, <2>5 DEF Straight, Covers
  <2>9. \A k \in Months : at'[k] <= Len(file'[k])
    BY <1>1, <2>2, <2>3, <2>4 DEF ReaderInv
  <2>10. \A k \in Months : First(k)' => Covers(k)'
    BY <2>2, <2>7, FirstIsOne DEF First
  <2>11. head' \in RecordType \union {None}
    BY <1>1, <2>2 DEF TornLine, TypeOK, HasRecord
  <2> QED BY <1>1, <2>2, <2>4, <2>5, <2>8, <2>9, <2>10, <2>11 DEF ReaderInv, RejectsOnlyGlued
<1>9. ASSUME NEW m \in Months, ReadOn(m) PROVE ReaderInv'
  <2>1. PICK j \in at[m] + 1 .. Len(file[m]), k \in 0 .. 8, v \in BOOLEAN :
          /\ view' = [view EXCEPT ![m] = Append(@, Hybrid(head, file[m][j], k, v))]
          /\ at' = [at EXCEPT ![m] = j]
    BY <1>9 DEF ReadOn
  <2>2. /\ verdict = "reading" /\ verdict' = "reading" /\ First(m) /\ cut = TRUE /\ cut' = FALSE
        /\ todo' = todo /\ asked' = asked /\ before' = before /\ glued' = TRUE
        /\ head # None /\ head' = None
    BY <1>9, <1>1 DEF ReadOn, Reading
  <2> DEFINE h == Hybrid(head, file[m][j], k, v)
  <2>3. j \in Nat /\ j \in 1 .. Len(file[m])
    BY <1>1, <1>3, <2>1
  <2>4. h \in RecordType
    <3>1. head \in RecordType /\ file[m][j] \in RecordType /\ k \in Nat
      BY <1>1, <2>2, <2>3 DEF Files
    <3> QED BY <3>1, HybridIsRecord
  <2> HIDE DEF h
  <2>5. /\ view[m] \in Seq(RecordType) /\ before[m] \in Seq(RecordType) /\ <<h>> \in Seq(RecordType)
        /\ Append(view[m], h) = view[m] \o <<h>> /\ Append(view[m], h) \in Seq(RecordType)
    BY <1>1, <2>4 DEF Files
  <2>6. /\ view' \in Files /\ view'[m] = view[m] \o <<h>>
        /\ \A i \in Months : i # m => view'[i] = view[i]
    BY <1>1, <2>1, <2>5 DEF Files, h
  <2>7. /\ at' \in [Months -> Nat] /\ at'[m] = j /\ \A i \in Months : i # m => at'[i] = at[i]
    BY <1>1, <2>1, <2>3
  <2>8. Covers(m) /\ Covers(m)'
    BY <2>2, <2>5, <2>6, BeginsLonger DEF ReaderInv, Covers
  <2>9. \A i \in Months : i # m => (Straight(i) => Straight(i)') /\ (Covers(i) => Covers(i)')
    BY <1>1, <2>2, <2>6, <2>7 DEF Straight, Covers
  <2>10. \A i \in Months : at'[i] <= Len(file'[i])
    BY <1>1, <2>2, <2>3, <2>7 DEF ReaderInv
  <2> QED BY <1>1, <2>2, <2>6, <2>7, <2>8, <2>9, <2>10 DEF ReaderInv, RejectsOnlyGlued
<1>10. ASSUME NEW m \in Months, ReadMonth(m) PROVE ReaderInv'
  <2>1. /\ verdict = "reading" /\ verdict' = "reading" /\ cut = FALSE /\ cut' = FALSE
        /\ view' = view /\ at' = at /\ head' = head /\ glued' = glued
        /\ todo' = todo \ {m} /\ asked' = asked /\ before' = before /\ at[m] = Len(file[m])
    BY <1>1, <1>10 DEF ReadMonth, AtEnd, Reading, progress
  <2>2. Covers(m)
    <3>1. /\ before[m] \in Seq(RecordType) /\ view[m] \in Seq(RecordType)
          /\ file[m] \in Seq(RecordType) /\ Begins(before[m], file[m])
      BY <1>1, <2>1 DEF ReaderInv, Files
    <3>2. Straight(m) => Covers(m)
      BY <2>1, <3>1, WholeFileCovers DEF Straight, Covers
    <3> QED BY <2>1, <3>2 DEF ReaderInv
  <2>3. \A k \in Months : (Straight(k) => Straight(k)') /\ (Covers(k) => Covers(k)')
    BY <1>1, <2>1 DEF Straight, Covers
  <2> QED BY <1>1, <2>1, <2>2, <2>3 DEF ReaderInv, RejectsOnlyGlued
<1>11. ASSUME NEW v, EndRead(v), v # "reading", v = "rejected" => glued
       PROVE  ReaderInv'
  BY <1>1, <1>2, <1>11 DEF EndRead, Fresh, ReaderInv, RejectsOnlyGlued
<1>12. ASSUME NEW m \in Months, RefuseMonth(m) PROVE ReaderInv'
  <2>1. verdict = "reading" /\ Faulty(view)
    BY <1>12 DEF RefuseMonth, AtEnd, Reading
  <2>2. ASSUME ~glued PROVE FALSE
    <3>1. \A k \in Months : Begins(view[k], file[k])
      BY <2>1, <2>2 DEF ReaderInv, Straight
    <3> QED BY <1>1, <2>1, <3>1, ViewIsFine DEF StoreConsistent, RecordsValid
  <2> QED BY <1>11, <1>12, <2>2 DEF RefuseMonth
<1>13. ASSUME NEW m \in Months, RefuseTorn(m) PROVE ReaderInv'
  BY <1>11, <1>13 DEF RefuseTorn
<1>14. CASE Report
  BY <1>11, <1>14 DEF Report
<1> QED BY <1>5, <1>6, <1>7, <1>8, <1>9, <1>10, <1>12, <1>13, <1>14 DEF ReaderStep

\* A writer's step keeps it: files only grow, and who loses power stops.
LEMMA BesideInv ==
  ASSUME ReaderInv, Next, Beside, LogInv', RecordsValid'
  PROVE  ReaderInv'
<1>1. TypeOK /\ TypeOK'
  BY DEF ReaderInv, LogInv, DurabilityInv, StoreInv
<1>2. CASE losses' = losses
  <2>1. UNCHANGED <<todo, view, at, cut, head, glued, verdict, asked, before>>
    BY <1>2 DEF Beside, reader, progress
  <2>2. \A m \in Months : \A s \in Seq(RecordType) : Begins(s, file[m]) => Begins(s, file'[m])
    BY <1>1, <1>2, BeginsStays
  <2>3. \A m \in Months : view[m] \in Seq(RecordType) /\ before[m] \in Seq(RecordType)
    BY DEF ReaderInv, Files
  <2>4. \A m \in Months : (Straight(m) => Straight(m)') /\ (Covers(m) => Covers(m)')
    BY <2>1, <2>2, <2>3 DEF Straight, Covers
  <2>5. ASSUME NEW m \in Months, at[m] <= Len(file[m]) PROVE at[m] <= Len(file'[m])
    <3>1. Len(file[m]) <= Len(file'[m])
      BY <1>1, <1>2, LinesStay
    <3>2. at[m] \in Nat
      BY DEF ReaderInv
    <3>3. Len(file[m]) \in Nat /\ Len(file'[m]) \in Nat
      BY <1>1 DEF TypeOK
    <3> QED BY <2>5, <3>1, <3>2, <3>3
  <2>6. \A m \in Months : First(m)' = First(m)
    BY <2>1 DEF First
  <2> QED BY <2>1, <2>2, <2>3, <2>4, <2>5, <2>6 DEF ReaderInv, RejectsOnlyGlued
<1>3. CASE losses' # losses /\ verdict # "reading"
  BY <1>3 DEF Beside, reader, progress, ReaderInv, RejectsOnlyGlued
<1>4. CASE losses' # losses /\ verdict = "reading"
  <2>1. /\ verdict' = "killed" /\ view' = Empty /\ before' = Empty /\ at' = Nowhere /\ head' = None
    BY <1>4 DEF Beside, EndRead, Fresh
  <2>2. Empty \in Files /\ Nowhere \in [Months -> Nat]
    BY DEF Empty, Files, Nowhere
  <2> QED BY <2>1, <2>2 DEF ReaderInv, RejectsOnlyGlued
<1> QED BY <1>2, <1>3, <1>4

\* Every step of the composition keeps it.
LEMMA NextReaderInv == ReaderInv /\ [RNext]_rvars => ReaderInv'
<1> SUFFICES ASSUME ReaderInv, [RNext]_rvars PROVE ReaderInv'
  OBVIOUS
<1>1. LogInv' /\ RecordsValid'
  BY ReaderStepsAreSteps, NextLogInv, NextRecordsValid DEF ReaderInv
<1>2. CASE UNCHANGED rvars
  BY <1>1, <1>2 DEF rvars, reader, progress, vars, ReaderInv, RejectsOnlyGlued, Straight, Covers, First
<1> QED BY <1>1, <1>2, ReaderStepsAreSteps, ReaderStepInv, BesideInv

\* Before any read nothing is read.
LEMMA InitReaderInv == RInit => ReaderInv
<1> SUFFICES ASSUME RInit PROVE ReaderInv
  OBVIOUS
<1>1. Positions(Empty) = {} /\ Empty \in Files /\ Nowhere \in [Months -> Nat]
  BY DEF Positions, Empty, Files, Nowhere
<1>2. LogInv /\ RecordsValid
  BY <1>1, InitLogInv DEF RInit, Init, RecordsValid, RecordsIn
<1> QED BY <1>1, <1>2 DEF RInit, ReaderInv, RejectsOnlyGlued

\* However the reads of its files interleave with writers, a reader finds a
\* clash or an invalid record only where a line was rolled back under it and
\* written over.
THEOREM ReadersAccept == RSpec => []RejectsOnlyGlued
<1>1. ReaderInv => RejectsOnlyGlued
  BY DEF ReaderInv
<1> QED BY <1>1, InitReaderInv, NextReaderInv, PTL DEF RSpec

\* What a command reports holds all that was in the store when it began, and
\* nothing, but for a glued line, that is not in the store when it ends.
THEOREM ReportsAreBetween == RSpec => ReportIsBetween
<1>1. ReaderInv /\ [RNext]_rvars =>
        [verdict = "reading" /\ verdict' = "ok" =>
           \A m \in Months : /\ m \in asked => IsPrefix(before[m], view[m])
                             /\ ~glued => IsPrefix(view[m], file[m])]_rvars
  <2> SUFFICES ASSUME ReaderInv, [RNext]_rvars, verdict = "reading", verdict' = "ok",
                      NEW m \in Months
               PROVE  /\ m \in asked => IsPrefix(before[m], view[m])
                      /\ ~glued => IsPrefix(view[m], file[m])
    OBVIOUS
  <2>1. todo = {}
    BY DEF RNext, Beside, reader, rvars, EndRead, ReaderStep, ReadStore, ReadFile, StartRead,
       ReadLines, ReadTorn, ReadOn, ReadMonth, RefuseMonth, RefuseTorn, Report
  <2>2. /\ before[m] \in Seq(RecordType) /\ view[m] \in Seq(RecordType)
        /\ file[m] \in Seq(RecordType)
    BY DEF ReaderInv, LogInv, DurabilityInv, StoreInv, TypeOK, Files
  <2>3. (m \in asked => Begins(before[m], view[m])) /\ (~glued => Begins(view[m], file[m]))
    BY <2>1 DEF ReaderInv, Straight, Covers
  <2> QED BY <2>2, <2>3, BeginsIsPrefix
<1> QED BY <1>1, InitReaderInv, NextReaderInv, PTL DEF RSpec, ReportIsBetween

\* The reader's state keeps its types, next to a well-typed store: it reads
\* only month files, each once, and a glued line is still a record.
THEOREM ReaderTypeCorrect == RSpec => []ReaderTypeOK
<1>1. RInit => ReaderTypeOK
  <2>1. Empty \in [Months -> Seq(RecordType)] /\ Nowhere \in [Months -> Nat]
    BY DEF Empty, Nowhere
  <2> SUFFICES ASSUME RInit PROVE ReaderTypeOK
    OBVIOUS
  <2>2. TypeOK
    BY InitTypeOK DEF RInit
  <2> QED BY <2>1, <2>2 DEF RInit, ReaderTypeOK, Verdicts
<1>2. ReaderTypeOK /\ [RNext]_rvars => ReaderTypeOK'
  <2> SUFFICES ASSUME ReaderTypeOK, [RNext]_rvars PROVE ReaderTypeOK'
    OBVIOUS
  <2>1. TypeOK'
    BY ReaderStepsAreSteps, NextTypeOK DEF ReaderTypeOK
  <2>2. Empty \in [Months -> Seq(RecordType)] /\ Nowhere \in [Months -> Nat]
    BY DEF Empty, Nowhere
  <2>3. ASSUME NEW m \in Months
        PROVE  /\ file[m] \in Seq(RecordType) /\ view[m] \in Seq(RecordType)
               /\ at[m] \in Nat /\ Len(file[m]) \in Nat
    BY DEF ReaderTypeOK, TypeOK
  <2>4. ASSUME NEW m \in Months, NEW n \in Nat, n <= Len(file[m])
        PROVE  ViewUpTo(m, n) \in [Months -> Seq(RecordType)]
    <3>1. SubSeq(file[m], at[m] + 1, n) \in Seq(RecordType)
      BY <2>3, <2>4
    <3>2. view[m] \o SubSeq(file[m], at[m] + 1, n) \in Seq(RecordType)
      BY <2>3, <3>1
    <3> QED BY <3>2 DEF ViewUpTo, ReaderTypeOK
  <2>5. CASE UNCHANGED reader
    BY <2>1, <2>5 DEF reader, progress, ReaderTypeOK
  <2>6. ASSUME NEW v \in Verdicts, EndRead(v) PROVE ReaderTypeOK'
    BY <2>1, <2>2, <2>6 DEF EndRead, Fresh, ReaderTypeOK
  <2>7. ASSUME NEW files \in SUBSET Months, NEW months \in SUBSET Months,
               StartRead(files, months)
        PROVE  ReaderTypeOK'
    <3>1. before' \in [Months -> Seq(RecordType)] /\ reads' \in Nat
      BY <2>7 DEF StartRead, ReaderTypeOK, TypeOK
    <3>2. /\ view' = Empty /\ at' = Nowhere /\ cut' = FALSE /\ head' = None /\ glued' = FALSE
          /\ todo' = files /\ asked' = months /\ verdict' = "reading"
      BY <2>7 DEF StartRead, Fresh
    <3> QED BY <2>1, <2>2, <3>1, <3>2 DEF ReaderTypeOK, Verdicts
  <2>8. ASSUME NEW m \in Months, ReadLines(m) PROVE ReaderTypeOK'
    BY <2>1, <2>3, <2>4, <2>8 DEF ReadLines, ReaderTypeOK
  <2>9. ASSUME NEW m \in Months, ReadTorn(m) PROVE ReaderTypeOK'
    <3>1. TornLine(m) \in RecordType \union {None}
      BY DEF TornLine, ReaderTypeOK, TypeOK, HasRecord
    <3> QED BY <2>1, <2>3, <2>4, <2>9, <3>1 DEF ReadTorn, ReaderTypeOK
  <2>10. ASSUME NEW m \in Months, ReadOn(m) PROVE ReaderTypeOK'
    <3>1. PICK j \in at[m] + 1 .. Len(file[m]), k \in 0 .. 8, v \in BOOLEAN :
            /\ view' = [view EXCEPT ![m] = Append(@, Hybrid(head, file[m][j], k, v))]
            /\ at' = [at EXCEPT ![m] = j]
      BY <2>10 DEF ReadOn
    <3>2. j \in Nat /\ j \in 1 .. Len(file[m]) /\ head \in RecordType
      BY <2>3, <2>10, <3>1 DEF ReadOn, ReaderTypeOK
    <3>3. Hybrid(head, file[m][j], k, v) \in RecordType
      <4>1. file[m][j] \in RecordType /\ k \in Nat
        BY <2>3, <3>2
      <4> QED BY <3>2, <4>1, HybridIsRecord
    <3>4. view' \in [Months -> Seq(RecordType)]
      BY <2>3, <3>1, <3>3 DEF ReaderTypeOK
    <3> QED BY <2>1, <2>10, <3>1, <3>2, <3>4 DEF ReadOn, ReaderTypeOK
  <2>11. ASSUME NEW m \in Months, ReadMonth(m) PROVE ReaderTypeOK'
    BY <2>1, <2>11 DEF ReadMonth, progress, ReaderTypeOK
  <2>12. CASE ReaderStep
    BY <2>6, <2>7, <2>8, <2>9, <2>10, <2>11, <2>12
    DEF ReaderStep, ReadStore, ReadFile, StoreFiles, RefuseMonth, RefuseTorn, Report, Verdicts
  <2> QED BY <2>5, <2>6, <2>12, ReaderStepsAreSteps DEF Beside, rvars, Verdicts
<1> QED BY <1>1, <1>2, PTL DEF RSpec
=============================================================================
