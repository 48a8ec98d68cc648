---------------------------- MODULE Launch_proofs ----------------------------
(***************************************************************************)
(* Proofs about launches for any runs, requests and scratch directories,   *)
(* any sizes and thresholds: who owns a scratch root, what a worker may    *)
(* write, what a review may have used, and what its bytes are charged to.  *)
(***************************************************************************)
EXTENDS Launch, TLAPS, FiniteSetTheorems

-----------------------------------------------------------------------------
(* Paths.                                                                  *)

LEMMA PathsAreSequences ==
  ASSUME NEW d \in Dirs
  PROVE  d \in Seq(Range(d)) /\ Len(d) \in Nat
<1>1. CASE d \in {State, Project}
  BY <1>1 DEF State, Project, Range
<1>2. CASE d \in {RunDir(r) : r \in Runs}
  BY <1>2 DEF RunDir, Range
<1>3. CASE d \in {DefaultScratch(r) : r \in Runs}
  <2>1. PICK r \in Runs : d = DefaultScratch(r)
    BY <1>3
  <2> DEFINE N == {"state", "runs", "scratch", r}
  <2>2. RunDir(r) \in Seq(N) /\ <<"scratch">> \in Seq(N)
    BY DEF RunDir
  <2>3. d \in Seq(N)
    BY <2>1, <2>2 DEF DefaultScratch
  <2>4. \A S : \A e \in Seq(S) : e \in Seq(Range(e)) /\ Len(e) \in Nat
    BY DEF Range
  <2> QED BY <2>3, <2>4
<1>4. CASE d \in Places
  <2>1. d \in Seq(Range(d))
    BY <1>4, LaunchAssumption
  <2> QED BY <2>1
<1> QED BY <1>1, <1>2, <1>3, <1>4 DEF Dirs

LEMMA BelowMeans ==
  ASSUME NEW d \in Dirs, NEW e \in Dirs
  PROVE  Below(d, e) <=> Len(e) <= Len(d) /\ \A i \in 1 .. Len(e) : e[i] = d[i]
<1> DEFINE D == Range(d)
           E == Range(e)
<1>1. d \in Seq(D) /\ e \in Seq(E)
  BY PathsAreSequences
<1> HIDE DEF D, E
<1>2. SubSeq(e, 1, Len(e)) = [i \in 1 .. Len(e) |-> e[i]]
  BY <1>1
<1>3. Len(e) <= Len(d) => SubSeq(d, 1, Len(e)) = [i \in 1 .. Len(e) |-> d[i]]
  BY <1>1
<1> QED BY <1>2, <1>3 DEF Below, IsPrefix

\* Being below is an order, and what lies above a directory is a chain.
LEMMA BelowOrder ==
  /\ \A d \in Dirs : Below(d, d)
  /\ \A d, e \in Dirs : Below(d, e) /\ Below(e, d) => d = e
  /\ \A d, e, f \in Dirs : Below(d, e) /\ Below(e, f) => Below(d, f)
  /\ \A d, e, f \in Dirs : Below(d, e) /\ Below(d, f) => Below(e, f) \/ Below(f, e)
<1>1. \A d, e \in Dirs : Below(d, e) <=> Len(e) <= Len(d) /\ \A i \in 1 .. Len(e) : e[i] = d[i]
  BY BelowMeans
<1>2. \A d \in Dirs : Len(d) \in Nat
  BY PathsAreSequences
<1>3. ASSUME NEW d \in Dirs, NEW e \in Dirs, Below(d, e), Below(e, d) PROVE d = e
  <2> DEFINE D == Range(d)
             E == Range(e)
  <2>1. d \in Seq(D) /\ e \in Seq(E)
    BY PathsAreSequences
  <2> HIDE DEF D, E
  <2>2. Len(d) = Len(e) /\ \A i \in 1 .. Len(d) : d[i] = e[i]
    BY <1>1, <1>2, <1>3
  <2> QED BY <2>1, <2>2
<1>4. ASSUME NEW d \in Dirs, NEW e \in Dirs, NEW f \in Dirs, Below(d, e), Below(e, f)
      PROVE  Below(d, f)
  <2>1. Len(f) <= Len(e) /\ Len(e) <= Len(d)
    BY <1>1, <1>4
  <2>2. \A i \in 1 .. Len(f) : f[i] = d[i]
    BY <1>1, <1>2, <1>4, <2>1
  <2> QED BY <1>1, <1>2, <2>1, <2>2
<1>5. ASSUME NEW d \in Dirs, NEW e \in Dirs, NEW f \in Dirs, Below(d, e), Below(d, f)
      PROVE  Below(e, f) \/ Below(f, e)
  <2>1. \/ Len(f) <= Len(e) /\ \A i \in 1 .. Len(f) : f[i] = e[i]
        \/ Len(e) <= Len(f) /\ \A i \in 1 .. Len(e) : e[i] = f[i]
    BY <1>1, <1>2, <1>5
  <2> QED BY <1>1, <2>1
<1> QED BY <1>1, <1>2, <1>3, <1>4, <1>5

\* Where the directories of the state root lie.
LEMMA Layout ==
  /\ State \in Dirs
  /\ \A r \in Runs :
       /\ RunDir(r) \in Dirs /\ DefaultScratch(r) \in Dirs
       /\ Below(RunDir(r), State) /\ ~Below(State, RunDir(r))
       /\ Below(DefaultScratch(r), RunDir(r))
  /\ \A r, s \in Runs : Below(RunDir(r), RunDir(s)) => r = s
<1>1. State \in Dirs /\ Len(State) = 1 /\ State[1] = "state"
  BY DEF Dirs, State
<1>2. ASSUME NEW r \in Runs
      PROVE  /\ RunDir(r) \in Dirs /\ DefaultScratch(r) \in Dirs
             /\ Len(RunDir(r)) = 3 /\ RunDir(r)[1] = "state" /\ RunDir(r)[3] = r
             /\ Len(DefaultScratch(r)) = 4
             /\ \A i \in 1 .. 3 : DefaultScratch(r)[i] = RunDir(r)[i]
  <2>1. RunDir(r) \in {RunDir(s) : s \in Runs} /\ DefaultScratch(r) \in {DefaultScratch(s) : s \in Runs}
    OBVIOUS
  <2>2. RunDir(r) \in Dirs /\ DefaultScratch(r) \in Dirs
    BY <2>1, Zenon DEF Dirs
  <2>3. Len(RunDir(r)) = 3 /\ RunDir(r)[1] = "state" /\ RunDir(r)[3] = r
    BY DEF RunDir
  <2>4. /\ Len(DefaultScratch(r)) = 4
        /\ \A i \in 1 .. 3 : DefaultScratch(r)[i] = RunDir(r)[i]
    BY DEF DefaultScratch, RunDir
  <2> QED BY <2>2, <2>3, <2>4
<1>3. ASSUME NEW r \in Runs PROVE Below(RunDir(r), State) /\ ~Below(State, RunDir(r))
  BY <1>1, <1>2, BelowMeans
<1>4. ASSUME NEW r \in Runs PROVE Below(DefaultScratch(r), RunDir(r))
  <2> DEFINE d == DefaultScratch(r)
             e == RunDir(r)
  <2>1. /\ d \in Dirs /\ e \in Dirs /\ Len(e) = 3 /\ Len(d) = 4
        /\ \A i \in 1 .. 3 : d[i] = e[i]
    BY <1>2
  <2> HIDE DEF d, e
  <2>2. Below(d, e) <=> Len(e) <= Len(d) /\ \A i \in 1 .. Len(e) : e[i] = d[i]
    BY <2>1, BelowMeans
  <2>3. Below(d, e)
    BY <2>1, <2>2
  <2> QED BY <2>3 DEF d, e
<1>5. ASSUME NEW r \in Runs, NEW s \in Runs, Below(RunDir(r), RunDir(s)) PROVE r = s
  <2>1. Below(RunDir(r), RunDir(s)) => \A i \in 1 .. Len(RunDir(s)) : RunDir(s)[i] = RunDir(r)[i]
    BY <1>2, BelowMeans
  <2>2. \A i \in 1 .. 3 : RunDir(s)[i] = RunDir(r)[i]
    BY <1>2, <1>5, <2>1
  <2> QED BY <1>2, <2>2
<1> QED BY <1>1, <1>2, <1>3, <1>4, <1>5

-----------------------------------------------------------------------------
(* Sizes.                                                                  *)

LEMMA DirsAreFinite == IsFiniteSet(Dirs)
<1>1. IsFiniteSet({RunDir(r) : r \in Runs})
  <2>1. [r \in Runs |-> RunDir(r)] \in Surjection(Runs, {RunDir(r) : r \in Runs})
    BY DEF Surjection
  <2> QED BY <2>1, FS_Surjection, LaunchAssumption
<1>2. IsFiniteSet({DefaultScratch(r) : r \in Runs})
  <2>1. [r \in Runs |-> DefaultScratch(r)] \in Surjection(Runs, {DefaultScratch(r) : r \in Runs})
    BY DEF Surjection
  <2> QED BY <2>1, FS_Surjection, LaunchAssumption
<1>3. IsFiniteSet({State, Project})
  <2>1. {State, Project} = {State} \union {Project}
    OBVIOUS
  <2>2. IsFiniteSet({State} \union {Project})
    BY FS_Singleton, FS_Union
  <2> QED BY <2>1, <2>2
<1>4. IsFiniteSet({State, Project} \union {RunDir(r) : r \in Runs})
  BY <1>1, <1>3, FS_Union
<1>5. IsFiniteSet({State, Project} \union {RunDir(r) : r \in Runs} \union {DefaultScratch(r) : r \in Runs})
  BY <1>2, <1>4, FS_Union
<1> QED BY <1>5, FS_Union, LaunchAssumption DEF Dirs

LEMMA UnitsAreFinite ==
  ASSUME NEW S, S \subseteq Dirs \X (1 .. MaxBytes)
  PROVE  IsFiniteSet(S) /\ Cardinality(S) \in Nat
<1>1. IsFiniteSet(1 .. MaxBytes)
  BY FS_Interval, LaunchAssumption
<1>2. IsFiniteSet(Dirs \X (1 .. MaxBytes))
  BY <1>1, DirsAreFinite, FS_Product
<1> QED BY <1>2, FS_Subset, FS_CardinalityType

LEMMA SizeIsNatural == \A root, excluded : DirectorySize(root, excluded) \in Nat
BY UnitsAreFinite DEF DirectorySize, Units

LEMMA ThresholdIsBounded ==
  ASSUME NEW limit \in Nat
  PROVE  StopThreshold(limit) \in Nat /\ StopThreshold(limit) <= Stop
<1> DEFINE n == (limit * 4) \div 5
<1>1. n \in Nat /\ Stop \in Nat
  BY LaunchAssumption
<1> HIDE DEF n
<1>2. \E x \in {n, Stop} : \A y \in {n, Stop} : x <= y
  BY <1>1
<1>3. Min({n, Stop}) \in {n, Stop} /\ \A y \in {n, Stop} : Min({n, Stop}) <= y
  BY <1>2 DEF Min
<1> QED BY <1>1, <1>3 DEF StopThreshold, n

-----------------------------------------------------------------------------
(* Types.                                                                  *)

\* What the types rest on: requests are as assumed, a command in progress has
\* one, and a session id is started as often as MaxAttempts says.
Requested ==
  /\ req \in Scenarios
  /\ \A r \in Runs : pc[r] # "start" => req[r] # None
  /\ \A r \in Runs : pc[r] = "start" => attempts[r] < MaxAttempts

LEMMA TargetIsDir ==
  ASSUME NEW r \in Runs, req \in Scenarios, req[r] # None
  PROVE  Target(r) \in Dirs /\ Target(r) # None /\ req[r].log \in Nat /\ req[r].limit \in Nat
<1>1. /\ req[r].scratch \in Places \union {None}
      /\ req[r].log \in Nat /\ req[r].limit \in Nat
  BY LaunchAssumption
<1>2. Target(r) \in Dirs
  BY <1>1, Layout DEF Target, Dirs
<1> QED BY <1>1, <1>2, LaunchAssumption

\* TypeOK in four parts.
TreeTypes ==
  /\ dirs \subseteq Dirs
  /\ bytes \in [Dirs -> 0 .. MaxBytes]
  /\ marker \in [Dirs -> Runs \union {"none", "partial"}]
  /\ sort \in [Places -> PlaceKinds]

RunTypes ==
  /\ pc \in [Runs -> Pcs]
  /\ listed \in [Runs -> BOOLEAN]
  /\ scratch \in [Runs -> Dirs \union {None}]
  /\ result \in [Runs -> Results]
  /\ attempts \in [Runs -> 0 .. MaxAttempts]

ScopeTypes ==
  /\ \A r \in Runs :
       IF pc[r] = "running"
       THEN scope[r] \in Scopes(req[r])
       ELSE scope[r] = None
  /\ raced \subseteq Runs /\ moved \subseteq Runs /\ crowded \subseteq Runs

AdmissionTypes == room \in [Runs -> Nat] /\ saved \in [Runs -> Nat]

\* scope has an entry for every run, which TypeOK leaves out.
TypeInv == TypeOK /\ Requested /\ DOMAIN scope = Runs

LEMMA TypeParts ==
  /\ TypeOK <=> TreeTypes /\ RunTypes /\ ScopeTypes /\ AdmissionTypes
  /\ TypeOK' <=> TreeTypes' /\ RunTypes' /\ ScopeTypes' /\ AdmissionTypes'
BY DEF TypeOK, TreeTypes, RunTypes, ScopeTypes, AdmissionTypes

LEMMA InitTypeInv == Init => TypeInv
<1> SUFFICES ASSUME Init PROVE TypeInv
  OBVIOUS
<1> USE DEF Init
<1>1. TreeTypes
  <2>1. dirs \subseteq Dirs
    BY DEF Dirs
  <2>2. bytes \in [Dirs -> 0 .. MaxBytes]
    BY LaunchAssumption
  <2>3. marker \in [Dirs -> Runs \union {"none", "partial"}]
    OBVIOUS
  <2>4. sort \in [Places -> PlaceKinds]
    BY DEF InitialSorts
  <2> QED BY <2>1, <2>2, <2>3, <2>4 DEF TreeTypes
<1>2. RunTypes
  BY LaunchAssumption DEF RunTypes, Pcs, Results
<1>3. ScopeTypes
  BY DEF ScopeTypes
<1>4. Requested
  BY LaunchAssumption DEF Requested
<1>5. AdmissionTypes
  BY DEF AdmissionTypes
<1> QED BY <1>1, <1>2, <1>3, <1>4, <1>5, TypeParts DEF TypeInv

\* A step is a step of some run, or none.
LEMMA StepCases ==
  ASSUME [Next]_vars
  PROVE  \/ UNCHANGED vars
         \/ \E r \in Runs :
              \/ Refuse(r) \/ Begin(r) \/ Look(r) \/ Make(r) \/ List(r) \/ Claim(r)
              \/ Create(r) \/ Fill(r) \/ Policy(r) \/ Preflight(r) \/ Scope(r)
              \/ Log(r) \/ Write(r) \/ Delete(r) \/ Sample(r) \/ End(r)
              \/ Resume(r) \/ Die(r) \/ Repeat(r)
BY DEF Next

\* The manager of r saves n units in its run directory, which is news to others;
\* for r itself something new may begin.
Saves(r, n) ==
  /\ Put(RunDir(r), n)
  /\ \E C \in {crowded, crowded \ {r}} : crowded' = C \union Crowded(r, RunDir(r), n)
  /\ \E M \in {moved, moved \ {r}} : moved' = M \union Moved(r, RunDir(r), n)

LEMMA SaveCases ==
  ASSUME NEW r \in Runs, Policy(r) \/ Preflight(r) \/ Scope(r) \/ End(r)
  PROVE  /\ UNCHANGED <<req, dirs, marker, sort, listed, scratch, attempts, raced>>
         /\ UNCHANGED <<bytes, moved, crowded>> \/ \E n \in Nat : Saves(r, n)
<1>2. MaxSaved \in Nat
  BY LaunchAssumption
<1>3. CASE Policy(r)
  <2>1. PICK least \in {0, 1} :
          \E n \in least .. MaxSaved :
            /\ Save(r, n)
            /\ crowded' = crowded \union Crowded(r, RunDir(r), n)
            /\ moved' = moved \union Moved(r, RunDir(r), n)
    BY <1>3 DEF Policy
  <2>2. least .. MaxSaved \subseteq Nat
    BY <1>2
  <2> QED BY <1>3, <2>1, <2>2, Zenon DEF Policy, Saves, Save
<1>4. CASE Preflight(r)
  <2>1. CASE Admitted(r)
    <3>1. PICK most \in {0, MaxSaved} :
            \E n \in 0 .. most :
              /\ Save(r, n)
              /\ crowded' = (crowded \ {r}) \union Crowded(r, RunDir(r), n)
              /\ moved' = moved \union Moved(r, RunDir(r), n)
      BY <1>4, <2>1 DEF Preflight
    <3>2. 0 .. most \subseteq Nat
      BY <1>2
    <3> QED BY <1>4, <3>1, <3>2, Zenon DEF Preflight, Saves, Save
  <2>2. CASE ~Admitted(r)
    BY <1>4, <2>2 DEF Preflight, admission
  <2> QED BY <2>1, <2>2
<1>5. CASE Scope(r)
  <2>1. PICK n \in 0 .. MaxSaved :
          /\ Save(r, n)
          /\ crowded' = crowded \union Crowded(r, RunDir(r), n)
          /\ moved' = (moved \ {r}) \union Moved(r, RunDir(r), n)
    BY <1>5 DEF Scope
  <2>2. n \in Nat
    BY <1>2, <2>1
  <2> QED BY <1>5, <2>1, <2>2, Zenon DEF Scope, Saves, Save
<1>6. CASE End(r)
  <2>1. PICK n \in 0 .. MaxSaved :
          /\ Save(r, n)
          /\ crowded' = crowded \union Crowded(r, RunDir(r), n)
          /\ moved' = moved \union Moved(r, RunDir(r), n)
    BY <1>6 DEF End
  <2>2. n \in Nat
    BY <1>2, <2>1
  <2> QED BY <1>6, <2>1, <2>2, Zenon DEF End, Saves, Save
<1> QED BY <1>3, <1>4, <1>5, <1>6

LEMMA SaveMoves ==
  ASSUME NEW r \in Runs, Policy(r) \/ Preflight(r) \/ Scope(r) \/ End(r)
  PROVE  \E step \in {"preflight", "refused", "scope", "ended", "running"} :
           pc' = [pc EXCEPT ![r] = step]
<1>1. CASE Policy(r)
  BY <1>1 DEF Policy, Goto
<1>2. CASE Preflight(r)
  BY <1>2 DEF Preflight, Goto
<1>3. CASE Scope(r)
  BY <1>3 DEF Scope, Goto
<1>4. CASE End(r)
  BY <1>4 DEF End, Goto
<1> QED BY <1>1, <1>2, <1>3, <1>4

LEMMA NextTreeTypes ==
  ASSUME TypeInv, [Next]_vars
  PROVE  TreeTypes'
<1>1. TreeTypes /\ RunTypes /\ Requested
  BY TypeParts DEF TypeInv
<1>2. CASE UNCHANGED <<tree, sort>>
  BY <1>1, <1>2 DEF TreeTypes, tree
<1>3. ASSUME NEW r \in Runs, Begin(r) PROVE TreeTypes'
  <2>1. dirs' = dirs \union {RunDir(r)} /\ UNCHANGED <<bytes, marker, sort>>
    BY <1>3 DEF Begin
  <2> QED BY <1>1, <2>1, Layout DEF TreeTypes
<1>4. ASSUME NEW r \in Runs, Make(r) PROVE TreeTypes'
  <2>1. dirs' = dirs \union {Target(r)} /\ UNCHANGED <<bytes, marker, sort>>
    BY <1>4 DEF Make
  <2>2. Target(r) \in Dirs
    BY <1>1, <1>4, TargetIsDir DEF Make, Requested
  <2> QED BY <1>1, <2>1, <2>2 DEF TreeTypes
<1>5. ASSUME NEW r \in Runs, Create(r) \/ Fill(r) PROVE TreeTypes'
  <2>1. \/ marker' = [marker EXCEPT ![Target(r)] = "partial"]
        \/ marker' = [marker EXCEPT ![Target(r)] = r]
    BY <1>5 DEF Create, Fill
  <2>2. UNCHANGED <<dirs, bytes, sort>>
    BY <1>5 DEF Create, Fill
  <2> QED BY <1>1, <2>1, <2>2 DEF TreeTypes
<1>6. ASSUME NEW d, NEW n \in Nat, Put(d, n), UNCHANGED <<dirs, marker, sort>> PROVE TreeTypes'
  <2>1. bytes[d] + n <= MaxBytes /\ bytes' = [bytes EXCEPT ![d] = @ + n]
    BY <1>6 DEF Put
  <2>2. \A m \in 0 .. MaxBytes : m + n <= MaxBytes => m + n \in 0 .. MaxBytes
    BY LaunchAssumption
  <2>3. bytes' \in [Dirs -> 0 .. MaxBytes]
    BY <1>1, <2>1, <2>2 DEF TreeTypes
  <2> QED BY <1>1, <1>6, <2>3 DEF TreeTypes
<1>10. ASSUME NEW r \in Runs, Log(r) \/ Write(r) PROVE TreeTypes'
  <2>1. PICK d \in {RunDir(r), scratch[r]} : Grow(r, d)
    BY <1>10 DEF Log, Write
  <2>2. Put(d, 1) /\ UNCHANGED <<dirs, marker, sort>>
    BY <2>1 DEF Grow
  <2> QED BY <1>6, <2>2
<1>11. ASSUME NEW r \in Runs, Policy(r) \/ Preflight(r) \/ Scope(r) \/ End(r) PROVE TreeTypes'
  <2>1. UNCHANGED <<dirs, marker, sort>>
    BY <1>11, SaveCases
  <2>2. UNCHANGED bytes \/ \E n \in Nat : Put(RunDir(r), n)
    BY <1>11, SaveCases DEF Saves
  <2>3. CASE UNCHANGED bytes
    BY <1>2, <2>1, <2>3 DEF tree
  <2> QED BY <1>6, <2>1, <2>2, <2>3
<1>12. ASSUME NEW r \in Runs, Delete(r) PROVE TreeTypes'
  <2>1. /\ bytes[scratch[r]] > 0 /\ bytes' = [bytes EXCEPT ![scratch[r]] = @ - 1]
        /\ UNCHANGED <<dirs, marker, sort>>
    BY <1>12 DEF Delete
  <2>2. \A m \in 0 .. MaxBytes : m > 0 => m - 1 \in 0 .. MaxBytes
    BY LaunchAssumption
  <2>3. bytes' \in [Dirs -> 0 .. MaxBytes]
    BY <1>1, <2>1, <2>2 DEF TreeTypes
  <2> QED BY <1>1, <2>1, <2>3 DEF TreeTypes
<1>7. ASSUME NEW r \in Runs, Repeat(r) PROVE TreeTypes'
  <2>1. /\ dirs' = {d \in dirs : ~Below(d, RunDir(r))}
        /\ bytes' = [d \in Dirs |-> IF Below(d, RunDir(r)) THEN 0 ELSE bytes[d]]
        /\ marker' = [d \in Dirs |-> IF Below(d, RunDir(r)) THEN "none" ELSE marker[d]]
        /\ sort' = sort
    BY <1>7 DEF Repeat
  <2>2. 0 \in 0 .. MaxBytes
    BY LaunchAssumption
  <2> QED BY <1>1, <2>1, <2>2 DEF TreeTypes
<1>8. ASSUME NEW r \in Runs,
             Refuse(r) \/ Look(r) \/ List(r) \/ Claim(r) \/ Sample(r) \/ Resume(r) \/ Die(r)
      PROVE  UNCHANGED <<tree, sort>>
  BY <1>8 DEF Refuse, Look, List, Claim, Sample, Resume, Die
<1>9. UNCHANGED vars => UNCHANGED <<tree, sort>>
  BY DEF vars
<1> QED BY <1>2, <1>3, <1>4, <1>5, <1>7, <1>8, <1>9, <1>10, <1>11, <1>12, StepCases

LEMMA NextRunTypes ==
  ASSUME TypeInv, [Next]_vars
  PROVE  RunTypes'
<1>1. TreeTypes /\ RunTypes /\ Requested
  BY TypeParts DEF TypeInv
<1> USE <1>1 DEF RunTypes, Pcs, Resolving, Results, Goto
<1>2. ASSUME NEW r \in Runs, Refuse(r) PROVE RunTypes'
  BY <1>2 DEF Refuse
<1>3. ASSUME NEW r \in Runs, Begin(r) PROVE RunTypes'
  <2>1. attempts[r] < MaxAttempts
    BY <1>3 DEF Begin, Requested
  <2>2. attempts' \in [Runs -> 0 .. MaxAttempts]
    BY <1>3, <2>1, LaunchAssumption DEF Begin
  <2>3. pc' \in [Runs -> Pcs]
    BY <1>3 DEF Begin
  <2>4. UNCHANGED <<listed, scratch, result>>
    BY <1>3 DEF Begin
  <2> QED BY <2>2, <2>3, <2>4
<1>4. ASSUME NEW r \in Runs, Look(r) PROVE RunTypes'
  <2>1. pc' \in [Runs -> Pcs]
    BY <1>4 DEF Look
  <2>2. UNCHANGED <<listed, scratch, result, attempts>>
    BY <1>4 DEF Look
  <2> QED BY <2>1, <2>2
<1>5. ASSUME NEW r \in Runs, Make(r) PROVE RunTypes'
  <2>1. pc' \in [Runs -> Pcs]
    BY <1>5 DEF Make
  <2>2. UNCHANGED <<listed, scratch, result, attempts>>
    BY <1>5 DEF Make
  <2> QED BY <2>1, <2>2
<1>6. ASSUME NEW r \in Runs, List(r) PROVE RunTypes'
  <2>1. pc' \in [Runs -> Pcs] /\ UNCHANGED <<scratch, result, attempts>>
    BY <1>6 DEF List
  <2>2. listed' \in [Runs -> BOOLEAN]
    BY <1>6 DEF List
  <2> QED BY <2>1, <2>2
<1>7. ASSUME NEW r \in Runs, Claim(r) PROVE RunTypes'
  <2>1. Target(r) \in Dirs
    BY <1>7, TargetIsDir DEF Claim, Requested
  <2>2. pc' \in [Runs -> Pcs] /\ UNCHANGED <<listed, result, attempts>>
    BY <1>7 DEF Claim
  <2>3. scratch' \in [Runs -> Dirs \union {None}]
    BY <1>7, <2>1 DEF Claim
  <2> QED BY <2>2, <2>3
<1>8. ASSUME NEW r \in Runs, Create(r) PROVE RunTypes'
  BY <1>8 DEF Create
<1>9. ASSUME NEW r \in Runs, Fill(r) PROVE RunTypes'
  <2>1. Target(r) \in Dirs
    BY <1>9, TargetIsDir DEF Fill, Requested
  <2>2. pc' \in [Runs -> Pcs] /\ UNCHANGED <<listed, result, attempts>>
    BY <1>9 DEF Fill
  <2>3. scratch' \in [Runs -> Dirs \union {None}]
    BY <1>9, <2>1 DEF Fill
  <2> QED BY <2>2, <2>3
<1>10. ASSUME NEW r \in Runs, Policy(r) PROVE RunTypes'
  BY <1>10 DEF Policy
<1>11. ASSUME NEW r \in Runs, Preflight(r) PROVE RunTypes'
  BY <1>11 DEF Preflight
<1>12. ASSUME NEW r \in Runs, Scope(r) PROVE RunTypes'
  <2>1. UNCHANGED <<listed, scratch, attempts>>
    BY <1>12 DEF Scope
  <2>2. result' \in [Runs -> Results]
    BY <1>12 DEF Scope
  <2>3. pc' \in [Runs -> Pcs]
    BY <1>12 DEF Scope
  <2> QED BY <2>1, <2>2, <2>3
<1>13. ASSUME NEW r \in Runs, Log(r) \/ Write(r) \/ Delete(r) \/ Sample(r) PROVE RunTypes'
  <2>1. UNCHANGED <<pc, listed, scratch, result, attempts>>
    BY <1>13 DEF Log, Write, Grow, Delete, Sample
  <2> QED BY <2>1
<1>14. ASSUME NEW r \in Runs, End(r) PROVE RunTypes'
  <2>1. UNCHANGED <<listed, scratch, attempts>> /\ pc' \in [Runs -> Pcs]
    BY <1>14 DEF End
  <2>2. result' \in [Runs -> Results]
    BY <1>14 DEF End, Verdict
  <2> QED BY <2>1, <2>2
<1>15. ASSUME NEW r \in Runs, Resume(r) PROVE RunTypes'
  <2>1. UNCHANGED <<listed, scratch, result>> /\ pc' \in [Runs -> Pcs]
    BY <1>15 DEF Resume
  <2>2. attempts' \in [Runs -> 0 .. MaxAttempts]
    BY <1>15, LaunchAssumption DEF Resume
  <2> QED BY <2>1, <2>2
<1>16. ASSUME NEW r \in Runs, Die(r) PROVE RunTypes'
  BY <1>16 DEF Die
<1>17. ASSUME NEW r \in Runs, Repeat(r) PROVE RunTypes'
  <2>1. UNCHANGED <<listed, attempts>> /\ pc' \in [Runs -> Pcs]
    BY <1>17 DEF Repeat
  <2>2. scratch' \in [Runs -> Dirs \union {None}] /\ result' \in [Runs -> Results]
    BY <1>17 DEF Repeat
  <2> QED BY <2>1, <2>2
<1>18. ASSUME UNCHANGED vars PROVE RunTypes'
  BY <1>18 DEF vars
<1> QED BY <1>2, <1>3, <1>4, <1>5, <1>6, <1>7, <1>8, <1>9, <1>10, <1>11, <1>12, <1>13, <1>14,
           <1>15, <1>16, <1>17, <1>18, StepCases

\* How a step moves the run that takes it: requests stay, and only a repetition
\* goes back to the start.
LEMMA StepMoves ==
  ASSUME TypeInv, [Next]_vars
  PROVE  /\ UNCHANGED <<req, sort>>
         /\ \/ UNCHANGED <<pc, attempts>>
            \/ \E r \in Runs, step \in Pcs :
                 /\ pc' = [pc EXCEPT ![r] = step] /\ req[r] # None
                 /\ \/ step # "start"
                    \/ attempts' = attempts /\ attempts[r] < MaxAttempts
                 /\ \A s \in Runs \ {r} : attempts'[s] = attempts[s]
<1> DEFINE Moves(r) ==
      \E step \in Pcs :
        /\ pc' = [pc EXCEPT ![r] = step] /\ req[r] # None
        /\ \/ step # "start"
           \/ attempts' = attempts /\ attempts[r] < MaxAttempts
        /\ \A s \in Runs \ {r} : attempts'[s] = attempts[s]
<1>1. RunTypes /\ Requested
  BY TypeParts DEF TypeInv
<1> USE <1>1 DEF RunTypes, Requested, Goto, Pcs, Resolving
<1>2. ASSUME NEW r \in Runs, Refuse(r) PROVE Moves(r) /\ UNCHANGED <<req, sort>>
  BY <1>2 DEF Refuse
<1>3. ASSUME NEW r \in Runs, Begin(r) PROVE Moves(r) /\ UNCHANGED <<req, sort>>
  <2>1. \A s \in Runs \ {r} : attempts'[s] = attempts[s]
    BY <1>3 DEF Begin
  <2>2. req[r] # None /\ UNCHANGED <<req, sort>>
    BY <1>3 DEF Begin
  <2>3. \E step \in {"look", "policy"} : pc' = [pc EXCEPT ![r] = step]
    BY <1>3 DEF Begin
  <2> QED BY <2>1, <2>2, <2>3
<1>4. ASSUME NEW r \in Runs, Look(r) PROVE Moves(r) /\ UNCHANGED <<req, sort>>
  <2>1. \E step \in {"refused", "list", "make"} : pc' = [pc EXCEPT ![r] = step]
    BY <1>4 DEF Look
  <2>2. req[r] # None /\ UNCHANGED <<req, sort, attempts>>
    BY <1>4 DEF Look
  <2> QED BY <2>1, <2>2
<1>5. ASSUME NEW r \in Runs, Make(r) PROVE Moves(r) /\ UNCHANGED <<req, sort>>
  BY <1>5 DEF Make
<1>6. ASSUME NEW r \in Runs, List(r) PROVE Moves(r) /\ UNCHANGED <<req, sort>>
  BY <1>6 DEF List
<1>7. ASSUME NEW r \in Runs, Claim(r) PROVE Moves(r) /\ UNCHANGED <<req, sort>>
  <2>1. \E step \in {"refused", "create", "policy"} : pc' = [pc EXCEPT ![r] = step]
    BY <1>7 DEF Claim
  <2>2. req[r] # None /\ UNCHANGED <<req, sort, attempts>>
    BY <1>7 DEF Claim
  <2> QED BY <2>1, <2>2
<1>8. ASSUME NEW r \in Runs, Create(r) PROVE Moves(r) /\ UNCHANGED <<req, sort>>
  BY <1>8 DEF Create
<1>9. ASSUME NEW r \in Runs, Fill(r) PROVE Moves(r) /\ UNCHANGED <<req, sort>>
  BY <1>9 DEF Fill
<1>10. ASSUME NEW r \in Runs, Policy(r) PROVE Moves(r) /\ UNCHANGED <<req, sort>>
  BY <1>10 DEF Policy
<1>11. ASSUME NEW r \in Runs, Preflight(r) PROVE Moves(r) /\ UNCHANGED <<req, sort>>
  BY <1>11 DEF Preflight
<1>12. ASSUME NEW r \in Runs, Scope(r) PROVE Moves(r) /\ UNCHANGED <<req, sort>>
  <2>1. \E step \in {"ended", "running"} : pc' = [pc EXCEPT ![r] = step]
    BY <1>12 DEF Scope
  <2>2. req[r] # None /\ UNCHANGED <<req, sort, attempts>>
    BY <1>12 DEF Scope
  <2> QED BY <2>1, <2>2
<1>13. ASSUME NEW r \in Runs, Log(r) \/ Write(r) \/ Delete(r) \/ Sample(r)
       PROVE  UNCHANGED <<req, sort, pc, attempts>>
  BY <1>13 DEF Log, Write, Grow, Delete, Sample
<1>14. ASSUME NEW r \in Runs, End(r) PROVE Moves(r) /\ UNCHANGED <<req, sort>>
  BY <1>14 DEF End
<1>15. ASSUME NEW r \in Runs, Resume(r) PROVE Moves(r) /\ UNCHANGED <<req, sort>>
  BY <1>15 DEF Resume
<1>16. ASSUME NEW r \in Runs, Die(r) PROVE Moves(r) /\ UNCHANGED <<req, sort>>
  BY <1>16 DEF Die
<1>17. ASSUME NEW r \in Runs, Repeat(r) PROVE Moves(r) /\ UNCHANGED <<req, sort>>
  <2>1. pc' = [pc EXCEPT ![r] = "start"] /\ req[r] # None /\ attempts' = attempts /\ attempts[r] < MaxAttempts
    BY <1>17 DEF Repeat
  <2>2. UNCHANGED <<req, sort>>
    BY <1>17 DEF Repeat
  <2> QED BY <2>1, <2>2
<1>18. ASSUME UNCHANGED vars PROVE UNCHANGED <<req, sort, pc, attempts>>
  BY <1>18 DEF vars
<1> HIDE DEF Moves
<1>19. /\ UNCHANGED <<req, sort>>
       /\ UNCHANGED <<pc, attempts>> \/ \E r \in Runs : Moves(r)
  BY <1>2, <1>3, <1>4, <1>5, <1>6, <1>7, <1>8, <1>9, <1>10, <1>11, <1>12, <1>13, <1>14,
     <1>15, <1>16, <1>17, <1>18, StepCases
<1> QED BY <1>19 DEF Moves

LEMMA NextRequested ==
  ASSUME TypeInv, [Next]_vars
  PROVE  Requested'
<1>1. RunTypes /\ Requested
  BY TypeParts DEF TypeInv
<1> USE <1>1, StepMoves DEF RunTypes, Requested
<1>2. req' \in Scenarios
  OBVIOUS
<1>3. CASE UNCHANGED <<pc, attempts>>
  BY <1>2, <1>3
<1>4. ASSUME NEW r \in Runs, NEW step \in Pcs,
             pc' = [pc EXCEPT ![r] = step], req[r] # None,
             step # "start" \/ (attempts' = attempts /\ attempts[r] < MaxAttempts),
             \A s \in Runs \ {r} : attempts'[s] = attempts[s]
      PROVE  Requested'
  <2>1. ASSUME NEW s \in Runs PROVE pc'[s] # "start" => req'[s] # None
    BY <1>4
  <2>2. ASSUME NEW s \in Runs PROVE pc'[s] = "start" => attempts'[s] < MaxAttempts
    BY <1>4
  <2> QED BY <1>2, <2>1, <2>2
<1> QED BY <1>3, <1>4

LEMMA NextScopeTypes ==
  ASSUME TypeInv, [Next]_vars
  PROVE  ScopeTypes' /\ DOMAIN scope' = Runs
<1>1. TreeTypes /\ RunTypes /\ Requested /\ ScopeTypes /\ DOMAIN scope = Runs
  BY TypeParts DEF TypeInv
<1> DEFINE Typed(r) == IF pc[r] = "running" THEN scope[r] \in Scopes(req[r]) ELSE scope[r] = None
           Sets == raced \subseteq Runs /\ moved \subseteq Runs /\ crowded \subseteq Runs
           Good == (\A r \in Runs : Typed(r)) /\ Sets /\ DOMAIN scope = Runs
<1>2. Good
  BY <1>1 DEF ScopeTypes
<1>3. UNCHANGED req
  BY StepMoves
<1>12. \A r \in Runs : Scopes(req[r])' = Scopes(req[r])
  BY <1>3 DEF Scopes
<1> HIDE DEF Typed
<1>13. \A r \in Runs :
         Typed(r)' <=> IF pc'[r] = "running" THEN scope'[r] \in Scopes(req[r]) ELSE scope'[r] = None
  BY <1>12 DEF Typed
<1>14. \A r \in Runs :
         Typed(r) <=> IF pc[r] = "running" THEN scope[r] \in Scopes(req[r]) ELSE scope[r] = None
  BY DEF Typed
\* A step of a run that is not running, and does not run after it.
<1>4. ASSUME NEW r \in Runs, NEW step \in Pcs \ {"running"}, pc[r] # "running",
             pc' = [pc EXCEPT ![r] = step], scope' = scope, Sets'
      PROVE  Good'
  <2>1. ASSUME NEW s \in Runs PROVE Typed(s)'
    BY <1>1, <1>2, <1>4, <1>13, <1>14 DEF RunTypes
  <2> QED BY <1>2, <1>4, <2>1
<1> USE DEF Goto
<1>5. ASSUME NEW r \in Runs, Begin(r) PROVE Good'
  <2>1. Rivals(r) \subseteq Runs
    BY DEF Rivals
  <2>2. Sets'
    BY <1>2, <1>5, <2>1 DEF Begin, admission
  <2>3. \E step \in Pcs \ {"running"} : pc' = [pc EXCEPT ![r] = step]
    BY <1>5 DEF Begin, Pcs, Resolving
  <2>4. pc[r] # "running" /\ scope' = scope
    BY <1>5 DEF Begin
  <2> QED BY <1>4, <2>2, <2>3, <2>4
\* What a manager saves is told to runs.
<1>15. ASSUME NEW r \in Runs, Policy(r) \/ Preflight(r) \/ Scope(r) \/ End(r) PROVE Sets'
  <2>1. raced' = raced
    BY <1>15, SaveCases
  <2>2. CASE UNCHANGED <<bytes, moved, crowded>>
    BY <1>2, <2>1, <2>2
  <2>3. ASSUME NEW n \in Nat, Saves(r, n) PROVE Sets'
    <3>1. Crowded(r, RunDir(r), n) \subseteq Runs /\ Moved(r, RunDir(r), n) \subseteq Runs
      BY DEF Crowded, Moved
    <3> QED BY <1>2, <2>1, <2>3, <3>1 DEF Saves
  <2> QED BY <1>15, <2>2, <2>3, SaveCases
<1>6. ASSUME NEW r \in Runs,
             \/ Refuse(r) \/ Look(r) \/ Make(r) \/ List(r) \/ Claim(r) \/ Create(r) \/ Fill(r)
             \/ Policy(r) \/ Preflight(r) \/ Resume(r) \/ Die(r) \/ Repeat(r)
      PROVE  Good'
  <2>1. Sets'
    <3>1. CASE Policy(r) \/ Preflight(r)
      BY <1>15, <3>1
    <3>2. CASE Repeat(r)
      BY <1>2, <3>2 DEF Repeat, admission
    <3>3. CASE \/ Refuse(r) \/ Look(r) \/ Make(r) \/ List(r) \/ Claim(r) \/ Create(r) \/ Fill(r)
               \/ Resume(r) \/ Die(r)
      BY <1>2, <3>3 DEF Refuse, Look, Make, List, Claim, Create, Fill, Resume, Die, history, admission
    <3> QED BY <1>6, <3>1, <3>2, <3>3
  <2>2. scope' = scope /\ pc[r] # "running"
    BY <1>6 DEF Refuse, Look, Make, List, Claim, Create, Fill, Policy, Preflight, Resume, Die,
                Repeat, Resolving
  <2>3. \E step \in Pcs \ {"running"} : pc' = [pc EXCEPT ![r] = step]
    <3>1. CASE Refuse(r) \/ Make(r) \/ List(r) \/ Create(r) \/ Fill(r)
      BY <3>1 DEF Refuse, Make, List, Create, Fill, Pcs, Resolving
    <3>2. CASE Look(r)
      <4>1. \E step \in {"refused", "list", "make"} : pc' = [pc EXCEPT ![r] = step]
        BY <3>2 DEF Look
      <4> QED BY <4>1 DEF Pcs, Resolving
    <3>3. CASE Claim(r)
      BY <3>3 DEF Claim, Pcs, Resolving
    <3>4. CASE Policy(r) \/ Preflight(r) \/ Resume(r) \/ Die(r) \/ Repeat(r)
      BY <3>4 DEF Policy, Preflight, Resume, Die, Repeat, Pcs, Resolving
    <3> QED BY <1>6, <3>1, <3>2, <3>3, <3>4
  <2> QED BY <1>4, <2>1, <2>2, <2>3
<1>7. ASSUME NEW r \in Runs, Scope(r) PROVE Good'
  <2> DEFINE left == StopThreshold(req[r].limit) - FixedBytes(r)
  <2>1. Sets'
    BY <1>7, <1>15
  <2>2. CASE left <= 0
    <3>1. pc' = [pc EXCEPT ![r] = "ended"] /\ scope' = scope /\ pc[r] # "running"
      BY <1>7, <2>2 DEF Scope
    <3> QED BY <1>4, <2>1, <3>1 DEF Pcs
  <2>3. CASE ~ left <= 0
    <3> DEFINE new == [threshold |-> left, logs |-> 0, wrote |-> FALSE, exceeded |-> FALSE, removed |-> 0]
    <3>1. pc' = [pc EXCEPT ![r] = "running"] /\ scope' = [scope EXCEPT ![r] = new]
      BY <1>7, <2>3 DEF Scope
    <3>2. req[r].limit \in Nat /\ req[r].log \in Nat
      BY <1>1, <1>7, TargetIsDir DEF Scope, Requested
    <3>3. StopThreshold(req[r].limit) \in Nat /\ StopThreshold(req[r].limit) <= Stop
      BY <3>2, ThresholdIsBounded
    <3>4. FixedBytes(r) \in Nat
      BY SizeIsNatural DEF FixedBytes
    <3>5. Stop \in Nat /\ MaxRemoved \in Nat
      BY LaunchAssumption
    <3>6. left \in 1 .. Stop
      BY <2>3, <3>3, <3>4, <3>5
    <3> HIDE DEF left
    <3>7. new \in Scopes(req[r])
      BY <3>2, <3>5, <3>6 DEF Scopes
    <3> HIDE DEF new
    <3>8. ASSUME NEW s \in Runs PROVE Typed(s)'
      BY <1>1, <1>2, <1>13, <1>14, <3>1, <3>7 DEF RunTypes
    <3> QED BY <1>2, <2>1, <3>1, <3>8
  <2> QED BY <2>2, <2>3
<1>8. ASSUME NEW r \in Runs, Log(r) \/ Write(r) PROVE Good'
  <2>1. PICK d \in {RunDir(r), scratch[r]} : Grow(r, d)
    BY <1>8 DEF Log, Write
  <2>2. Crowded(r, d, 1) \subseteq Runs /\ Moved(r, d, 1) \subseteq Runs
    BY DEF Crowded, Moved
  <2>3. Sets'
    BY <1>2, <2>1, <2>2 DEF Grow
  <2>4. pc' = pc /\ pc[r] = "running"
    BY <1>8, <2>1 DEF Log, Write, Grow
  <2>5. \/ scope' = [scope EXCEPT ![r].logs = @ + 1] /\ scope[r].logs < req[r].log
        \/ scope' = [scope EXCEPT ![r].wrote = TRUE]
    BY <1>8 DEF Log, Write
  <2>6. req[r].log \in Nat
    BY <1>1, <2>4, TargetIsDir DEF Requested
  <2>7. scope[r] \in Scopes(req[r])
    BY <1>2, <1>14, <2>4
  <2>8. scope'[r] \in Scopes(req[r])
    <3>1. DOMAIN scope = Runs
      BY <1>2
    <3>2. scope[r].logs \in 0 .. req[r].log
      BY <2>7 DEF Scopes
    <3>3. CASE scope' = [scope EXCEPT ![r].logs = @ + 1] /\ scope[r].logs < req[r].log
      <4>1. scope'[r] = [scope[r] EXCEPT !.logs = @ + 1]
        BY <3>1, <3>3
      <4>2. scope[r].logs + 1 \in 0 .. req[r].log
        BY <2>6, <3>2, <3>3
      <4> QED BY <2>7, <4>1, <4>2 DEF Scopes
    <3>4. CASE scope' = [scope EXCEPT ![r].wrote = TRUE]
      <4>1. scope'[r] = [scope[r] EXCEPT !.wrote = TRUE]
        BY <3>1, <3>4
      <4> QED BY <2>7, <4>1 DEF Scopes
    <3> QED BY <2>5, <3>3, <3>4
  <2>9. DOMAIN scope' = Runs /\ \A s \in Runs \ {r} : scope'[s] = scope[s]
    BY <1>2, <2>5
  <2>10. ASSUME NEW s \in Runs PROVE Typed(s)'
    BY <1>2, <1>13, <1>14, <2>4, <2>8, <2>9
  <2> QED BY <1>2, <2>3, <2>9, <2>10
<1>16. ASSUME NEW r \in Runs, Delete(r) PROVE Good'
  <2> DEFINE watching == Watching(scratch[r])
  <2>1. /\ pc' = pc /\ Sets'
        /\ \A s \in watching : scope[s].removed < MaxRemoved
        /\ scope' = [s \in Runs |-> IF s \in watching THEN [scope[s] EXCEPT !.removed = @ + 1]
                                    ELSE scope[s]]
    <3>1. Moved(r, scratch[r], 1) \subseteq Runs
      BY DEF Crowded, Moved
    <3> QED BY <1>2, <1>16, <3>1 DEF Delete, admission
  <2>2. \A s \in watching : pc[s] = "running"
    BY DEF Watching
  <2> HIDE DEF watching
  <2>3. ASSUME NEW s \in Runs PROVE Typed(s)'
    <3>1. CASE s \in watching
      <4>1. scope[s] \in Scopes(req[s]) /\ scope[s].removed < MaxRemoved
        BY <1>2, <1>14, <2>1, <2>2, <3>1
      <4>2. scope'[s] = [scope[s] EXCEPT !.removed = @ + 1]
        BY <2>1, <3>1
      <4>3. scope[s].removed + 1 \in 0 .. MaxRemoved
        BY <4>1, LaunchAssumption DEF Scopes
      <4>4. scope'[s] \in Scopes(req[s])
        BY <4>1, <4>2, <4>3 DEF Scopes
      <4> QED BY <1>13, <2>1, <2>2, <3>1, <4>4
    <3>2. CASE s \notin watching
      BY <1>2, <1>13, <1>14, <2>1, <3>2
    <3> QED BY <3>1, <3>2
  <2> QED BY <2>1, <2>3
<1>17. ASSUME NEW r \in Runs, Sample(r) PROVE Good'
  <2>1. /\ pc[r] = "running" /\ UNCHANGED pc /\ Sets'
        /\ scope' = [scope EXCEPT ![r].exceeded = TRUE]
    BY <1>2, <1>17 DEF Sample, history, admission
  <2>2. scope[r] \in Scopes(req[r])
    BY <1>2, <1>14, <2>1
  <2>3. scope'[r] = [scope[r] EXCEPT !.exceeded = TRUE] /\ DOMAIN scope' = Runs
    BY <1>2, <2>1
  <2>4. scope'[r] \in Scopes(req[r])
    BY <2>2, <2>3 DEF Scopes
  <2>5. ASSUME NEW s \in Runs PROVE Typed(s)'
    BY <1>2, <1>13, <1>14, <2>1, <2>4
  <2> QED BY <2>1, <2>3, <2>5
<1>9. ASSUME NEW r \in Runs, End(r) PROVE Good'
  <2>1. pc' = [pc EXCEPT ![r] = "ended"] /\ scope' = [scope EXCEPT ![r] = None]
    BY <1>9 DEF End
  <2>2. ASSUME NEW s \in Runs PROVE Typed(s)'
    BY <1>1, <1>2, <1>13, <1>14, <2>1 DEF RunTypes
  <2> QED BY <1>2, <1>9, <1>15, <2>1, <2>2
<1>10. ASSUME UNCHANGED vars PROVE Good'
  <2>1. UNCHANGED <<pc, scope, raced, moved, crowded>>
    BY <1>10 DEF vars, history, admission
  <2> QED BY <1>2, <1>13, <1>14, <2>1
<1>11. Good'
  BY <1>5, <1>6, <1>7, <1>8, <1>9, <1>10, <1>16, <1>17, StepCases
<1> QED BY <1>11 DEF ScopeTypes, Typed

LEMMA AllIsNatural ==
  ASSUME TypeInv, NEW r \in Runs
  PROVE  AggregateSize(BudgetRoots(r)) \in Nat
<1> DEFINE S == UNION {{root} \X Units(root, {}) : root \in DedupeRoots(BudgetRoots(r))}
<1>1. BudgetRoots(r) \subseteq Dirs
  BY Layout, TypeParts DEF TypeInv, RunTypes, BudgetRoots, ScratchOf
<1>2. IsFiniteSet(Dirs \X (Dirs \X (1 .. MaxBytes)))
  BY DirsAreFinite, UnitsAreFinite, FS_Product
<1>3. S \subseteq Dirs \X (Dirs \X (1 .. MaxBytes))
  BY <1>1 DEF Units, DedupeRoots
<1>4. IsFiniteSet(S)
  BY <1>2, <1>3, FS_Subset
<1> QED BY <1>4, FS_CardinalityType DEF AggregateSize

LEMMA NextAdmissionTypes ==
  ASSUME TypeInv, [Next]_vars
  PROVE  AdmissionTypes'
<1>1. AdmissionTypes /\ Requested
  BY TypeParts DEF TypeInv
<1> USE <1>1 DEF AdmissionTypes
<1>2. ASSUME NEW r \in Runs, Preflight(r) PROVE AdmissionTypes'
  <2>1. CASE Admitted(r)
    <3>1. req[r].log \in Nat /\ req[r].limit \in Nat
      BY <1>2, TargetIsDir DEF Preflight, Requested
    <3>2. StopThreshold(req[r].limit) \in Nat
      BY <3>1, ThresholdIsBounded
    <3>3. AggregateSize(BudgetRoots(r)) \in Nat
      BY <1>2, AllIsNatural
    <3>4. Room(r) \in Nat
      BY <2>1, <3>1, <3>2, <3>3 DEF Admitted, Room
    <3>5. PICK most \in {0, MaxSaved} : \E n \in 0 .. most : saved' = [saved EXCEPT ![r] = n]
      BY <1>2, <2>1 DEF Preflight
    <3>6. 0 .. most \subseteq Nat
      BY LaunchAssumption
    <3>7. room' = [room EXCEPT ![r] = Room(r)]
      BY <1>2, <2>1 DEF Preflight
    <3> QED BY <3>4, <3>5, <3>6, <3>7
  <2>2. CASE ~Admitted(r)
    BY <1>2, <2>2 DEF Preflight, admission
  <2> QED BY <2>1, <2>2
<1>3. ASSUME NEW r \in Runs, Scope(r) PROVE AdmissionTypes'
  <2>1. PICK n \in 0 .. MaxSaved : saved' = [saved EXCEPT ![r] = @ + n] /\ room' = room
    BY <1>3 DEF Scope
  <2>2. n \in Nat
    BY <2>1, LaunchAssumption
  <2> QED BY <2>1, <2>2
<1>4. ASSUME NEW r \in Runs, End(r) PROVE AdmissionTypes'
  BY <1>4 DEF End
<1>5. ASSUME NEW r \in Runs,
             \/ Refuse(r) \/ Begin(r) \/ Look(r) \/ Make(r) \/ List(r) \/ Claim(r) \/ Create(r)
             \/ Fill(r) \/ Policy(r) \/ Log(r) \/ Write(r) \/ Delete(r) \/ Sample(r)
             \/ Resume(r) \/ Die(r) \/ Repeat(r)
      PROVE  UNCHANGED <<room, saved>>
  <2>1. CASE \/ Refuse(r) \/ Begin(r) \/ Look(r) \/ Make(r) \/ List(r) \/ Claim(r) \/ Create(r)
             \/ Fill(r) \/ Resume(r) \/ Die(r) \/ Repeat(r)
    BY <2>1 DEF Refuse, Begin, Look, Make, List, Claim, Create, Fill, Resume, Die, Repeat,
                history, admission
  <2>2. CASE Policy(r) \/ Log(r) \/ Write(r) \/ Delete(r) \/ Sample(r)
    BY <2>2 DEF Policy, Log, Write, Grow, Delete, Sample, history, admission
  <2> QED BY <1>5, <2>1, <2>2
<1>6. UNCHANGED vars => UNCHANGED <<room, saved>>
  BY DEF vars, history, admission
<1> QED BY <1>2, <1>3, <1>4, <1>5, <1>6, StepCases

LEMMA NextTypeInv ==
  ASSUME TypeInv, [Next]_vars
  PROVE  TypeInv'
BY NextTreeTypes, NextRunTypes, NextScopeTypes, NextAdmissionTypes, NextRequested, TypeParts
   DEF TypeInv

\* A launch works on directories that exist in the model, with whole records.
THEOREM LaunchTypeCorrect == Spec => []TypeOK
<1>1. TypeInv /\ [Next]_vars => TypeInv'
  BY NextTypeInv
<1> QED BY <1>1, InitTypeInv, PTL DEF Spec, TypeInv

-----------------------------------------------------------------------------
(* The tools of an accepted review.                                        *)

LEMMA ManifestIsChecked ==
  ASSUME NEW q, q.profile # None, Canonical(q.profile) \in StrictManifestProfiles,
         ~ManifestFails(q)
  PROVE  LET requested == IF q.tools = {} THEN DefinitionOf(q).tools ELSE q.tools
         IN q.shows # None /\ q.shows \ Resolved(q).denied \subseteq requested \union q.allowed
<1> DEFINE requested == IF q.tools = {} THEN DefinitionOf(q).tools ELSE q.tools
           rules == {CommandRule(c) : c \in q.commands}
<1>1. /\ q.shows # None
      /\ q.shows \subseteq Resolved(q).expected \union Resolved(q).denied
  BY DEF ManifestFails, ClassifyManifest
<1>2. Resolved(q).expected = ExpectedTools(requested, q.allowed \union rules)
  BY DEF Resolved
<1>3. rules \subseteq Rules
  BY DEF CommandRule, Rules
<1>4. Resolved(q).expected \subseteq requested \union q.allowed
  BY <1>2, <1>3 DEF ExpectedTools
<1> QED BY <1>1, <1>4

\* Only the end of an attempt accepts, and only what the manifest allows.
AcceptedInv == \A r \in Runs : result[r] = "accepted" => ~ManifestFails(req[r])

LEMMA NextAcceptedInv ==
  ASSUME TypeInv, AcceptedInv, [Next]_vars
  PROVE  AcceptedInv'
<1>1. RunTypes
  BY TypeParts DEF TypeInv
<1>2. req' = req
  BY StepMoves
<1>3. \A r \in Runs : ManifestFails(req'[r]) = ManifestFails(req[r])
  BY <1>2
<1>4. CASE UNCHANGED result
  BY <1>3, <1>4 DEF AcceptedInv
<1>5. ASSUME NEW r \in Runs, NEW verdict, result' = [result EXCEPT ![r] = verdict],
             verdict = "accepted" => ~ManifestFails(req[r])
      PROVE  AcceptedInv'
  <2> SUFFICES ASSUME NEW s \in Runs, result'[s] = "accepted"
               PROVE  ~ManifestFails(req[s])
    BY <1>3 DEF AcceptedInv
  <2>1. CASE s = r
    BY <1>1, <1>5, <2>1 DEF RunTypes
  <2>2. CASE s # r
    BY <1>1, <1>5, <2>2 DEF RunTypes, AcceptedInv
  <2> QED BY <2>1, <2>2
<1>6. ASSUME NEW r \in Runs, Scope(r) PROVE AcceptedInv'
  <2>1. UNCHANGED result \/ result' = [result EXCEPT ![r] = "failed"]
    BY <1>6 DEF Scope
  <2> QED BY <1>4, <1>5, <2>1
<1>7. ASSUME NEW r \in Runs, End(r) PROVE AcceptedInv'
  <2>1. PICK well \in BOOLEAN : result' = [result EXCEPT ![r] = Verdict(r, well)]
    BY <1>7 DEF End
  <2>2. Verdict(r, well) = "accepted" => ~ManifestFails(req[r])
    BY DEF Verdict
  <2> QED BY <1>5, <2>1, <2>2
<1>8. ASSUME NEW r \in Runs, Repeat(r) PROVE AcceptedInv'
  BY <1>5, <1>8 DEF Repeat
<1>9. ASSUME NEW r \in Runs,
             \/ Refuse(r) \/ Begin(r) \/ Look(r) \/ Make(r) \/ List(r) \/ Claim(r) \/ Create(r)
             \/ Fill(r) \/ Policy(r) \/ Preflight(r) \/ Log(r) \/ Write(r) \/ Delete(r) \/ Sample(r)
             \/ Resume(r) \/ Die(r)
      PROVE  UNCHANGED result
  BY <1>9 DEF Refuse, Begin, Look, Make, List, Claim, Create, Fill, Policy, Preflight, Log, Write,
              Grow, Delete, Sample, Resume, Die
<1> QED BY <1>4, <1>6, <1>7, <1>8, <1>9, StepCases DEF vars

\* An accepted review showed its tools and had none to call beyond those asked
\* for (classify_manifest; expected_startup_tools).
THEOREM AcceptedUsesRequestedTools == Spec => []AcceptedIsRequested
<1>1. Init => AcceptedInv
  BY DEF Init, AcceptedInv
<1>2. TypeInv /\ [Next]_vars => TypeInv'
  BY NextTypeInv
<1>3. TypeInv /\ AcceptedInv /\ [Next]_vars => AcceptedInv'
  BY NextAcceptedInv
<1>4. AcceptedInv => AcceptedIsRequested
  BY ManifestIsChecked DEF AcceptedInv, AcceptedIsRequested
<1> QED BY <1>1, <1>2, <1>3, <1>4, InitTypeInv, PTL DEF Spec

-----------------------------------------------------------------------------
(* Who owns a scratch root.                                                *)

\* A run asks for a directory that is not for it: its own run directory is in
\* it, or it holds files from before.
Occupied(r) ==
  \/ Target(r) # RunDir(r) /\ Below(RunDir(r), Target(r))
  \/ Target(r) \in Places /\ sort[Target(r)] = "filled"

\* Such a directory is never taken, whatever becomes of its listing.
Kept(r) ==
  req[r] # None /\ Occupied(r) =>
    /\ pc[r] \notin {"create", "fill"}
    /\ pc[r] = "claim" => listed[r]
    /\ marker[Target(r)] # r
    /\ scratch[r] = None

\* What a run has or is about to have: the directory it asked for, marked, fit,
\* and its run directory.
Owned(r) ==
  /\ scratch[r] # None =>
       /\ req[r] # None /\ scratch[r] = Target(r)
       /\ marker[Target(r)] # "none"
  /\ (scratch[r] # None \/ pc[r] \in Resolving \ {"look"}) /\ Target(r) \in Places =>
       sort[Target(r)] \notin {"file", "public"}
  /\ pc[r] \in Resolving => RunDir(r) \in dirs

\* Two runs that ask for one directory without having met: where one is, the
\* other is not, nor does a marker say so, nor is one being written.
Apart(r, s) ==
  r # s /\ req[r] # None /\ req[s] # None /\ Target(r) = Target(s) /\ ~({r, s} \subseteq raced) =>
    /\ ~(pc[r] \in Resolving /\ pc[s] \in Resolving)
    /\ scratch[r] # None =>
         /\ pc[s] \notin {"create", "fill"}
         /\ marker[Target(s)] # s
         /\ scratch[s] = None

\* Nobody empties a directory that held files.
FilledStay ==
  \A d \in Places : sort[d] = "filled" => bytes[d] > 0 /\ \A r \in Runs : ~Below(d, RunDir(r))

OwnInv ==
  /\ \A r \in Runs : Kept(r) /\ Owned(r)
  /\ \A r, s \in Runs : Apart(r, s)
  /\ FilledStay

LEMMA InitOwnInv == Init => OwnInv
<1> SUFFICES ASSUME Init PROVE OwnInv
  OBVIOUS
<1> USE DEF Init, Resolving
<1>1. ASSUME NEW r \in Runs PROVE Kept(r) /\ Owned(r)
  <2>1. ~("none" \in Runs) /\ pc[r] = "start" /\ scratch[r] = None
    BY LaunchAssumption
  <2>2. req[r] # None => marker[Target(r)] = "none"
    BY TargetIsDir
  <2> QED BY <2>1, <2>2 DEF Kept, Owned
<1>2. ASSUME NEW r \in Runs, NEW s \in Runs PROVE Apart(r, s)
  BY DEF Apart
<1>3. FilledStay
  <2> SUFFICES ASSUME NEW d \in Places, sort[d] = "filled"
               PROVE  bytes[d] > 0 /\ \A r \in Runs : ~Below(d, RunDir(r))
    BY DEF FilledStay
  <2>1. d \in Dirs
    BY DEF Dirs
  <2>2. bytes[d] = 1
    BY <2>1
  <2> QED BY <2>2 DEF InitialSorts
<1> QED BY <1>1, <1>2, <1>3 DEF OwnInv

\* A step after which no run is further on with its scratch directory, except
\* that it may have made it.
Quiet ==
  /\ UNCHANGED <<marker, scratch, raced, listed>>
  /\ dirs \subseteq dirs'
  /\ \A r \in Runs : \/ pc'[r] = pc[r]
                     \/ pc'[r] \notin Resolving
                     \/ pc[r] = "make" /\ pc'[r] = "list"

LEMMA QuietOrResolving ==
  ASSUME TypeInv, [Next]_vars
  PROVE  \/ Quiet
         \/ \E r \in Runs : \/ Begin(r) \/ Look(r) \/ List(r) \/ Claim(r)
                            \/ Create(r) \/ Fill(r) \/ Repeat(r)
<1>1. pc \in [Runs -> Pcs]
  BY TypeParts DEF TypeInv, RunTypes
<1>2. ASSUME NEW r \in Runs, Make(r) PROVE Quiet
  <2>1. UNCHANGED <<marker, scratch, raced, listed>> /\ dirs \subseteq dirs'
    BY <1>2 DEF Make, history
  <2>2. pc[r] = "make" /\ \E step \in {"died", "list"} : pc' = [pc EXCEPT ![r] = step]
    BY <1>2 DEF Make, Goto
  <2> QED BY <1>1, <2>1, <2>2 DEF Quiet, Resolving
<1>3. ASSUME NEW r \in Runs,
             \/ Refuse(r) \/ Policy(r) \/ Preflight(r) \/ Scope(r) \/ End(r) \/ Resume(r) \/ Die(r)
      PROVE  Quiet
  <2>1. UNCHANGED <<marker, scratch, raced, listed, dirs>>
    BY <1>3, SaveCases DEF Refuse, Resume, Die, tree, history
  <2>2. \E step : pc' = [pc EXCEPT ![r] = step] /\ step \notin Resolving
    <3>1. CASE Refuse(r) \/ Resume(r) \/ Die(r)
      BY <3>1 DEF Refuse, Resume, Die, Goto, Resolving
    <3>2. CASE Policy(r) \/ Preflight(r) \/ Scope(r) \/ End(r)
      BY <3>2, SaveMoves DEF Resolving
    <3> QED BY <1>3, <3>1, <3>2
  <2> QED BY <1>1, <2>1, <2>2 DEF Quiet
<1>4. ASSUME NEW r \in Runs, Log(r) \/ Write(r) \/ Delete(r) \/ Sample(r) PROVE Quiet
  BY <1>4 DEF Log, Write, Grow, Delete, Sample, tree, history, Quiet
<1>5. ASSUME UNCHANGED vars PROVE Quiet
  BY <1>5 DEF vars, tree, history, Quiet
<1> QED BY <1>2, <1>3, <1>4, <1>5, StepCases

LEMMA TargetsStay ==
  ASSUME TypeInv, [Next]_vars
  PROVE  /\ UNCHANGED <<req, sort>>
         /\ \A r \in Runs : Target(r)' = Target(r) /\ Occupied(r)' = Occupied(r)
<1>1. UNCHANGED <<req, sort>>
  BY StepMoves
<1>2. \A r \in Runs : Target(r)' = Target(r)
  BY <1>1 DEF Target
<1> QED BY <1>1, <1>2 DEF Occupied

LEMMA NextApart ==
  ASSUME TypeInv, OwnInv, [Next]_vars
  PROVE  \A r, s \in Runs : Apart(r, s)'
<1>1. TreeTypes /\ RunTypes /\ req \in Scenarios
  BY TypeParts DEF TypeInv, Requested
<1>2. UNCHANGED req /\ \A r \in Runs : Target(r)' = Target(r)
  BY TargetsStay
<1> SUFFICES ASSUME NEW r \in Runs, NEW s \in Runs, r # s, req[r] # None, req[s] # None,
                    Target(r) = Target(s), ~({r, s} \subseteq raced')
             PROVE  /\ ~(pc'[r] \in Resolving /\ pc'[s] \in Resolving)
                    /\ scratch'[r] # None => /\ pc'[s] \notin {"create", "fill"}
                                             /\ marker'[Target(r)] # s
                                             /\ scratch'[s] = None
  BY <1>2 DEF Apart
<1> DEFINE d == Target(r)
<1>3. d \in Dirs /\ d # None
  BY <1>1, TargetIsDir
\* Where both stood, if they had not met.
<1>4. ASSUME ~({r, s} \subseteq raced)
      PROVE  /\ ~(pc[r] \in Resolving /\ pc[s] \in Resolving)
             /\ scratch[r] # None => /\ pc[s] \notin {"create", "fill"} /\ marker[d] # s
                                     /\ scratch[s] = None
             /\ scratch[s] # None => /\ pc[r] \notin {"create", "fill"} /\ marker[d] # r
                                     /\ scratch[r] = None
  BY <1>4 DEF OwnInv, Apart
<1>5. scratch[r] # None \/ scratch[s] # None => marker[d] # "none"
  BY DEF OwnInv, Owned
<1> HIDE DEF d
<1>6. CASE Quiet
  BY <1>4, <1>6 DEF Quiet, Resolving, d
<1>7. ASSUME NEW q \in Runs, Begin(q)
      PROVE  /\ ~(pc'[r] \in Resolving /\ pc'[s] \in Resolving)
             /\ scratch'[r] # None => /\ pc'[s] \notin {"create", "fill"} /\ marker'[d] # s
                                      /\ scratch'[s] = None
  <2>1. UNCHANGED <<marker, scratch>> /\ raced \subseteq raced'
    BY <1>7 DEF Begin
  <2>2. pc[q] = "start" /\ \E step \in {"look", "policy"} : pc' = [pc EXCEPT ![q] = step]
    BY <1>7 DEF Begin, Goto
  <2>3. ASSUME pc'[r] \in Resolving, pc'[s] \in Resolving PROVE FALSE
    <3>1. pc[r] \in Resolving \/ r = q
      BY <1>1, <2>2, <2>3 DEF RunTypes
    <3>2. pc[s] \in Resolving \/ s = q
      BY <1>1, <2>2, <2>3 DEF RunTypes
    <3>3. CASE q \in {r, s}
      <4>1. PICK o \in {r, s} \ {q} : pc[o] \in Resolving /\ Target(o) = Target(q) /\ pc'[q] \in Resolving
        BY <2>3, <3>1, <3>2, <3>3
      <4>2. UsesScratch(req[q])
        BY <1>1, <1>7, <2>2, <4>1 DEF Begin, Goto, Resolving, RunTypes
      <4>3. o \in Rivals(q)
        BY <4>1 DEF Rivals
      <4>4. raced' = raced \union Rivals(q) \union {q}
        BY <1>7, <4>2, <4>3 DEF Begin
      <4> QED BY <3>3, <4>1, <4>3, <4>4
    <3>4. CASE q \notin {r, s}
      BY <1>4, <2>1, <3>1, <3>2, <3>4
    <3> QED BY <3>3, <3>4
  <2>4. pc'[s] \notin {"create", "fill"} \/ pc'[s] = pc[s]
    BY <1>1, <2>2 DEF RunTypes
  <2> QED BY <1>4, <2>1, <2>3, <2>4
<1>8. ASSUME NEW q \in Runs, Look(q) \/ List(q)
      PROVE  /\ ~(pc'[r] \in Resolving /\ pc'[s] \in Resolving)
             /\ scratch'[r] # None => /\ pc'[s] \notin {"create", "fill"} /\ marker'[d] # s
                                      /\ scratch'[s] = None
  <2>1. UNCHANGED <<marker, scratch, raced>>
    BY <1>8 DEF Look, List, tree, history
  <2>2. /\ pc[q] \in Resolving
        /\ \E step \in Pcs \ {"create", "fill"} : pc' = [pc EXCEPT ![q] = step]
    BY <1>8 DEF Look, List, Goto, Resolving, Pcs
  <2>3. \A o \in {r, s} : /\ pc'[o] \in Resolving => pc[o] \in Resolving
                          /\ pc'[o] \in {"create", "fill"} => pc[o] = pc'[o]
    BY <1>1, <2>2 DEF RunTypes
  <2> QED BY <1>4, <2>1, <2>3
<1>9. ASSUME NEW q \in Runs, Claim(q)
      PROVE  /\ ~(pc'[r] \in Resolving /\ pc'[s] \in Resolving)
             /\ scratch'[r] # None => /\ pc'[s] \notin {"create", "fill"} /\ marker'[d] # s
                                      /\ scratch'[s] = None
  <2>1. UNCHANGED <<marker, raced>> /\ pc[q] = "claim"
    BY <1>9 DEF Claim, tree, history
  <2>2. CASE marker[Target(q)] = q
    <3>1. pc' = [pc EXCEPT ![q] = "policy"] /\ scratch' = [scratch EXCEPT ![q] = Target(q)]
      BY <1>9, <2>2 DEF Claim, Goto
    <3>2. CASE q = r
      BY <1>1, <1>4, <2>1, <2>2, <3>1, <3>2 DEF RunTypes, Resolving, d
    <3>3. CASE q = s
      BY <1>1, <1>4, <2>1, <2>2, <3>1, <3>3 DEF RunTypes, Resolving, d
    <3>4. CASE q \notin {r, s}
      BY <1>1, <1>4, <2>1, <3>1, <3>4 DEF RunTypes
    <3> QED BY <3>2, <3>3, <3>4
  <2>3. CASE marker[Target(q)] # q
    <3>1. /\ scratch' = scratch
          /\ pc' = [pc EXCEPT ![q] = IF marker[Target(q)] = "none" /\ ~listed[q]
                                     THEN "create" ELSE "refused"]
      BY <1>9, <2>3 DEF Claim, Goto
    <3>2. \A o \in {r, s} : /\ pc'[o] \in Resolving => pc[o] \in Resolving
                            /\ pc'[o] \in {"create", "fill"} =>
                                 pc[o] = pc'[o] \/ marker[Target(o)] = "none"
      BY <1>1, <2>1, <3>1 DEF RunTypes, Resolving
    <3> QED BY <1>4, <1>5, <2>1, <3>1, <3>2 DEF d
  <2> QED BY <2>2, <2>3
<1>10. ASSUME NEW q \in Runs, Create(q) \/ Fill(q)
      PROVE  /\ ~(pc'[r] \in Resolving /\ pc'[s] \in Resolving)
             /\ scratch'[r] # None => /\ pc'[s] \notin {"create", "fill"} /\ marker'[d] # s
                                      /\ scratch'[s] = None
  <2>1. UNCHANGED raced /\ pc[q] \in {"create", "fill"}
    BY <1>10 DEF Create, Fill, history
  <2>2. \/ /\ marker' = [marker EXCEPT ![Target(q)] = "partial"]
           /\ scratch' = scratch /\ pc' = [pc EXCEPT ![q] = "fill"]
        \/ /\ marker' = [marker EXCEPT ![Target(q)] = q]
           /\ scratch' = [scratch EXCEPT ![q] = Target(q)] /\ pc' = [pc EXCEPT ![q] = "policy"]
    BY <1>10 DEF Create, Fill, Goto
  <2>3. "partial" \notin Runs
    BY LaunchAssumption
  <2>4. \A o \in {r, s} \ {q} : pc'[o] = pc[o] /\ scratch'[o] = scratch[o]
    BY <1>1, <2>2 DEF RunTypes
  <2>5. pc'[q] \in Resolving => pc[q] \in Resolving
    BY <2>1 DEF Resolving
  <2>6. marker'[d] = marker[d] \/ marker'[d] \in {"partial", q}
    BY <1>1, <1>3, <2>2 DEF TreeTypes
  <2>7. Target(q) = d => marker'[d] \in {"partial", q}
    BY <1>1, <1>3, <2>2 DEF TreeTypes
  <2>8. CASE q = r
    BY <1>4, <2>1, <2>3, <2>4, <2>5, <2>7, <2>8 DEF Resolving, d
  <2>9. CASE q = s
    BY <1>4, <2>1, <2>3, <2>4, <2>5, <2>6, <2>9 DEF Resolving, d
  <2>10. CASE q \notin {r, s}
    BY <1>4, <2>1, <2>3, <2>4, <2>6, <2>10
  <2> QED BY <2>8, <2>9, <2>10
<1>11. ASSUME NEW q \in Runs, Repeat(q)
      PROVE  /\ ~(pc'[r] \in Resolving /\ pc'[s] \in Resolving)
             /\ scratch'[r] # None => /\ pc'[s] \notin {"create", "fill"} /\ marker'[d] # s
                                      /\ scratch'[s] = None
  <2>1. /\ UNCHANGED raced /\ pc' = [pc EXCEPT ![q] = "start"]
        /\ scratch' = [scratch EXCEPT ![q] = None]
        /\ marker' = [o \in Dirs |-> IF Below(o, RunDir(q)) THEN "none" ELSE marker[o]]
    BY <1>11 DEF Repeat, Goto
  <2>2. marker'[d] \in {"none", marker[d]} /\ "none" \notin Runs
    BY <1>3, <2>1, LaunchAssumption
  <2>3. \A o \in {r, s} : /\ scratch'[o] \in {None, scratch[o]}
                          /\ pc'[o] \in Resolving => pc[o] = pc'[o]
                          /\ pc'[o] \in {"create", "fill"} => pc[o] = pc'[o]
    BY <1>1, <2>1 DEF RunTypes, Resolving
  <2> QED BY <1>4, <2>1, <2>2, <2>3
<1> QED BY <1>6, <1>7, <1>8, <1>9, <1>10, <1>11, QuietOrResolving DEF d

LEMMA NextKept ==
  ASSUME TypeInv, OwnInv, [Next]_vars
  PROVE  \A r \in Runs : Kept(r)'
<1>1. TreeTypes /\ RunTypes /\ req \in Scenarios
  BY TypeParts DEF TypeInv, Requested
<1> SUFFICES ASSUME NEW r \in Runs, req[r] # None, Occupied(r)
             PROVE  /\ pc'[r] \notin {"create", "fill"} /\ (pc'[r] = "claim" => listed'[r])
                    /\ marker'[Target(r)] # r /\ scratch'[r] = None
  BY TargetsStay DEF Kept
<1> DEFINE d == Target(r)
           Goal == /\ pc'[r] \notin {"create", "fill"} /\ (pc'[r] = "claim" => listed'[r])
                   /\ marker'[d] # r /\ scratch'[r] = None
<1>2. d \in Dirs /\ d # None
  BY <1>1, TargetIsDir
<1>3. /\ pc[r] \notin {"create", "fill"} /\ (pc[r] = "claim" => listed[r])
      /\ marker[d] # r /\ scratch[r] = None
  BY DEF OwnInv, Kept
<1> HIDE DEF d
<1>4. ASSUME Quiet PROVE Goal
  BY <1>3, <1>4 DEF Quiet, Resolving
<1>5. ASSUME NEW q \in Runs, Begin(q) PROVE Goal
  <2>1. UNCHANGED <<marker, scratch, listed>>
    BY <1>5 DEF Begin
  <2>2. \E step \in {"look", "policy"} : pc' = [pc EXCEPT ![q] = step]
    BY <1>5 DEF Begin, Goto
  <2>3. pc'[r] \in {pc[r], "look", "policy"}
    BY <1>1, <2>2 DEF RunTypes
  <2> QED BY <1>3, <2>1, <2>3
<1>6. ASSUME NEW q \in Runs, Look(q) PROVE Goal
  <2>1. UNCHANGED <<marker, scratch, listed>>
    BY <1>6 DEF Look, tree
  <2>2. \E step \in {"refused", "list", "make"} : pc' = [pc EXCEPT ![q] = step]
    BY <1>6 DEF Look, Goto
  <2>3. pc'[r] \in {pc[r], "refused", "list", "make"}
    BY <1>1, <2>2 DEF RunTypes
  <2> QED BY <1>3, <2>1, <2>3
\* The listing shows what the directory holds.
<1>7. ASSUME NEW q \in Runs, List(q) PROVE Goal
  <2>1. UNCHANGED <<marker, scratch>> /\ pc' = [pc EXCEPT ![q] = "claim"]
    BY <1>7 DEF List, Goto, tree
  <2>2. CASE q # r
    <3>1. pc'[r] = pc[r] /\ listed'[r] = listed[r]
      BY <1>1, <1>7, <2>2 DEF List, Goto, RunTypes
    <3> QED BY <1>3, <2>1, <3>1
  <2>3. CASE q = r
    <3>1. pc[r] = "list" /\ RunDir(r) \in dirs
      BY <1>7, <2>3 DEF List, OwnInv, Owned, Resolving
    <3>2. bytes[d] > 0 \/ \E o \in dirs \ {d} : Below(o, d)
      BY <3>1 DEF Occupied, OwnInv, FilledStay, d
    <3>3. listed'[r]
      BY <1>1, <1>7, <2>3, <3>2 DEF List, RunTypes, d
    <3>4. pc'[r] = "claim"
      BY <1>1, <2>1, <2>3 DEF RunTypes
    <3> QED BY <1>3, <2>1, <3>3, <3>4
  <2> QED BY <2>2, <2>3
<1>8. ASSUME NEW q \in Runs, Claim(q) PROVE Goal
  <2>1. UNCHANGED <<marker, listed>>
    BY <1>8 DEF Claim, tree
  <2>2. CASE q # r
    <3>1. pc'[r] = pc[r] /\ scratch'[r] = scratch[r]
      BY <1>1, <1>8, <2>2 DEF Claim, Goto, RunTypes
    <3> QED BY <1>3, <2>1, <3>1
  <2>3. CASE q = r
    <3>1. pc[r] = "claim" /\ listed[r] /\ marker[d] # r
      BY <1>3, <1>8, <2>3 DEF Claim
    <3>2. pc' = [pc EXCEPT ![r] = "refused"] /\ scratch' = scratch
      BY <1>8, <2>3, <3>1 DEF Claim, Goto, d
    <3> QED BY <1>1, <1>3, <2>1, <3>2 DEF RunTypes
  <2> QED BY <2>2, <2>3
<1>9. ASSUME NEW q \in Runs, Create(q) \/ Fill(q) PROVE Goal
  <2>1. pc[q] \in {"create", "fill"} /\ UNCHANGED listed
    BY <1>9 DEF Create, Fill
  <2>2. q # r
    BY <1>3, <2>1
  <2>3. pc'[r] = pc[r] /\ scratch'[r] = scratch[r]
    BY <1>1, <1>9, <2>2 DEF Create, Fill, Goto, RunTypes
  <2>4. marker'[d] \in {marker[d], "partial", q} /\ "partial" \notin Runs
    BY <1>1, <1>2, <1>9, LaunchAssumption DEF Create, Fill, TreeTypes
  <2> QED BY <1>3, <2>1, <2>2, <2>3, <2>4
<1>10. ASSUME NEW q \in Runs, Repeat(q) PROVE Goal
  <2>1. /\ UNCHANGED listed /\ pc' = [pc EXCEPT ![q] = "start"]
        /\ scratch' = [scratch EXCEPT ![q] = None]
        /\ marker' = [o \in Dirs |-> IF Below(o, RunDir(q)) THEN "none" ELSE marker[o]]
    BY <1>10 DEF Repeat, Goto
  <2>2. marker'[d] \in {"none", marker[d]} /\ "none" \notin Runs
    BY <1>2, <2>1, LaunchAssumption
  <2>3. pc'[r] \in {"start", pc[r]} /\ scratch'[r] \in {None, scratch[r]}
    BY <1>1, <2>1 DEF RunTypes
  <2> QED BY <1>3, <2>1, <2>2, <2>3
<1> QED BY <1>4, <1>5, <1>6, <1>7, <1>8, <1>9, <1>10, QuietOrResolving DEF d

LEMMA NextOwned ==
  ASSUME TypeInv, OwnInv, [Next]_vars
  PROVE  \A r \in Runs : Owned(r)'
<1>1. TreeTypes /\ RunTypes /\ req \in Scenarios
  BY TypeParts DEF TypeInv, Requested
<1> SUFFICES ASSUME NEW r \in Runs PROVE Owned(r)'
  OBVIOUS
<1> DEFINE d == Target(r)
           Mine == /\ scratch[r] # None => req[r] # None /\ scratch[r] = d /\ marker[d] # "none"
                   /\ (scratch[r] # None \/ pc[r] \in Resolving \ {"look"}) /\ d \in Places =>
                        sort[d] \notin {"file", "public"}
                   /\ pc[r] \in Resolving => RunDir(r) \in dirs
<1>2. Mine /\ (Mine' => Owned(r)')
  BY DEF OwnInv, Owned
<1>3. UNCHANGED <<req, sort>> /\ d' = d
  BY TargetsStay
<1>4. req[r] # None => d \in Dirs /\ d # None
  BY <1>1, TargetIsDir
<1>5. pc[r] # "start" => req[r] # None
  BY DEF TypeInv, Requested
<1> HIDE DEF d
<1>6. ASSUME Quiet PROVE Mine'
  BY <1>2, <1>3, <1>6 DEF Quiet, Resolving
<1>7. ASSUME NEW q \in Runs, Begin(q) PROVE Mine'
  <2>1. UNCHANGED <<marker, scratch>> /\ dirs' = dirs \union {RunDir(q)}
    BY <1>7 DEF Begin
  <2>2. \E step \in {"look", "policy"} : pc' = [pc EXCEPT ![q] = step]
    BY <1>7 DEF Begin, Goto
  <2>3. pc'[r] = pc[r] \/ (q = r /\ pc'[r] \in {"look", "policy"})
    BY <1>1, <2>2 DEF RunTypes
  <2> QED BY <1>2, <1>3, <2>1, <2>3 DEF Resolving
<1>8. ASSUME NEW q \in Runs, Look(q) PROVE Mine'
  <2>1. UNCHANGED <<marker, scratch, dirs>>
    BY <1>8 DEF Look, tree
  <2>2. CASE q # r
    <3>1. pc'[r] = pc[r]
      BY <1>1, <1>8, <2>2 DEF Look, Goto, RunTypes
    <3> QED BY <1>2, <1>3, <2>1, <3>1
  <2>3. CASE q = r
    <3>1. pc[r] = "look" /\ (d \in Places /\ sort[d] \in {"file", "public"} => pc' = [pc EXCEPT ![r] = "refused"])
      BY <1>8, <2>3 DEF Look, Goto, d
    <3>2. RunDir(r) \in dirs
      BY <1>2, <3>1 DEF Resolving
    <3>3. d \in Places /\ sort[d] \in {"file", "public"} => pc'[r] = "refused"
      BY <1>1, <3>1 DEF RunTypes
    <3> QED BY <1>2, <1>3, <2>1, <3>2, <3>3 DEF Resolving
  <2> QED BY <2>2, <2>3
<1>9. ASSUME NEW q \in Runs, List(q) PROVE Mine'
  <2>1. UNCHANGED <<marker, scratch, dirs>> /\ pc[q] = "list"
    BY <1>9 DEF List, tree
  <2>2. pc'[r] = pc[r] \/ (q = r /\ pc'[r] = "claim")
    BY <1>1, <1>9 DEF List, Goto, RunTypes
  <2> QED BY <1>2, <1>3, <2>1, <2>2 DEF Resolving
<1>10. ASSUME NEW q \in Runs, Claim(q) PROVE Mine'
  <2>1. UNCHANGED <<marker, dirs>> /\ pc[q] = "claim"
    BY <1>10 DEF Claim, tree
  <2>2. CASE q # r
    <3>1. pc'[r] = pc[r] /\ scratch'[r] = scratch[r]
      BY <1>1, <1>10, <2>2 DEF Claim, Goto, RunTypes
    <3> QED BY <1>2, <1>3, <2>1, <3>1
  <2>3. CASE q = r
    <3>1. scratch'[r] = scratch[r] \/ (scratch'[r] = d /\ marker[d] = r)
      BY <1>1, <1>10, <2>3 DEF Claim, RunTypes, d
    <3>2. "none" \notin Runs /\ req[r] # None
      BY <1>5, <2>1, <2>3, LaunchAssumption
    <3> QED BY <1>2, <1>3, <2>1, <2>3, <3>1, <3>2 DEF Resolving
  <2> QED BY <2>2, <2>3
<1>11. ASSUME NEW q \in Runs, Create(q) \/ Fill(q) PROVE Mine'
  <2>1. UNCHANGED dirs /\ pc[q] \in {"create", "fill"}
    BY <1>11 DEF Create, Fill
  <2>2. req[r] # None => marker'[d] \in {marker[d], "partial", q}
    BY <1>1, <1>4, <1>11 DEF Create, Fill, TreeTypes
  <2>3. "none" \notin Runs
    BY LaunchAssumption
  <2>4. CASE q # r
    <3>1. pc'[r] = pc[r] /\ scratch'[r] = scratch[r]
      BY <1>1, <1>11, <2>4 DEF Create, Fill, Goto, RunTypes
    <3> QED BY <1>2, <1>3, <2>1, <2>2, <2>3, <3>1
  <2>5. CASE q = r
    <3>1. req[r] # None
      BY <1>5, <2>1, <2>5
    <3>2. marker'[d] \in {"partial", r}
      BY <1>1, <1>4, <1>11, <2>5, <3>1 DEF Create, Fill, TreeTypes, d
    <3>3. scratch'[r] \in {scratch[r], d}
      BY <1>1, <1>11, <2>5 DEF Create, Fill, RunTypes, d
    <3> QED BY <1>2, <1>3, <2>1, <2>3, <2>5, <3>1, <3>2, <3>3 DEF Resolving
  <2> QED BY <2>4, <2>5
\* A repetition removes its own run directory only, and no other run's marker.
<1>12. ASSUME NEW q \in Runs, Repeat(q) PROVE Mine'
  <2>1. /\ pc' = [pc EXCEPT ![q] = "start"]
        /\ scratch' = [scratch EXCEPT ![q] = None]
        /\ marker' = [o \in Dirs |-> IF Below(o, RunDir(q)) THEN "none" ELSE marker[o]]
        /\ dirs' = {o \in dirs : ~Below(o, RunDir(q))}
    BY <1>12 DEF Repeat, Goto
  <2>2. CASE q = r
    BY <1>1, <1>2, <1>3, <2>1, <2>2 DEF RunTypes, Resolving
  <2>3. CASE q # r
    <3>1. pc'[r] = pc[r] /\ scratch'[r] = scratch[r]
      BY <1>1, <2>1, <2>3 DEF RunTypes
    <3>2. req[r] # None => ~Below(d, RunDir(q))
      BY <1>12, <2>3 DEF Repeat, d
    <3>3. req[r] # None => marker'[d] = marker[d]
      BY <1>4, <2>1, <3>2
    <3>4. RunDir(r) \in dirs => RunDir(r) \in dirs'
      BY <2>1, <2>3, Layout
    <3> QED BY <1>2, <1>3, <3>1, <3>3, <3>4
  <2> QED BY <2>2, <2>3
<1>13. Mine'
  BY <1>6, <1>7, <1>8, <1>9, <1>10, <1>11, <1>12, QuietOrResolving
<1> QED BY <1>2, <1>13

LEMMA NextFilledStay ==
  ASSUME TypeInv, OwnInv, [Next]_vars
  PROVE  FilledStay'
<1>1. TreeTypes /\ RunTypes
  BY TypeParts DEF TypeInv
<1> SUFFICES ASSUME NEW d \in Places, sort[d] = "filled"
             PROVE  bytes'[d] > 0
  BY StepMoves DEF OwnInv, FilledStay
<1>2. d \in Dirs /\ bytes[d] > 0 /\ bytes[d] \in 0 .. MaxBytes /\ \A r \in Runs : ~Below(d, RunDir(r))
  BY <1>1 DEF Dirs, OwnInv, FilledStay, TreeTypes
<1>3. CASE UNCHANGED bytes
  BY <1>2, <1>3
<1>4. ASSUME NEW o, NEW n \in Nat, Put(o, n) PROVE bytes'[d] > 0
  <2>1. bytes'[d] \in {bytes[d], bytes[d] + n}
    BY <1>1, <1>2, <1>4 DEF TreeTypes, Put
  <2> QED BY <1>2, <2>1, LaunchAssumption
<1>5. ASSUME NEW r \in Runs, Log(r) \/ Write(r) PROVE bytes'[d] > 0
  <2>1. \E o \in {RunDir(r), scratch[r]} : Put(o, 1)
    BY <1>5 DEF Log, Write, Grow
  <2> QED BY <1>4, <2>1
<1>6. ASSUME NEW r \in Runs, Policy(r) \/ Preflight(r) \/ Scope(r) \/ End(r) PROVE bytes'[d] > 0
  <2>1. UNCHANGED bytes \/ \E n \in Nat : Put(RunDir(r), n)
    BY <1>6, SaveCases DEF Saves
  <2> QED BY <1>3, <1>4, <2>1
\* A scratch root did not hold any before it was one.
<1>7. ASSUME NEW r \in Runs, Delete(r) PROVE bytes'[d] > 0
  <2>1. scratch[r] # None /\ bytes' = [bytes EXCEPT ![scratch[r]] = @ - 1]
    BY <1>7 DEF Delete
  <2>2. scratch[r] # d
    BY <2>1 DEF OwnInv, Owned, Kept, Occupied
  <2> QED BY <1>1, <1>2, <2>1, <2>2 DEF TreeTypes
<1>8. ASSUME NEW r \in Runs, Repeat(r) PROVE bytes'[d] > 0
  BY <1>2, <1>8 DEF Repeat
<1>9. ASSUME NEW r \in Runs,
             \/ Refuse(r) \/ Begin(r) \/ Look(r) \/ Make(r) \/ List(r) \/ Claim(r) \/ Create(r)
             \/ Fill(r) \/ Sample(r) \/ Resume(r) \/ Die(r)
      PROVE  UNCHANGED bytes
  BY <1>9 DEF Refuse, Begin, Look, Make, List, Claim, Create, Fill, Sample, Resume, Die, tree
<1> QED BY <1>3, <1>5, <1>6, <1>7, <1>8, <1>9, StepCases DEF vars, tree

LEMMA NextOwnInv ==
  ASSUME TypeInv, OwnInv, [Next]_vars
  PROVE  OwnInv'
BY NextApart, NextKept, NextOwned, NextFilledStay DEF OwnInv

LEMMA OwnInvOwns ==
  ASSUME TypeInv, OwnInv
  PROVE  ScratchIsOwned
<1> SUFFICES ASSUME NEW r \in Runs, scratch[r] # None
             PROVE  /\ \A s \in Runs \ {r} : scratch[s] = scratch[r] => {r, s} \subseteq raced
                    /\ scratch[r] \in Places => sort[scratch[r]] \in {"absent", "empty"}
  BY DEF ScratchIsOwned
<1>1. req[r] # None /\ scratch[r] = Target(r)
  BY DEF OwnInv, Owned
<1>2. ASSUME NEW s \in Runs \ {r}, scratch[s] = scratch[r] PROVE {r, s} \subseteq raced
  <2>1. req[s] # None /\ scratch[s] = Target(s)
    BY <1>2 DEF OwnInv, Owned
  <2>2. Apart(r, s)
    BY DEF OwnInv
  <2> QED BY <1>1, <1>2, <2>1, <2>2 DEF Apart
<1>3. ASSUME scratch[r] \in Places PROVE sort[scratch[r]] \in {"absent", "empty"}
  <2>1. sort[Target(r)] \notin {"file", "public", "filled"}
    BY <1>1, <1>3 DEF OwnInv, Owned, Kept, Occupied
  <2>2. sort[Target(r)] \in {"absent", "empty", "filled", "public", "file"}
    BY <1>1, <1>3, TypeParts, LaunchAssumption DEF TypeInv, TreeTypes
  <2> QED BY <1>1, <2>1, <2>2
<1> QED BY <1>2, <1>3

\* A scratch root belongs to one run, and held nobody's files before it
\* (resolve_scratch_dir), through deaths, partial markers and repetitions.
THEOREM ScratchRootsAreOwned == Spec => []ScratchIsOwned
<1>1. TypeInv /\ [Next]_vars => TypeInv'
  BY NextTypeInv
<1>2. TypeInv /\ OwnInv /\ [Next]_vars => OwnInv'
  BY NextOwnInv
<1>3. TypeInv /\ OwnInv => ScratchIsOwned
  BY OwnInvOwns
<1> QED BY <1>1, <1>2, <1>3, InitTypeInv, InitOwnInv, PTL DEF Spec

-----------------------------------------------------------------------------
(* What a worker may write.                                                *)

Launched == {"policy", "preflight", "scope", "running", "ended"}

\* A command that got past its arguments had good ones, and one past its
\* scratch directory has it, if it uses one.
StartInv ==
  \A r \in Runs :
    /\ pc[r] \in Resolving \union Launched => ArgumentsAccepted(req[r])
    /\ pc[r] \in Launched /\ UsesScratch(req[r]) => scratch[r] # None

LEMMA NextStartInv ==
  ASSUME TypeInv, StartInv, [Next]_vars
  PROVE  StartInv'
<1>1. TreeTypes /\ RunTypes /\ req \in Scenarios
  BY TypeParts DEF TypeInv, Requested
<1>2. req' = req
  BY StepMoves
<1>14. \A r \in Runs : /\ ArgumentsAccepted(req[r])' = ArgumentsAccepted(req[r])
                      /\ UsesScratch(req[r])' = UsesScratch(req[r])
  BY <1>2
<1> SUFFICES ASSUME NEW r \in Runs
             PROVE  /\ pc'[r] \in Resolving \union Launched => ArgumentsAccepted(req[r])
                    /\ pc'[r] \in Launched /\ UsesScratch(req[r]) => scratch'[r] # None
  BY <1>2, <1>14 DEF StartInv
<1> DEFINE Goal == /\ pc'[r] \in Resolving \union Launched => ArgumentsAccepted(req[r])
                   /\ pc'[r] \in Launched /\ UsesScratch(req[r]) => scratch'[r] # None
<1>3. /\ pc[r] \in Resolving \union Launched => ArgumentsAccepted(req[r])
      /\ pc[r] \in Launched /\ UsesScratch(req[r]) => scratch[r] # None
  BY DEF StartInv
\* A step of another run.
<1>4. ASSUME pc'[r] = pc[r], scratch'[r] = scratch[r] PROVE Goal
  BY <1>3, <1>4
\* A step of this one that keeps its scratch root and does not begin anything.
<1>5. ASSUME scratch'[r] = scratch[r], NEW step, pc' = [pc EXCEPT ![r] = step],
             \/ step \notin Resolving \union Launched
             \/ pc[r] \in Resolving /\ step \in Resolving
             \/ pc[r] \in Launched /\ step \in Launched
      PROVE  Goal
  <2>1. pc'[r] = step
    BY <1>1, <1>5 DEF RunTypes
  <2> QED BY <1>3, <1>5, <2>1 DEF Launched, Resolving
<1>6. ASSUME NEW q \in Runs,
             \/ Refuse(q) \/ Begin(q) \/ Look(q) \/ Make(q) \/ List(q) \/ Claim(q) \/ Create(q)
             \/ Fill(q) \/ Policy(q) \/ Preflight(q) \/ Scope(q) \/ End(q) \/ Resume(q) \/ Die(q)
             \/ Repeat(q),
             q # r
      PROVE  Goal
  <2>1. pc'[r] = pc[r]
    <3>1. \E step : pc' = [pc EXCEPT ![q] = step]
      BY <1>6 DEF Refuse, Begin, Look, Make, List, Claim, Create, Fill, Policy, Preflight, Scope,
                  End, Resume, Die, Repeat, Goto
    <3> QED BY <1>1, <1>6, <3>1 DEF RunTypes
  <2>2. scratch'[r] = scratch[r]
    <3>1. scratch' = scratch \/ \E o : scratch' = [scratch EXCEPT ![q] = o]
      BY <1>6 DEF Refuse, Begin, Look, Make, List, Claim, Create, Fill, Policy, Preflight, Scope,
                  End, Resume, Die, Repeat
    <3> QED BY <1>1, <1>6, <3>1 DEF RunTypes
  <2> QED BY <1>4, <2>1, <2>2
<1>7. CASE \E q \in Runs : Log(q) \/ Write(q) \/ Delete(q) \/ Sample(q)
  <2>1. UNCHANGED <<pc, scratch>>
    BY <1>7 DEF Log, Write, Grow, Delete, Sample
  <2> QED BY <1>4, <2>1
<1>8. CASE UNCHANGED vars
  BY <1>4, <1>8 DEF vars
<1>9. CASE Begin(r)
  <2>1. ArgumentsAccepted(req[r]) /\ scratch' = scratch
    BY <1>9 DEF Begin
  <2>2. UsesScratch(req[r]) => pc'[r] = "look"
    BY <1>1, <1>9 DEF Begin, Goto, RunTypes
  <2> QED BY <2>1, <2>2 DEF Launched
<1>10. CASE Refuse(r) \/ Make(r) \/ List(r) \/ Create(r) \/ Die(r)
  <2>1. scratch' = scratch
    BY <1>10 DEF Refuse, Make, List, Create, Die
  <2>2. \E step : /\ pc' = [pc EXCEPT ![r] = step]
                  /\ \/ step \notin Resolving \union Launched
                     \/ pc[r] \in Resolving /\ step \in Resolving
    BY <1>10 DEF Refuse, Make, List, Create, Die, Goto, Resolving, Launched
  <2> QED BY <1>5, <2>1, <2>2
<1>11. CASE Look(r)
  <2>1. scratch' = scratch /\ pc[r] = "look"
    BY <1>11 DEF Look
  <2>2. \E step \in {"refused", "list", "make"} : pc' = [pc EXCEPT ![r] = step]
    BY <1>11 DEF Look, Goto
  <2> QED BY <1>5, <2>1, <2>2 DEF Resolving, Launched
<1>12. CASE Claim(r) \/ Fill(r)
  <2>1. pc[r] \in Resolving /\ Target(r) # None
    BY <1>1, <1>12, TargetIsDir DEF Claim, Fill, Resolving, TypeInv, Requested
  <2>2. CASE scratch' = [scratch EXCEPT ![r] = Target(r)]
    BY <1>1, <1>3, <2>1, <2>2 DEF RunTypes
  <2>3. CASE scratch' = scratch /\ \E step \in {"create", "refused"} : pc' = [pc EXCEPT ![r] = step]
    BY <1>5, <2>1, <2>3 DEF Resolving, Launched
  <2> QED BY <1>12, <2>2, <2>3 DEF Claim, Fill, Goto
<1>13. CASE Policy(r) \/ Preflight(r) \/ Scope(r) \/ End(r) \/ Resume(r) \/ Repeat(r)
  <2>1. CASE Repeat(r)
    <3>1. pc'[r] = "start"
      BY <1>1, <2>1 DEF Repeat, Goto, RunTypes
    <3> QED BY <3>1 DEF Resolving, Launched
  <2>2. CASE Policy(r) \/ Preflight(r) \/ Scope(r) \/ End(r) \/ Resume(r)
    <3>1. scratch' = scratch /\ pc[r] \in Launched
      BY <2>2 DEF Policy, Preflight, Scope, End, Resume, Launched
    <3>2. \E step \in Launched \union {"refused"} : pc' = [pc EXCEPT ![r] = step]
      BY <2>2 DEF Policy, Preflight, Scope, End, Resume, Goto, Launched
    <3> QED BY <1>5, <3>1, <3>2 DEF Resolving, Launched
  <2> QED BY <1>13, <2>1, <2>2
<1> QED BY <1>6, <1>7, <1>8, <1>9, <1>10, <1>11, <1>12, <1>13, StepCases

\* What two roots cover, their deduplication covers.
LEMMA RootsCover ==
  ASSUME NEW a \in Dirs, NEW b \in Dirs
  PROVE  /\ \E root \in DedupeRoots({a, b}) : Below(a, root)
         /\ \E root \in DedupeRoots({a, b}) : Below(b, root)
<1>1. /\ Below(a, a) /\ Below(b, b)
      /\ Below(a, b) /\ Below(b, a) => a = b
  BY BelowOrder
<1> QED BY <1>1 DEF DedupeRoots

LEMMA DynamicRootsCover ==
  ASSUME TypeInv, NEW r \in Runs
  PROVE  /\ \E root \in DynamicRoots(r) : Below(RunDir(r), root)
         /\ scratch[r] # None => \E root \in DynamicRoots(r) : Below(scratch[r], root)
<1>1. RunDir(r) \in Dirs /\ scratch[r] \in Dirs \union {None}
  BY Layout, TypeParts DEF TypeInv, RunTypes
<1>2. CASE scratch[r] = None
  <2>1. {RunDir(r)} \union ScratchOf(r) = {RunDir(r), RunDir(r)}
    BY <1>2 DEF ScratchOf
  <2> QED BY <1>1, <1>2, <2>1, RootsCover DEF DynamicRoots
<1>3. CASE scratch[r] # None
  <2>1. {RunDir(r)} \union ScratchOf(r) = {RunDir(r), scratch[r]}
    BY <1>3 DEF ScratchOf
  <2> QED BY <1>1, <1>3, <2>1, RootsCover DEF DynamicRoots
<1> QED BY <1>2, <1>3

\* The tables of profiles, policy modes and sandbox modes agree.
LEMMA ProfilesAgree ==
  ASSUME NEW q, q.profile # None, ArgumentsAccepted(q)
  PROVE  /\ "Bash" \in Resolved(q).tools => RequiresSandbox(q) /\ "sandbox" \in q.cli
         /\ Resolved(q).tools \intersect (WriteTools \union {"Bash"}) # {} =>
              DefinitionOf(q).scratchCwd \/ q.owned
<1>1. Resolves(q) /\ AuthorityAgrees(q) /\ CapabilitiesShown(q)
  BY DEF ArgumentsAccepted
<1>2. Canonical(q.profile) \in Profiles
  BY <1>1 DEF Resolves, Names, Profiles, Canonical
<1>3. Resolved(q).tools \subseteq DefinitionOf(q).tools
  BY <1>1 DEF Resolves, Resolved
<1>4. /\ q.owned = DefinitionOf(q).owned
      /\ ~(DefinitionOf(q).nativeSandbox /\ "sandbox" \notin q.cli)
  BY <1>1 DEF AuthorityAgrees, CapabilitiesShown, MissingCapabilities
<1>5. CASE Canonical(q.profile) = "strict-readonly"
  <2>1. DefinitionOf(q).tools = ReadTools
    BY <1>5 DEF DefinitionOf, Definition, StrictReadonly
  <2> QED BY <1>3, <2>1 DEF ReadTools, WriteTools
<1>6. CASE Canonical(q.profile) \in {"verified-review", "artifact-review"}
  <2>1. DefinitionOf(q).nativeSandbox /\ DefinitionOf(q).scratchCwd
    BY <1>6 DEF DefinitionOf, Definition, VerifiedReview
  <2>2. RequiresSandbox(q)
    BY <1>6 DEF RequiresSandbox, PolicyMode, SandboxModes
  <2> QED BY <1>4, <2>1, <2>2
<1>7. CASE Canonical(q.profile) \in {"implementation", "implementation-auto"}
  <2>1. DefinitionOf(q).nativeSandbox /\ DefinitionOf(q).owned
    BY <1>7 DEF DefinitionOf, Definition, Implementation
  <2>2. RequiresSandbox(q)
    BY <1>7 DEF RequiresSandbox, PolicyMode, SandboxModes
  <2> QED BY <1>4, <2>1, <2>2
<1> QED BY <1>2, <1>5, <1>6, <1>7 DEF Profiles

LEMMA StartInvContains ==
  ASSUME TypeInv, StartInv
  PROVE  WorkerIsContained
<1> SUFFICES ASSUME NEW r \in Runs, pc[r] = "running", req[r].profile # None
             PROVE  LET q == req[r]
                        s == Settings(q, scratch[r])
                        watched == {d \in Dirs : \E root \in DynamicRoots(r) : Below(d, root)}
                        cwd == IF DefinitionOf(q).scratchCwd THEN scratch[r] ELSE Project
                        writes == Resolved(q).tools \intersect (WriteTools \union {"Bash"})
                    IN /\ "Bash" \in Resolved(q).tools => s.sandbox /\ "sandbox" \in q.cli
                       /\ s.allowWrite \subseteq watched
                       /\ writes # {} => cwd \in watched \/ q.owned
  BY DEF WorkerIsContained
<1> DEFINE q == req[r]
           s == Settings(q, scratch[r])
           watched == {d \in Dirs : \E root \in DynamicRoots(r) : Below(d, root)}
           writes == Resolved(q).tools \intersect (WriteTools \union {"Bash"})
<1>1. ArgumentsAccepted(q) /\ (UsesScratch(q) => scratch[r] # None)
  BY DEF StartInv, Launched
<1>2. scratch[r] # None => scratch[r] \in watched
  BY DynamicRootsCover, TypeParts DEF TypeInv, RunTypes
<1>3. "Bash" \in Resolved(q).tools => s.sandbox /\ "sandbox" \in q.cli
  BY <1>1, ProfilesAgree DEF Settings
<1>4. s.allowWrite \subseteq watched
  BY <1>2 DEF Settings
<1>5. writes # {} => DefinitionOf(q).scratchCwd \/ q.owned
  BY <1>1, ProfilesAgree
<1>6. DefinitionOf(q).scratchCwd => scratch[r] \in watched
  BY <1>1, <1>2 DEF UsesScratch
<1> QED BY <1>3, <1>4, <1>5, <1>6

\* What a worker of a profile can write is watched or reconciled
\* (command_run; build_runtime_policy).
THEOREM WorkersAreContained == Spec => []WorkerIsContained
<1>1. Init => StartInv
  BY DEF Init, StartInv, Resolving, Launched
<1>2. TypeInv /\ [Next]_vars => TypeInv'
  BY NextTypeInv
<1>3. TypeInv /\ StartInv /\ [Next]_vars => StartInv'
  BY NextStartInv
<1>4. TypeInv /\ StartInv => WorkerIsContained
  BY StartInvContains
<1> QED BY <1>1, <1>2, <1>3, <1>4, InitTypeInv, PTL DEF Spec

-----------------------------------------------------------------------------
(* What a run's bytes are charged to.  Sizes are first taken as functions   *)
(* of the bytes, so that those before and after a step can be compared.     *)

Held(b, root, excluded) ==
  {u \in Dirs \X (1 .. MaxBytes) :
     u[2] <= b[u[1]] /\ Below(u[1], root) /\ \A e \in excluded : ~Below(u[1], e)}

Charged(b, roots) == UNION {{root} \X Held(b, root, {}) : root \in DedupeRoots(roots)}

FixedRoots(r) == {d \in DynamicRoots(r) : Below(d, State)}

LEMMA SizesMean ==
  ASSUME NEW r \in Runs
  PROVE  /\ AggregateSize(BudgetRoots(r)) = Cardinality(Charged(bytes, BudgetRoots(r)))
         /\ DynamicBytes(r) = Cardinality(Charged(bytes, DynamicRoots(r)))
         /\ FixedBytes(r) = Cardinality(Held(bytes, State, FixedRoots(r)))
BY DEF AggregateSize, DynamicBytes, FixedBytes, DirectorySize, Units, Held, Charged, FixedRoots

LEMMA NextSizesMean ==
  ASSUME NEW r \in Runs, scratch'[r] = scratch[r]
  PROVE  /\ AggregateSize(BudgetRoots(r))' = Cardinality(Charged(bytes', BudgetRoots(r)))
         /\ DynamicBytes(r)' = Cardinality(Charged(bytes', DynamicRoots(r)))
         /\ FixedBytes(r)' = Cardinality(Held(bytes', State, FixedRoots(r)))
<1>1. BudgetRoots(r)' = BudgetRoots(r) /\ DynamicRoots(r)' = DynamicRoots(r)
  BY DEF BudgetRoots, DynamicRoots, ScratchOf, DedupeRoots
<1> QED BY <1>1 DEF AggregateSize, DynamicBytes, FixedBytes, DirectorySize, Units, Held, Charged,
                    FixedRoots, DedupeRoots

LEMMA HeldIsFinite ==
  \A b, root, excluded : /\ Held(b, root, excluded) \subseteq Dirs \X (1 .. MaxBytes)
                         /\ IsFiniteSet(Held(b, root, excluded))
                         /\ Cardinality(Held(b, root, excluded)) \in Nat
BY UnitsAreFinite DEF Held

LEMMA ChargedIsFinite ==
  ASSUME NEW b, NEW roots, roots \subseteq Dirs
  PROVE  IsFiniteSet(Charged(b, roots)) /\ Cardinality(Charged(b, roots)) \in Nat
<1>1. IsFiniteSet(Dirs \X (1 .. MaxBytes))
  BY UnitsAreFinite
<1>2. IsFiniteSet(Dirs \X (Dirs \X (1 .. MaxBytes)))
  BY <1>1, DirsAreFinite, FS_Product
<1>3. Charged(b, roots) \subseteq Dirs \X (Dirs \X (1 .. MaxBytes))
  BY HeldIsFinite DEF Charged, DedupeRoots
<1> QED BY <1>2, <1>3, FS_Subset, FS_CardinalityType

LEMMA DisjointSum ==
  ASSUME NEW S, NEW T, IsFiniteSet(S), IsFiniteSet(T), S \intersect T = {}
  PROVE  /\ IsFiniteSet(S \union T)
         /\ Cardinality(S \union T) = Cardinality(S) + Cardinality(T)
<1>1. Cardinality({}) = 0
  BY FS_EmptySet
<1>2. Cardinality(S) \in Nat /\ Cardinality(T) \in Nat
  BY FS_CardinalityType
<1>3. /\ IsFiniteSet(S \union T)
      /\ Cardinality(S \union T) = Cardinality(S) + Cardinality(T) - Cardinality(S \intersect T)
  BY FS_Union
<1>4. Cardinality(S \intersect T) = 0
  BY <1>1
<1> QED BY <1>2, <1>3, <1>4

LEMMA TaggedSize ==
  ASSUME NEW a, NEW S, IsFiniteSet(S)
  PROVE  IsFiniteSet({a} \X S) /\ Cardinality({a} \X S) = Cardinality(S)
<1>1. IsFiniteSet({a}) /\ Cardinality({a}) = 1
  BY FS_Singleton
<1>2. Cardinality(S) \in Nat
  BY FS_CardinalityType
<1>3. IsFiniteSet({a} \X S) /\ Cardinality({a} \X S) = Cardinality({a}) * Cardinality(S)
  BY <1>1, FS_Product
<1> QED BY <1>1, <1>2, <1>3

LEMMA SumOfOne ==
  ASSUME NEW b, NEW roots, NEW a, DedupeRoots(roots) = {a}
  PROVE  Cardinality(Charged(b, roots)) = Cardinality(Held(b, a, {}))
<1>1. Charged(b, roots) = {a} \X Held(b, a, {})
  BY DEF Charged
<1>2. IsFiniteSet(Held(b, a, {}))
  BY HeldIsFinite
<1>3. Cardinality({a} \X Held(b, a, {})) = Cardinality(Held(b, a, {}))
  BY <1>2, TaggedSize
<1> QED BY <1>1, <1>3

LEMMA SumOfTwo ==
  ASSUME NEW b, NEW roots, NEW a, NEW c, a # c, DedupeRoots(roots) = {a, c}
  PROVE  Cardinality(Charged(b, roots)) = Cardinality(Held(b, a, {})) + Cardinality(Held(b, c, {}))
<1> DEFINE A == Held(b, a, {})
           C == Held(b, c, {})
<1>1. IsFiniteSet(A) /\ IsFiniteSet(C)
  BY HeldIsFinite
<1>2. Charged(b, roots) = ({a} \X A) \union ({c} \X C)
  BY DEF Charged
<1> HIDE DEF A, C
<1>3. ({a} \X A) \intersect ({c} \X C) = {}
  OBVIOUS
<1>4. /\ IsFiniteSet({a} \X A) /\ Cardinality({a} \X A) = Cardinality(A)
      /\ IsFiniteSet({c} \X C) /\ Cardinality({c} \X C) = Cardinality(C)
  BY <1>1, TaggedSize
<1>5. Cardinality(({a} \X A) \union ({c} \X C)) = Cardinality({a} \X A) + Cardinality({c} \X C)
  BY <1>3, <1>4, DisjointSum
<1> QED BY <1>2, <1>4, <1>5 DEF A, C

\* A root is what its inner roots hold and the rest.
LEMMA SplitByOne ==
  ASSUME NEW b, NEW root \in Dirs, NEW a \in Dirs, Below(a, root)
  PROVE  Cardinality(Held(b, root, {})) = Cardinality(Held(b, a, {})) + Cardinality(Held(b, root, {a}))
<1>1. Held(b, root, {}) = Held(b, a, {}) \union Held(b, root, {a})
  BY BelowOrder DEF Held
<1>2. Held(b, a, {}) \intersect Held(b, root, {a}) = {}
  BY DEF Held
<1> QED BY <1>1, <1>2, HeldIsFinite, DisjointSum

LEMMA SplitByTwo ==
  ASSUME NEW b, NEW root \in Dirs, NEW a \in Dirs, NEW c \in Dirs, Below(a, root), Below(c, root),
         ~Below(a, c), ~Below(c, a)
  PROVE  Cardinality(Held(b, root, {})) =
           Cardinality(Held(b, a, {})) + Cardinality(Held(b, c, {})) + Cardinality(Held(b, root, {a, c}))
<1> DEFINE A == Held(b, a, {})
           C == Held(b, c, {})
           R == Held(b, root, {a, c})
<1>1. Held(b, root, {}) = (A \union C) \union R
  BY BelowOrder DEF Held
<1>2. A \intersect C = {} /\ (A \union C) \intersect R = {}
  BY BelowOrder DEF Held
<1>3. /\ IsFiniteSet(A) /\ IsFiniteSet(C) /\ IsFiniteSet(R)
      /\ Cardinality(A) \in Nat /\ Cardinality(C) \in Nat /\ Cardinality(R) \in Nat
  BY HeldIsFinite
<1> HIDE DEF A, C, R
<1>4. IsFiniteSet(A \union C) /\ Cardinality(A \union C) = Cardinality(A) + Cardinality(C)
  BY <1>2, <1>3, DisjointSum
<1>5. Cardinality((A \union C) \union R) = Cardinality(A \union C) + Cardinality(R)
  BY <1>2, <1>3, <1>4, DisjointSum
<1>6. Cardinality(Held(b, root, {})) = Cardinality(A) + Cardinality(C) + Cardinality(R)
  BY <1>1, <1>3, <1>4, <1>5
<1> QED BY <1>6 DEF A, C, R

\* Where a scratch root can lie: in the run directory or nowhere, beside it in
\* the state root, or outside the state root, never above the run directory.
LEMMA RootCases ==
  ASSUME TypeInv, OwnInv, NEW r \in Runs
  PROVE  \/ /\ DynamicRoots(r) = {RunDir(r)}
            /\ DedupeRoots(BudgetRoots(r)) = {State}
         \/ /\ scratch[r] \in Dirs /\ scratch[r] # RunDir(r)
            /\ ~Below(scratch[r], RunDir(r)) /\ ~Below(RunDir(r), scratch[r])
            /\ DynamicRoots(r) = {RunDir(r), scratch[r]}
            /\ \/ Below(scratch[r], State) /\ DedupeRoots(BudgetRoots(r)) = {State}
               \/ /\ ~Below(scratch[r], State) /\ ~Below(State, scratch[r])
                  /\ scratch[r] # State
                  /\ DedupeRoots(BudgetRoots(r)) = {State, scratch[r]}
<1> DEFINE d == RunDir(r)
           s == scratch[r]
<1>1. /\ d \in Dirs /\ State \in Dirs /\ s \in Dirs \union {None}
      /\ Below(d, State) /\ ~Below(State, d) /\ d # State
      /\ Below(d, d) /\ Below(State, State)
  BY Layout, BelowOrder, TypeParts DEF TypeInv, RunTypes
<1>2. s # None => s = d \/ ~Below(d, s)
  BY DEF OwnInv, Owned, Kept, Occupied
<1> HIDE DEF d
<1>3. CASE s = None
  <2>1. ScratchOf(r) = {}
    BY <1>3 DEF ScratchOf
  <2> QED BY <2>1 DEF DynamicRoots, BudgetRoots, DedupeRoots, d
<1>4. CASE s # None
  <2>1. s \in Dirs /\ ScratchOf(r) = {s}
    BY <1>1, <1>4 DEF ScratchOf
  <2>2. Below(State, s) => Below(d, s)
    BY <1>1, <2>1, BelowOrder
  <2>3. DynamicRoots(r) = DedupeRoots({d, s}) /\ BudgetRoots(r) = {State, s}
    BY <2>1 DEF DynamicRoots, BudgetRoots, d
  <2>4. CASE Below(s, d)
    <3>1. DedupeRoots({d, s}) = {d}
      BY <1>1, <1>2, <1>4, <2>4 DEF DedupeRoots
    <3>2. Below(s, State) /\ s # State /\ ~Below(State, s)
      BY <1>1, <1>2, <1>4, <2>1, <2>2, <2>4, BelowOrder
    <3>3. DedupeRoots({State, s}) = {State}
      BY <3>2 DEF DedupeRoots
    <3> QED BY <2>3, <3>1, <3>3 DEF d
  <2>5. CASE ~Below(s, d)
    <3>1. s # d /\ ~Below(d, s)
      BY <1>1, <1>2, <1>4, <2>5
    <3>2. ~Below(State, s) /\ s # State
      BY <1>1, <2>2, <3>1
    <3>3. DedupeRoots({d, s}) = {d, s}
      BY <2>5, <3>1 DEF DedupeRoots
    <3>4. DedupeRoots({State, s}) = IF Below(s, State) THEN {State} ELSE {State, s}
      BY <3>2 DEF DedupeRoots
    <3> QED BY <2>1, <2>3, <2>5, <3>1, <3>2, <3>3, <3>4 DEF d
  <2> QED BY <2>4, <2>5
<1> QED BY <1>3, <1>4

\* Growth and history together are all generated state, each byte once.
LEMMA SizesAdd ==
  ASSUME TypeInv, OwnInv, NEW r \in Runs
  PROVE  /\ AggregateSize(BudgetRoots(r)) = DynamicBytes(r) + FixedBytes(r)
         /\ DynamicBytes(r) \in Nat /\ FixedBytes(r) \in Nat
<1> DEFINE d == RunDir(r)
           s == scratch[r]
           all == Cardinality(Held(bytes, State, {}))
           mine == Cardinality(Held(bytes, d, {}))
           its == Cardinality(Held(bytes, s, {}))
<1>1. d \in Dirs /\ State \in Dirs /\ Below(d, State)
  BY Layout
<1>2. all \in Nat /\ mine \in Nat /\ its \in Nat /\ Cardinality(Held(bytes, State, FixedRoots(r))) \in Nat
  BY HeldIsFinite
<1> HIDE DEF d, all, mine, its
<1>3. CASE DynamicRoots(r) = {d} /\ DedupeRoots(BudgetRoots(r)) = {State}
  <2>1. FixedRoots(r) = {d} /\ DedupeRoots(DynamicRoots(r)) = {d}
    BY <1>1, <1>3 DEF FixedRoots, DedupeRoots
  <2>2. all = mine + Cardinality(Held(bytes, State, {d}))
    BY <1>1, SplitByOne DEF all, mine
  <2>3. AggregateSize(BudgetRoots(r)) = all /\ DynamicBytes(r) = mine
    BY <1>3, <2>1, SizesMean, SumOfOne DEF all, mine
  <2> QED BY <1>2, <2>1, <2>2, <2>3, SizesMean
<1>4. ASSUME s \in Dirs, s # d, ~Below(s, d), ~Below(d, s), DynamicRoots(r) = {d, s}
      PROVE  DynamicBytes(r) = mine + its
  <2>1. DedupeRoots(DynamicRoots(r)) = {d, s}
    BY <1>4 DEF DedupeRoots
  <2>2. d # s
    BY <1>4
  <2>3. Cardinality(Charged(bytes, DynamicRoots(r))) = mine + its
    BY <2>1, <2>2, SumOfTwo DEF mine, its
  <2> QED BY <2>3, SizesMean
<1>5. CASE /\ s \in Dirs /\ s # d /\ ~Below(s, d) /\ ~Below(d, s) /\ DynamicRoots(r) = {d, s}
           /\ Below(s, State) /\ DedupeRoots(BudgetRoots(r)) = {State}
  <2>1. FixedRoots(r) = {d, s}
    BY <1>1, <1>5 DEF FixedRoots
  <2>2. all = mine + its + Cardinality(Held(bytes, State, {d, s}))
    BY <1>1, <1>5, SplitByTwo DEF all, mine, its
  <2>3. AggregateSize(BudgetRoots(r)) = all
    BY <1>5, SizesMean, SumOfOne DEF all
  <2> QED BY <1>2, <1>4, <1>5, <2>1, <2>2, <2>3, SizesMean
<1>6. CASE /\ s \in Dirs /\ s # d /\ ~Below(s, d) /\ ~Below(d, s) /\ DynamicRoots(r) = {d, s}
           /\ ~Below(s, State) /\ s # State /\ DedupeRoots(BudgetRoots(r)) = {State, s}
  <2>1. FixedRoots(r) = {d}
    BY <1>1, <1>6 DEF FixedRoots
  <2>2. all = mine + Cardinality(Held(bytes, State, {d}))
    BY <1>1, SplitByOne DEF all, mine
  <2>3. AggregateSize(BudgetRoots(r)) = all + its
    BY <1>6, SizesMean, SumOfTwo DEF all, its
  <2> QED BY <1>2, <1>4, <1>6, <2>1, <2>2, <2>3, SizesMean
<1> QED BY <1>3, <1>5, <1>6, RootCases DEF d

-----------------------------------------------------------------------------
(* Sizes before and after a step.                                          *)

LEMMA WatchedRootsAreDirs ==
  ASSUME TypeInv, NEW r \in Runs
  PROVE  /\ BudgetRoots(r) \subseteq Dirs /\ DynamicRoots(r) \subseteq Dirs
         /\ DedupeRoots(DynamicRoots(r)) = DynamicRoots(r)
<1>1. BudgetRoots(r) \subseteq Dirs /\ DynamicRoots(r) \subseteq Dirs
  BY Layout, TypeParts DEF TypeInv, RunTypes, BudgetRoots, DynamicRoots, ScratchOf, DedupeRoots
<1>2. DedupeRoots(DynamicRoots(r)) = DynamicRoots(r)
  BY DEF DynamicRoots, DedupeRoots
<1> QED BY <1>1, <1>2

\* Between b and c, d grew by n units, and nothing else changed.
Grown(b, c, d, n) ==
  /\ b \in [Dirs -> 0 .. MaxBytes] /\ c \in [Dirs -> 0 .. MaxBytes]
  /\ \A o \in Dirs : o # d => c[o] = b[o]
  /\ c[d] = b[d] + n

\* What n units more in d add to what a root holds.
LEMMA HeldGrows ==
  ASSUME NEW d \in Dirs, NEW n \in Nat, NEW b, NEW c, Grown(b, c, d, n), NEW root \in Dirs
  PROVE  Held(c, root, {}) =
           Held(b, root, {}) \union (IF Below(d, root) THEN {d} \X (b[d] + 1 .. c[d]) ELSE {})
<1>1. \A o \in Dirs : o # d => c[o] = b[o]
  BY DEF Grown
<1>2. c[d] = b[d] + n /\ b[d] \in Nat /\ c[d] \in Nat /\ c[d] <= MaxBytes /\ MaxBytes \in Nat
  BY LaunchAssumption DEF Grown
<1> DEFINE more == IF Below(d, root) THEN {d} \X (b[d] + 1 .. c[d]) ELSE {}
<1>3. ASSUME NEW u \in Held(c, root, {}) PROVE u \in Held(b, root, {}) \union more
  <2>1. u \in Dirs \X (1 .. MaxBytes) /\ u[2] <= c[u[1]] /\ Below(u[1], root)
    BY DEF Held
  <2>2. CASE u[1] # d
    BY <1>1, <2>1, <2>2 DEF Held
  <2>3. CASE u[1] = d
    <3>1. u[2] <= b[d] \/ u[2] \in b[d] + 1 .. c[d]
      BY <1>2, <2>1, <2>3
    <3>2. u[2] \in b[d] + 1 .. c[d] => u \in more
      BY <2>1, <2>3
    <3>3. u[2] <= b[d] => u \in Held(b, root, {})
      BY <2>1, <2>3 DEF Held
    <3> QED BY <3>1, <3>2, <3>3
  <2> QED BY <2>2, <2>3
<1>4. ASSUME NEW u \in Held(b, root, {}) PROVE u \in Held(c, root, {})
  <2>1. u \in Dirs \X (1 .. MaxBytes) /\ u[2] <= b[u[1]] /\ Below(u[1], root)
    BY DEF Held
  <2>2. u[2] <= c[u[1]]
    BY <1>1, <1>2, <2>1
  <2> QED BY <2>1, <2>2 DEF Held
<1>5. ASSUME NEW u \in more PROVE u \in Held(c, root, {})
  <2>1. Below(d, root) /\ u \in {d} \X (b[d] + 1 .. c[d])
    BY <1>5
  <2>2. u \in Dirs \X (1 .. MaxBytes) /\ u[1] = d /\ u[2] <= c[d]
    BY <1>2, <2>1
  <2> QED BY <2>1, <2>2 DEF Held
<1> QED BY <1>3, <1>4, <1>5

\* They are charged once, if at all: no root contains another one.
LEMMA GrowthIsCharged ==
  ASSUME NEW roots, roots \subseteq Dirs, NEW d \in Dirs, NEW n \in Nat,
         NEW b, NEW c, Grown(b, c, d, n)
  PROVE  /\ (\E root \in DedupeRoots(roots) : Below(d, root)) =>
              Cardinality(Charged(c, roots)) = Cardinality(Charged(b, roots)) + n
         /\ (\A root \in DedupeRoots(roots) : ~Below(d, root)) => Charged(c, roots) = Charged(b, roots)
<1> DEFINE more == {d} \X (b[d] + 1 .. c[d])
<1>1. DedupeRoots(roots) \subseteq Dirs
  BY DEF DedupeRoots
<1>2. ASSUME NEW root \in DedupeRoots(roots)
      PROVE  Held(c, root, {}) = IF Below(d, root) THEN Held(b, root, {}) \union more ELSE Held(b, root, {})
  <2>1. Held(c, root, {}) = Held(b, root, {}) \union (IF Below(d, root) THEN more ELSE {})
    BY <1>1, HeldGrows
  <2> QED BY <2>1
<1>3. c[d] = b[d] + n /\ b[d] \in Nat
  BY LaunchAssumption DEF Grown
<1>4. IsFiniteSet(more) /\ Cardinality(more) = n
  <2>1. IsFiniteSet(b[d] + 1 .. c[d]) /\ Cardinality(b[d] + 1 .. c[d]) = n
    <3>1. b[d] + 1 \in Int /\ c[d] \in Int
      BY <1>3
    <3>2. /\ IsFiniteSet(b[d] + 1 .. c[d])
          /\ Cardinality(b[d] + 1 .. c[d]) = IF b[d] + 1 > c[d] THEN 0 ELSE c[d] - (b[d] + 1) + 1
      BY <3>1, FS_Interval
    <3> QED BY <1>3, <3>2
  <2> QED BY <2>1, TaggedSize
<1>5. \A root : Held(b, root, {}) \intersect more = {}
  <2>1. ASSUME NEW root, NEW u \in Held(b, root, {}), u \in more PROVE FALSE
    <3>1. u[2] <= b[d] /\ u[2] \in b[d] + 1 .. c[d]
      BY <2>1 DEF Held
    <3> QED BY <1>3, <3>1
  <2> QED BY <2>1
<1> HIDE DEF more
<1>6. ASSUME \A root \in DedupeRoots(roots) : ~Below(d, root) PROVE Charged(c, roots) = Charged(b, roots)
  <2>1. \A root \in DedupeRoots(roots) : Held(c, root, {}) = Held(b, root, {})
    BY <1>2, <1>6
  <2> QED BY <2>1 DEF Charged
<1>7. ASSUME NEW r \in DedupeRoots(roots), Below(d, r)
      PROVE  Cardinality(Charged(c, roots)) = Cardinality(Charged(b, roots)) + n
  <2>1. ASSUME NEW root \in DedupeRoots(roots), Below(d, root) PROVE root = r
    <3>1. Below(root, r) \/ Below(r, root)
      BY <1>1, <1>7, <2>1, BelowOrder
    <3> QED BY <1>7, <2>1, <3>1 DEF DedupeRoots
  <2>2. Charged(c, roots) = Charged(b, roots) \union ({r} \X more)
    <3>1. ASSUME NEW x \in Charged(c, roots) PROVE x \in Charged(b, roots) \union ({r} \X more)
      <4>1. PICK root \in DedupeRoots(roots) : x \in {root} \X Held(c, root, {})
        BY DEF Charged
      <4>2. x \in {root} \X Held(b, root, {}) \/ (root = r /\ x \in {root} \X more)
        BY <1>2, <2>1, <4>1
      <4> QED BY <4>2 DEF Charged
    <3>2. ASSUME NEW x \in Charged(b, roots) PROVE x \in Charged(c, roots)
      <4>1. PICK root \in DedupeRoots(roots) : x \in {root} \X Held(b, root, {})
        BY DEF Charged
      <4>2. x \in {root} \X Held(c, root, {})
        BY <1>2, <4>1
      <4> QED BY <4>2 DEF Charged
    <3>3. ASSUME NEW x \in {r} \X more PROVE x \in Charged(c, roots)
      <4>1. x \in {r} \X Held(c, r, {})
        BY <1>2, <1>7
      <4> QED BY <1>7, <4>1 DEF Charged
    <3> QED BY <3>1, <3>2, <3>3
  <2>3. Charged(b, roots) \intersect ({r} \X more) = {}
    BY <1>5 DEF Charged
  <2>4. IsFiniteSet(Charged(b, roots))
    BY ChargedIsFinite
  <2>5. IsFiniteSet({r} \X more) /\ Cardinality({r} \X more) = n
    BY <1>4, TaggedSize
  <2> QED BY <2>2, <2>3, <2>4, <2>5, DisjointSum
<1> QED BY <1>6, <1>7

LEMMA LossIsCredited ==
  ASSUME NEW roots, roots \subseteq Dirs,
         NEW b \in [Dirs -> 0 .. MaxBytes], NEW c \in [Dirs -> 0 .. MaxBytes],
         \A d \in Dirs : c[d] <= b[d]
  PROVE  Cardinality(Charged(c, roots)) <= Cardinality(Charged(b, roots))
<1>1. \A d \in Dirs : \A n \in 1 .. MaxBytes : n <= c[d] => n <= b[d]
  BY LaunchAssumption
<1>2. \A root : Held(c, root, {}) \subseteq Held(b, root, {})
  BY <1>1 DEF Held
<1>3. Charged(c, roots) \subseteq Charged(b, roots)
  BY <1>2 DEF Charged
<1> QED BY <1>3, ChargedIsFinite, FS_Subset

LEMMA PutGrows ==
  ASSUME TypeInv, TreeTypes', NEW d \in Dirs, NEW n \in Nat, Put(d, n)
  PROVE  Grown(bytes, bytes', d, n)
<1>1. bytes \in [Dirs -> 0 .. MaxBytes] /\ bytes' \in [Dirs -> 0 .. MaxBytes]
  BY TypeParts DEF TypeInv, TreeTypes
<1>2. bytes' = [bytes EXCEPT ![d] = @ + n]
  BY DEF Put
<1>3. bytes'[d] = bytes[d] + n /\ \A o \in Dirs : o # d => bytes'[o] = bytes[o]
  BY <1>1, <1>2
<1> QED BY <1>1, <1>3 DEF Grown

\* What a step that puts n units into d does to the sum over some roots.
LEMMA PutIsCharged ==
  ASSUME TypeInv, TreeTypes', NEW d \in Dirs, NEW n \in Nat, Put(d, n), NEW roots, roots \subseteq Dirs
  PROVE  Cardinality(Charged(bytes', roots)) \in
           {Cardinality(Charged(bytes, roots)), Cardinality(Charged(bytes, roots)) + n}
<1>1. Grown(bytes, bytes', d, n)
  BY PutGrows
<1> QED BY <1>1, GrowthIsCharged

\* What a step that removes a unit from d does to what a watchdog walks over.
LEMMA LossIsWatched ==
  ASSUME TypeInv, TreeTypes', NEW d \in Dirs, bytes' = [bytes EXCEPT ![d] = @ - 1], NEW r \in Runs
  PROVE  LET mine(b) == Cardinality(Charged(b, DynamicRoots(r)))
         IN mine(bytes) = IF \E root \in DynamicRoots(r) : Below(d, root)
                          THEN mine(bytes') + 1 ELSE mine(bytes')
<1>1. bytes \in [Dirs -> 0 .. MaxBytes] /\ bytes' \in [Dirs -> 0 .. MaxBytes]
  BY TypeParts DEF TypeInv, TreeTypes
<1>2. bytes[d] = bytes'[d] + 1 /\ \A o \in Dirs : o # d => bytes[o] = bytes'[o]
  BY <1>1, LaunchAssumption
<1>3. Grown(bytes', bytes, d, 1)
  BY <1>1, <1>2 DEF Grown
<1> QED BY <1>3, WatchedRootsAreDirs, GrowthIsCharged

-----------------------------------------------------------------------------
(* The budget.                                                             *)

\* Somebody adds n units to d, and r is told of it; r itself only to its log or
\* its scratch root.
AddsBeside(r) ==
  \E q \in Runs, d \in Dirs, n \in Nat :
    /\ Put(d, n)
    /\ q # r => /\ scope'[r] = scope[r]
                /\ r \in Moved(q, d, n) => r \in moved'
                /\ r \in Crowded(q, d, n) => r \in crowded'
    /\ q = r => /\ n = 1 /\ pc[r] = "running" /\ d \in {RunDir(r), scratch[r]}
                /\ \/ d = RunDir(r) /\ scope'[r] = [scope[r] EXCEPT !.logs = @ + 1]
                   \/ scope'[r] = [scope[r] EXCEPT !.wrote = TRUE]

\* Somebody's worker removes a unit from d, and r is told of it.
DeletesBeside(r) ==
  \E q \in Runs, d \in Dirs :
    /\ pc[q] = "running" /\ d = scratch[q]
    /\ bytes[d] > 0 /\ bytes' = [bytes EXCEPT ![d] = @ - 1]
    /\ scope'[r] = IF r \in Watching(d) THEN [scope[r] EXCEPT !.removed = @ + 1] ELSE scope[r]
    /\ r \in Moved(q, d, 1) => r \in moved'

\* What can happen around a run that waits for its worker, or has one.
StaysWatched(r) ==
  /\ pc'[r] = pc[r] /\ scratch'[r] = scratch[r] /\ room'[r] = room[r] /\ saved'[r] = saved[r]
  /\ (r \in moved => r \in moved') /\ (r \in crowded => r \in crowded')
  /\ \/ UNCHANGED bytes /\ scope'[r] = scope[r]
     \/ AddsBeside(r)
     \/ DeletesBeside(r)
     \/ Sample(r)
     \/ \E q \in Runs : Repeat(q) /\ scope'[r] = scope[r]

LEMMA WatchedCases ==
  ASSUME TypeInv, [Next]_vars, NEW r \in Runs, pc'[r] \in {"scope", "running"}
  PROVE  \/ Scope(r) /\ pc'[r] = "running"
         \/ Preflight(r) /\ pc'[r] = "scope"
         \/ StaysWatched(r)
<1>1. RunTypes /\ ScopeTypes /\ AdmissionTypes /\ DOMAIN scope = Runs
  BY TypeParts DEF TypeInv
<1> USE DEF Goto
<1>2. ASSUME NEW q \in Runs,
             \/ Refuse(q) \/ Begin(q) \/ Look(q) \/ Make(q) \/ List(q) \/ Claim(q) \/ Create(q)
             \/ Fill(q) \/ Resume(q) \/ Die(q),
             q # r
      PROVE  StaysWatched(r)
  <2>1. pc'[r] = pc[r]
    <3>1. \E step : pc' = [pc EXCEPT ![q] = step]
      BY <1>2 DEF Refuse, Begin, Look, Make, List, Claim, Create, Fill, Resume, Die
    <3> QED BY <1>1, <1>2, <3>1 DEF RunTypes
  <2>2. scratch'[r] = scratch[r]
    <3>1. scratch' = scratch \/ \E o : scratch' = [scratch EXCEPT ![q] = o]
      BY <1>2 DEF Refuse, Begin, Look, Make, List, Claim, Create, Fill, Resume, Die
    <3> QED BY <1>1, <1>2, <3>1 DEF RunTypes
  <2>3. UNCHANGED <<bytes, scope>>
    BY <1>2 DEF Refuse, Begin, Look, Make, List, Claim, Create, Fill, Resume, Die, tree
  <2>4. UNCHANGED <<moved, crowded, room, saved>>
    BY <1>2 DEF Refuse, Begin, Look, Make, List, Claim, Create, Fill, Resume, Die, history, admission
  <2> QED BY <2>1, <2>2, <2>3, <2>4 DEF StaysWatched
\* Another run's manager saves its own files.
<1>3. ASSUME NEW q \in Runs, Policy(q) \/ Preflight(q) \/ Scope(q) \/ End(q), q # r
      PROVE  StaysWatched(r)
  <2>1. pc'[r] = pc[r] /\ scratch'[r] = scratch[r]
    BY <1>1, <1>3, SaveCases, SaveMoves DEF RunTypes
  <2>2. scope'[r] = scope[r]
    <3>1. scope' = scope \/ \E o : scope' = [scope EXCEPT ![q] = o]
      BY <1>3 DEF Policy, Preflight, Scope, End
    <3> QED BY <1>1, <1>3, <3>1
  <2>3. room'[r] = room[r] /\ saved'[r] = saved[r]
    <3>1. room' = room \/ \E o : room' = [room EXCEPT ![q] = o]
      BY <1>3 DEF Policy, Preflight, Scope, End, admission
    <3>2. saved' = saved \/ \E o : saved' = [saved EXCEPT ![q] = o]
      BY <1>3 DEF Policy, Preflight, Scope, End, admission
    <3> QED BY <1>1, <1>3, <3>1, <3>2 DEF AdmissionTypes
  <2>4. CASE UNCHANGED <<bytes, moved, crowded>>
    BY <2>1, <2>2, <2>3, <2>4 DEF StaysWatched
  <2>5. ASSUME NEW n \in Nat, Saves(q, n) PROVE StaysWatched(r)
    <3>1. /\ r \in moved \/ r \in Moved(q, RunDir(q), n) => r \in moved'
          /\ r \in crowded \/ r \in Crowded(q, RunDir(q), n) => r \in crowded'
      BY <1>3, <2>5 DEF Saves
    <3>2. Put(RunDir(q), n) /\ RunDir(q) \in Dirs
      BY <2>5, Layout DEF Saves
    <3>3. AddsBeside(r)
      BY <1>3, <2>2, <3>1, <3>2 DEF AddsBeside
    <3> QED BY <2>1, <2>3, <3>1, <3>3 DEF StaysWatched
  <2> QED BY <1>3, <2>4, <2>5, SaveCases
<1>4. ASSUME \/ Refuse(r) \/ Begin(r) \/ Look(r) \/ Make(r) \/ List(r) \/ Claim(r) \/ Create(r)
             \/ Fill(r) \/ Policy(r) \/ End(r) \/ Resume(r) \/ Die(r) \/ Repeat(r)
      PROVE  FALSE
  <2>1. \E step : pc' = [pc EXCEPT ![r] = step] /\ step \notin {"scope", "running"}
    <3>1. CASE Refuse(r) \/ Begin(r) \/ Make(r) \/ List(r) \/ Create(r) \/ Fill(r)
      BY <3>1 DEF Refuse, Begin, Make, List, Create, Fill
    <3>2. CASE Look(r)
      <4>1. \E step \in {"refused", "list", "make"} : pc' = [pc EXCEPT ![r] = step]
        BY <3>2 DEF Look
      <4> QED BY <4>1
    <3>3. CASE Claim(r) \/ End(r) \/ Resume(r) \/ Die(r) \/ Repeat(r)
      BY <3>3 DEF Claim, End, Resume, Die, Repeat
    <3>4. CASE Policy(r)
      BY <3>4 DEF Policy
    <3> QED BY <1>4, <3>1, <3>2, <3>3, <3>4
  <2> QED BY <1>1, <2>1 DEF RunTypes
<1>5. ASSUME Scope(r) PROVE pc'[r] = "running"
  <2>1. \E step \in {"ended", "running"} : pc' = [pc EXCEPT ![r] = step]
    BY <1>5 DEF Scope
  <2> QED BY <1>1, <2>1 DEF RunTypes
<1>6. ASSUME Preflight(r) PROVE pc'[r] = "scope"
  <2>1. \E step \in {"ended", "refused", "scope"} : pc' = [pc EXCEPT ![r] = step]
    BY <1>6 DEF Preflight
  <2> QED BY <1>1, <2>1 DEF RunTypes
<1>7. ASSUME NEW q \in Runs, Log(q) \/ Write(q) PROVE StaysWatched(r)
  <2>1. pc[q] = "running" /\ UNCHANGED <<pc, scratch, room, saved>>
    BY <1>7 DEF Log, Write, Grow
  <2>2. PICK d \in Dirs :
          /\ Grow(q, d) /\ d \in {RunDir(q), scratch[q]}
          /\ \/ d = RunDir(q) /\ scope' = [scope EXCEPT ![q].logs = @ + 1]
             \/ scope' = [scope EXCEPT ![q].wrote = TRUE]
    BY <1>1, <1>7, Layout DEF Log, Write, RunTypes
  <2>3. /\ Put(d, 1) /\ 1 \in Nat
        /\ r \in moved \/ r \in Moved(q, d, 1) => r \in moved'
        /\ r \in crowded \/ r \in Crowded(q, d, 1) => r \in crowded'
    BY <2>2 DEF Grow
  <2>4. IF q # r THEN scope'[r] = scope[r]
        ELSE \/ d = RunDir(r) /\ scope'[r] = [scope[r] EXCEPT !.logs = @ + 1]
             \/ scope'[r] = [scope[r] EXCEPT !.wrote = TRUE]
    BY <1>1, <2>2
  <2>5. AddsBeside(r)
    BY <2>1, <2>2, <2>3, <2>4 DEF AddsBeside
  <2> QED BY <2>1, <2>3, <2>5 DEF StaysWatched
<1>8. ASSUME NEW q \in Runs, Delete(q) PROVE StaysWatched(r)
  <2>1. UNCHANGED <<pc, scratch, room, saved, crowded>> /\ (r \in moved => r \in moved')
    BY <1>8 DEF Delete, admission
  <2>2. DeletesBeside(r)
    BY <1>1, <1>8 DEF Delete, DeletesBeside, RunTypes
  <2> QED BY <2>1, <2>2 DEF StaysWatched
<1>9. ASSUME NEW q \in Runs, Sample(q) PROVE StaysWatched(r)
  <2>1. UNCHANGED <<pc, scratch, bytes, room, saved, crowded, moved>>
    BY <1>9 DEF Sample, tree, history, admission
  <2>2. q # r => scope'[r] = scope[r]
    BY <1>1, <1>9 DEF Sample
  <2> QED BY <1>9, <2>1, <2>2 DEF StaysWatched
<1>10. ASSUME NEW q \in Runs, Repeat(q), q # r PROVE StaysWatched(r)
  <2>1. /\ pc'[r] = pc[r] /\ scratch'[r] = scratch[r] /\ scope'[r] = scope[r]
        /\ UNCHANGED <<crowded, room, saved>> /\ (r \in moved => r \in moved')
    BY <1>1, <1>10 DEF Repeat, RunTypes, admission
  <2> QED BY <1>10, <2>1 DEF StaysWatched
<1>11. ASSUME UNCHANGED vars PROVE StaysWatched(r)
  BY <1>11 DEF vars, tree, history, admission, StaysWatched
<1> QED BY <1>2, <1>3, <1>4, <1>5, <1>6, <1>7, <1>8, <1>9, <1>10, <1>11, StepCases

\* What lies in the state root and is watched lies in a watched root of it.
LEMMA WatchedInState ==
  ASSUME TypeInv, OwnInv, NEW r \in Runs, NEW d \in Dirs, NEW root \in DynamicRoots(r),
         Below(d, root), Below(d, State)
  PROVE  root \in FixedRoots(r)
<1>1. RunDir(r) \in Dirs /\ State \in Dirs /\ Below(RunDir(r), State)
  BY Layout
<1>2. CASE root = RunDir(r)
  BY <1>1, <1>2 DEF FixedRoots
<1>3. CASE root # RunDir(r)
  <2>1. root = scratch[r] /\ root \in Dirs /\ (Below(root, State) \/ ~Below(State, root))
    BY <1>3, RootCases
  <2>2. Below(root, State) \/ Below(State, root)
    BY <1>1, <2>1, BelowOrder
  <2> QED BY <2>1, <2>2 DEF FixedRoots
<1> QED BY <1>2, <1>3

\* What a run does in its own directories, and what others do that tell it of
\* what they do elsewhere in the state root, is not history to it.
LEMMA HistoryStays ==
  ASSUME TypeInv, OwnInv, NEW r \in Runs, NEW q \in Runs, NEW d \in Dirs, NEW n \in Nat,
         \A o \in Dirs : o # d => bytes'[o] = bytes[o],
         n = 0 => bytes'[d] = bytes[d],
         q = r => d \in {RunDir(r), scratch[r]},
         q # r => pc[r] = "running" /\ r \notin Moved(q, d, n)
  PROVE  Held(bytes', State, FixedRoots(r)) = Held(bytes, State, FixedRoots(r))
<1>1. CASE n = 0
  BY <1>1 DEF Held
<1>2. CASE n # 0
  <2>1. d # None /\ n > 0
    BY <1>2, LaunchAssumption
  <2>2. Below(d, State) => \E root \in DynamicRoots(r) : Below(d, root)
    <3>1. CASE q = r
      BY <2>1, <3>1, DynamicRootsCover
    <3>2. CASE q # r
      BY <2>1, <3>2 DEF Moved, Crowded, BudgetRoots
    <3> QED BY <3>1, <3>2
  <2>3. Below(d, State) => \E root \in FixedRoots(r) : Below(d, root)
    BY <2>2, WatchedInState
  <2> QED BY <2>3 DEF Held
<1> QED BY <1>1, <1>2

\* The threshold of a worker is what its limit leaves after its history, and its
\* watchdog found what is there or was removed.
BudgetInv ==
  \A r \in Runs : pc[r] = "running" /\ r \notin moved =>
    /\ scope[r].threshold = StopThreshold(req[r].limit) - FixedBytes(r)
    /\ scope[r].exceeded => DynamicBytes(r) + scope[r].removed >= scope[r].threshold

LEMMA NextBudgetInv ==
  ASSUME TypeInv, OwnInv, BudgetInv, [Next]_vars
  PROVE  BudgetInv'
<1>1. req' = req
  BY StepMoves
<1>2. \A r \in Runs : StopThreshold(req[r].limit)' = StopThreshold(req[r].limit)
  BY <1>1 DEF StopThreshold
<1> SUFFICES ASSUME NEW r \in Runs, pc'[r] = "running", r \notin moved'
             PROVE  /\ scope'[r].threshold = StopThreshold(req[r].limit) - FixedBytes(r)'
                    /\ scope'[r].exceeded =>
                         DynamicBytes(r)' + scope'[r].removed >= scope'[r].threshold
  BY <1>2 DEF BudgetInv
<1> DEFINE mine(b) == Cardinality(Charged(b, DynamicRoots(r)))
           old(b) == Cardinality(Held(b, State, FixedRoots(r)))
           Goal == /\ scope'[r].threshold = StopThreshold(req[r].limit) - old(bytes')
                   /\ scope'[r].exceeded => mine(bytes') + scope'[r].removed >= scope'[r].threshold
<1>3. FixedBytes(r) = old(bytes) /\ DynamicBytes(r) = mine(bytes)
  BY SizesMean
<1>4. scratch'[r] = scratch[r] => FixedBytes(r)' = old(bytes') /\ DynamicBytes(r)' = mine(bytes')
  BY NextSizesMean
<1>5. /\ TreeTypes' /\ RunTypes /\ ScopeTypes /\ DOMAIN scope = Runs
      /\ bytes \in [Dirs -> 0 .. MaxBytes] /\ bytes' \in [Dirs -> 0 .. MaxBytes]
  BY NextTreeTypes, TypeParts DEF TypeInv, TreeTypes
<1>6. DynamicRoots(r) \subseteq Dirs /\ \A b : mine(b) \in Nat
  BY WatchedRootsAreDirs, ChargedIsFinite
<1> HIDE DEF mine, old
<1>7. CASE Scope(r)
  <2>1. scratch' = scratch /\ pc[r] = "scope"
    BY <1>7 DEF Scope
  <2>2. /\ scope'[r].threshold = StopThreshold(req[r].limit) - FixedBytes(r)
        /\ scope'[r].exceeded = FALSE
    BY <1>5, <1>7 DEF Scope, Goto, RunTypes
  <2>3. UNCHANGED bytes \/ \E n \in Nat : Put(RunDir(r), n)
    BY <1>7, SaveCases DEF Saves
  <2>4. ASSUME NEW n \in Nat, Put(RunDir(r), n) PROVE old(bytes') = old(bytes)
    <3>1. RunDir(r) \in Dirs
      BY Layout
    <3>2. /\ \A o \in Dirs : o # RunDir(r) => bytes'[o] = bytes[o]
          /\ n = 0 => bytes'[RunDir(r)] = bytes[RunDir(r)]
      BY <1>5, <2>4, <3>1 DEF Put
    <3> QED BY <3>1, <3>2, HistoryStays DEF old
  <2>5. old(bytes') = old(bytes)
    BY <2>3, <2>4
  <2> QED BY <1>3, <1>4, <2>1, <2>2, <2>5
<1>8. ASSUME StaysWatched(r) PROVE Goal
  <2>1. pc[r] = "running" /\ scratch'[r] = scratch[r] /\ r \notin moved
    BY <1>8 DEF StaysWatched
  <2>2. scope[r] \in Scopes(req[r])
    BY <1>5, <2>1 DEF ScopeTypes
  <2>3. /\ scope[r].threshold = StopThreshold(req[r].limit) - old(bytes)
        /\ scope[r].exceeded => mine(bytes) + scope[r].removed >= scope[r].threshold
    BY <1>3, <2>1 DEF BudgetInv
  <2>4. scope[r].removed \in Nat /\ scope[r].threshold \in Nat
    BY <2>2, LaunchAssumption DEF Scopes
  <2>5. CASE UNCHANGED bytes /\ scope'[r] = scope[r]
    BY <2>3, <2>5
  <2>6. CASE AddsBeside(r)
    <3>1. PICK q \in Runs, d \in Dirs, n \in Nat :
            /\ Put(d, n)
            /\ q # r => scope'[r] = scope[r] /\ (r \in Moved(q, d, n) => r \in moved')
            /\ q = r => /\ d \in {RunDir(r), scratch[r]}
                        /\ \/ scope'[r] = [scope[r] EXCEPT !.logs = @ + 1]
                           \/ scope'[r] = [scope[r] EXCEPT !.wrote = TRUE]
      BY <2>6 DEF AddsBeside
    <3>2. /\ \A o \in Dirs : o # d => bytes'[o] = bytes[o]
          /\ n = 0 => bytes'[d] = bytes[d]
      BY <1>5, <3>1 DEF Put
    <3>3. old(bytes') = old(bytes)
      BY <2>1, <3>1, <3>2, HistoryStays DEF old
    <3>4. mine(bytes') \in {mine(bytes), mine(bytes) + n}
      BY <1>5, <1>6, <3>1, PutIsCharged DEF mine
    <3>5. /\ scope'[r].threshold = scope[r].threshold /\ scope'[r].removed = scope[r].removed
          /\ scope'[r].exceeded = scope[r].exceeded
      BY <2>2, <3>1 DEF Scopes
    <3> QED BY <1>6, <2>3, <2>4, <3>3, <3>4, <3>5
  <2>7. CASE DeletesBeside(r)
    <3>1. PICK q \in Runs, d \in Dirs :
            /\ d = scratch[q] /\ bytes' = [bytes EXCEPT ![d] = @ - 1]
            /\ scope'[r] = IF r \in Watching(d) THEN [scope[r] EXCEPT !.removed = @ + 1] ELSE scope[r]
            /\ r \in Moved(q, d, 1) => r \in moved'
      BY <2>7 DEF DeletesBeside
    <3>2. \A o \in Dirs : o # d => bytes'[o] = bytes[o]
      BY <1>5, <3>1
    <3>3. old(bytes') = old(bytes)
      <4>1. q = r => d \in {RunDir(r), scratch[r]}
        BY <3>1
      <4>2. q # r => pc[r] = "running" /\ r \notin Moved(q, d, 1)
        BY <2>1, <3>1
      <4>3. 1 \in Nat /\ (1 = 0 => bytes'[d] = bytes[d])
        OBVIOUS
      <4>4. Held(bytes', State, FixedRoots(r)) = Held(bytes, State, FixedRoots(r))
        BY <3>2, <4>1, <4>2, <4>3, HistoryStays
      <4> QED BY <4>4 DEF old
    <3>4. mine(bytes) = IF r \in Watching(d) THEN mine(bytes') + 1 ELSE mine(bytes')
      BY <1>5, <2>1, <3>1, LossIsWatched DEF mine, Watching
    <3>5. /\ scope'[r].threshold = scope[r].threshold /\ scope'[r].exceeded = scope[r].exceeded
          /\ scope'[r].removed = IF r \in Watching(d) THEN scope[r].removed + 1 ELSE scope[r].removed
      BY <2>2, <3>1 DEF Scopes
    <3>6. mine(bytes) + scope[r].removed = mine(bytes') + scope'[r].removed
      BY <1>6, <2>4, <3>4, <3>5
    <3> QED BY <2>3, <3>3, <3>5, <3>6
  <2>8. CASE Sample(r)
    <3>1. /\ bytes' = bytes /\ scope'[r] = [scope[r] EXCEPT !.exceeded = TRUE]
          /\ mine(bytes) + scope[r].removed >= scope[r].threshold
      BY <1>3, <1>5, <2>8 DEF Sample, tree
    <3>2. scope'[r].threshold = scope[r].threshold /\ scope'[r].removed = scope[r].removed
      BY <2>2, <3>1 DEF Scopes
    <3> QED BY <2>3, <3>1, <3>2
  <2>9. ASSUME NEW q \in Runs, Repeat(q) PROVE FALSE
    BY <2>1, <2>9 DEF Repeat
  <2> QED BY <1>8, <2>5, <2>6, <2>7, <2>8, <2>9 DEF StaysWatched
<1>9. StaysWatched(r) => scratch'[r] = scratch[r]
  BY DEF StaysWatched
<1> QED BY <1>4, <1>7, <1>8, <1>9, WatchedCases

LEMMA EndsByEnd ==
  ASSUME TypeInv, [Next]_vars, NEW r \in Runs, Ends(r)
  PROVE  \E well \in BOOLEAN : result'[r] = Verdict(r, well)
<1>1. RunTypes
  BY TypeParts DEF TypeInv
<1>2. pc[r] = "running" /\ pc'[r] = "ended"
  BY DEF Ends
<1>3. CASE End(r)
  BY <1>1, <1>3 DEF End, RunTypes
<1>4. ASSUME NEW q \in Runs,
             \/ Refuse(q) \/ Begin(q) \/ Look(q) \/ Make(q) \/ List(q) \/ Claim(q) \/ Create(q)
             \/ Fill(q) \/ Policy(q) \/ Preflight(q) \/ Scope(q) \/ Resume(q) \/ Die(q) \/ Repeat(q)
      PROVE  FALSE
  <2>1. pc[q] # "running"
    BY <1>4 DEF Refuse, Begin, Look, Make, List, Claim, Create, Fill, Policy, Preflight, Scope,
                Resume, Die, Repeat, Resolving
  <2>2. \E step : pc' = [pc EXCEPT ![q] = step]
    <3>1. CASE Policy(q) \/ Preflight(q) \/ Scope(q)
      BY <3>1, SaveMoves
    <3>2. CASE \/ Refuse(q) \/ Begin(q) \/ Look(q) \/ Make(q) \/ List(q) \/ Claim(q) \/ Create(q)
               \/ Fill(q) \/ Resume(q) \/ Die(q) \/ Repeat(q)
      BY <3>2 DEF Refuse, Begin, Look, Make, List, Claim, Create, Fill, Resume, Die, Repeat, Goto
    <3> QED BY <1>4, <3>1, <3>2
  <2> QED BY <1>1, <1>2, <2>1, <2>2 DEF RunTypes
<1>5. ASSUME NEW q \in Runs, End(q), q # r PROVE FALSE
  BY <1>1, <1>2, <1>5 DEF End, Goto, RunTypes
<1>6. ASSUME NEW q \in Runs, Log(q) \/ Write(q) \/ Delete(q) \/ Sample(q) PROVE FALSE
  BY <1>2, <1>6 DEF Log, Write, Grow, Delete, Sample
<1>7. ASSUME UNCHANGED vars PROVE FALSE
  BY <1>2, <1>7 DEF vars
<1> QED BY <1>3, <1>4, <1>5, <1>6, <1>7, StepCases

\* The verdict on the budget is about all generated state, wherever the scratch
\* root lies, at the end of the attempt or when its watchdog walked, unless other
\* runs changed what it took for history (execution_watch_scope, ScratchWatchdog,
\* execute_attempt).
THEOREM BudgetVerdictsAreTrue == Spec => BudgetVerdictIsTrue
<1>1. Init => BudgetInv
  BY DEF Init, BudgetInv
<1>2. TypeInv /\ [Next]_vars => TypeInv'
  BY NextTypeInv
<1>3. TypeInv /\ OwnInv /\ [Next]_vars => OwnInv'
  BY NextOwnInv
<1>4. TypeInv /\ OwnInv /\ BudgetInv /\ [Next]_vars => BudgetInv'
  BY NextBudgetInv
<1> DEFINE Truthful ==
      \A r \in Runs : Ends(r) /\ r \notin moved =>
        LET total == AggregateSize(BudgetRoots(r))
            limit == StopThreshold(req[r].limit)
        IN /\ total >= limit => result'[r] = "budget"
           /\ result'[r] = "budget" =>
                \/ total >= limit
                \/ scope[r].exceeded /\ total + scope[r].removed >= limit
<1>5. ASSUME TypeInv, OwnInv, BudgetInv, [Next]_vars PROVE Truthful
  <2> SUFFICES ASSUME NEW r \in Runs, Ends(r), r \notin moved
               PROVE  LET total == AggregateSize(BudgetRoots(r))
                          limit == StopThreshold(req[r].limit)
                      IN /\ total >= limit => result'[r] = "budget"
                         /\ result'[r] = "budget" =>
                              \/ total >= limit
                              \/ scope[r].exceeded /\ total + scope[r].removed >= limit
    OBVIOUS
  <2>1. PICK well \in BOOLEAN : result'[r] = Verdict(r, well)
    BY <1>5, EndsByEnd
  <2>2. result'[r] = "budget" <=> scope[r].exceeded \/ DynamicBytes(r) >= scope[r].threshold
    BY <2>1 DEF Verdict, OverBudget
  <2>3. pc[r] = "running" /\ req[r].limit \in Nat
    BY <1>5, TargetIsDir DEF Ends, TypeInv, Requested
  <2>4. /\ scope[r].threshold = StopThreshold(req[r].limit) - FixedBytes(r)
        /\ scope[r].exceeded => DynamicBytes(r) + scope[r].removed >= scope[r].threshold
    BY <1>5, <2>3 DEF BudgetInv
  <2>5. /\ AggregateSize(BudgetRoots(r)) = DynamicBytes(r) + FixedBytes(r)
        /\ DynamicBytes(r) \in Nat /\ FixedBytes(r) \in Nat
        /\ StopThreshold(req[r].limit) \in Nat
    BY <1>5, <2>3, SizesAdd, ThresholdIsBounded
  <2>6. scope[r].removed \in Nat
    BY <1>5, <2>3, TypeParts, LaunchAssumption DEF TypeInv, ScopeTypes, Scopes
  <2> QED BY <2>2, <2>4, <2>5, <2>6
<1> QED BY <1>1, <1>2, <1>3, <1>4, <1>5, InitTypeInv, InitOwnInv, PTL DEF Spec, BudgetVerdictIsTrue

\* The headroom of a run beside which nobody wrote since its admission: its log
\* and the room that was left fit below the stop, but for what its manager saved,
\* and while its worker only logs, what is left of them does, removed files and
\* the watchdog's walks included.
LogInv ==
  \A r \in Runs :
    /\ pc[r] \in {"scope", "running"} => room[r] > 0
    /\ pc[r] = "scope" /\ r \notin crowded =>
         AggregateSize(BudgetRoots(r)) + req[r].log + room[r] <= StopThreshold(req[r].limit) + saved[r]
    /\ pc[r] = "running" /\ r \notin crowded /\ ~scope[r].wrote =>
         /\ DynamicBytes(r) + scope[r].removed + (req[r].log - scope[r].logs) + room[r]
              <= scope[r].threshold + saved[r]
         /\ scope[r].exceeded => room[r] <= saved[r]

LEMMA NextLogInv ==
  ASSUME TypeInv, OwnInv, LogInv, [Next]_vars
  PROVE  LogInv'
<1>1. req' = req
  BY StepMoves
<1>2. \A r \in Runs : StopThreshold(req[r].limit)' = StopThreshold(req[r].limit)
  BY <1>1 DEF StopThreshold
<1> DEFINE Fits(r) ==
      /\ pc[r] \in {"scope", "running"} => room[r] > 0
      /\ pc[r] = "scope" /\ r \notin crowded =>
           AggregateSize(BudgetRoots(r)) + req[r].log + room[r] <= StopThreshold(req[r].limit) + saved[r]
      /\ pc[r] = "running" /\ r \notin crowded /\ ~scope[r].wrote =>
           /\ DynamicBytes(r) + scope[r].removed + (req[r].log - scope[r].logs) + room[r]
                <= scope[r].threshold + saved[r]
           /\ scope[r].exceeded => room[r] <= saved[r]
<1> SUFFICES ASSUME NEW r \in Runs, pc'[r] \in {"scope", "running"} PROVE Fits(r)'
  BY DEF LogInv
<1> DEFINE all(b) == Cardinality(Charged(b, BudgetRoots(r)))
           mine(b) == Cardinality(Charged(b, DynamicRoots(r)))
           log == req[r].log
           limit == StopThreshold(req[r].limit)
           Goal == /\ room'[r] > 0
                   /\ pc'[r] = "scope" /\ r \notin crowded' =>
                        all(bytes') + log + room'[r] <= limit + saved'[r]
                   /\ pc'[r] = "running" /\ r \notin crowded' /\ ~scope'[r].wrote =>
                        /\ mine(bytes') + scope'[r].removed + (log - scope'[r].logs) + room'[r]
                             <= scope'[r].threshold + saved'[r]
                        /\ scope'[r].exceeded => room'[r] <= saved'[r]
<1>3. /\ RunTypes /\ ScopeTypes /\ AdmissionTypes /\ TreeTypes' /\ DOMAIN scope = Runs
      /\ bytes \in [Dirs -> 0 .. MaxBytes] /\ bytes' \in [Dirs -> 0 .. MaxBytes]
  BY NextTreeTypes, TypeParts DEF TypeInv, TreeTypes
<1>4. /\ BudgetRoots(r) \subseteq Dirs /\ DynamicRoots(r) \subseteq Dirs
      /\ \A b : all(b) \in Nat /\ mine(b) \in Nat
  BY WatchedRootsAreDirs, ChargedIsFinite
<1>5. log \in Nat /\ limit \in Nat
  BY <1>1, NextRequested, TargetIsDir, ThresholdIsBounded DEF Requested, TypeInv
<1>6. room[r] \in Nat /\ saved[r] \in Nat
  BY <1>3 DEF AdmissionTypes
<1>7. AggregateSize(BudgetRoots(r)) = all(bytes) /\ DynamicBytes(r) = mine(bytes)
  BY SizesMean
<1>8. scratch'[r] = scratch[r] =>
        AggregateSize(BudgetRoots(r))' = all(bytes') /\ DynamicBytes(r)' = mine(bytes')
  BY NextSizesMean
<1>9. scratch'[r] = scratch[r] /\ Goal => Fits(r)'
  BY <1>1, <1>2, <1>8
<1>10. Fits(r)
  BY DEF LogInv
<1>11. ASSUME NEW n \in Nat, NEW d \in Dirs, Put(d, n)
       PROVE  all(bytes') \in {all(bytes), all(bytes) + n} /\ mine(bytes') \in {mine(bytes), mine(bytes) + n}
  BY <1>3, <1>4, <1>11, PutIsCharged
<1> HIDE DEF all, mine, limit, log, Fits
<1>12. CASE Preflight(r) /\ pc'[r] = "scope"
  <2>1. Admitted(r) /\ scratch' = scratch /\ room' = [room EXCEPT ![r] = Room(r)]
    BY <1>3, <1>12 DEF Preflight, Goto, RunTypes
  <2>2. PICK most \in {0, MaxSaved} :
          \E n \in 0 .. most : Put(RunDir(r), n) /\ saved' = [saved EXCEPT ![r] = n]
    BY <1>12, <2>1 DEF Preflight, Save
  <2>3. 0 .. most \subseteq Nat
    BY LaunchAssumption
  <2>4. PICK n \in Nat : Put(RunDir(r), n) /\ saved' = [saved EXCEPT ![r] = n]
    BY <2>2, <2>3
  <2>5. room'[r] = limit - all(bytes) - log /\ saved'[r] = n /\ all(bytes) + log < limit
    BY <1>3, <1>7, <2>1, <2>4 DEF AdmissionTypes, Admitted, Room, limit, log
  <2>6. all(bytes') <= all(bytes) + n
    BY <1>4, <1>11, <2>4, Layout
  <2>7. Goal
    BY <1>4, <1>5, <1>12, <2>4, <2>5, <2>6
  <2> QED BY <1>9, <2>1, <2>7
<1>13. CASE Scope(r) /\ pc'[r] = "running"
  <2>1. scratch' = scratch /\ pc[r] = "scope" /\ room' = room /\ (r \in crowded => r \in crowded')
    BY <1>13 DEF Scope
  <2>2. scope'[r] = [threshold |-> limit - FixedBytes(r), logs |-> 0, wrote |-> FALSE,
                     exceeded |-> FALSE, removed |-> 0]
    BY <1>3, <1>13 DEF Scope, Goto, RunTypes, limit
  <2>3. PICK n \in 0 .. MaxSaved : Put(RunDir(r), n) /\ saved' = [saved EXCEPT ![r] = @ + n]
    BY <1>13 DEF Scope, Save
  <2>4. n \in Nat
    BY <2>3, LaunchAssumption
  <2>5. saved'[r] = saved[r] + n
    BY <1>3, <2>3 DEF AdmissionTypes
  <2>6. mine(bytes') <= mine(bytes) + n
    BY <1>4, <1>11, <2>3, <2>4, Layout
  <2>7. all(bytes) = mine(bytes) + FixedBytes(r) /\ FixedBytes(r) \in Nat
    BY <1>7, SizesAdd
  <2>8. /\ room[r] > 0
        /\ r \notin crowded => all(bytes) + log + room[r] <= limit + saved[r]
    BY <1>7, <1>10, <2>1 DEF Fits, limit, log
  <2>9. r \notin crowded' => mine(bytes') + 0 + (log - 0) + room[r] <= limit - FixedBytes(r) + (saved[r] + n)
    BY <1>4, <1>5, <1>6, <2>1, <2>4, <2>6, <2>7, <2>8
  <2>10. Goal
    BY <1>13, <2>1, <2>2, <2>5, <2>8, <2>9
  <2> QED BY <1>9, <2>1, <2>10
<1>14. ASSUME StaysWatched(r) PROVE Goal
  <2>1. /\ pc'[r] = pc[r] /\ room'[r] = room[r] /\ saved'[r] = saved[r]
        /\ pc[r] \in {"scope", "running"} /\ (r \in crowded => r \in crowded')
    BY <1>14 DEF StaysWatched
  <2>2. /\ room[r] > 0
        /\ pc[r] = "scope" /\ r \notin crowded => all(bytes) + log + room[r] <= limit + saved[r]
        /\ pc[r] = "running" /\ r \notin crowded /\ ~scope[r].wrote =>
             /\ mine(bytes) + scope[r].removed + (log - scope[r].logs) + room[r]
                  <= scope[r].threshold + saved[r]
             /\ scope[r].exceeded => room[r] <= saved[r]
    BY <1>7, <1>10, <2>1 DEF Fits, limit, log
  <2>3. pc[r] = "running" => scope[r] \in Scopes(req[r])
    BY <1>3 DEF ScopeTypes
  <2>4. pc[r] = "running" =>
          /\ scope[r].removed \in Nat /\ scope[r].threshold \in Nat /\ scope[r].logs \in Nat
          /\ scope[r].logs <= log
    BY <1>5, <2>3, LaunchAssumption DEF Scopes, log
  <2>5. CASE UNCHANGED bytes /\ scope'[r] = scope[r]
    BY <2>1, <2>2, <2>5
  <2>6. CASE AddsBeside(r)
    <3>1. PICK q \in Runs, d \in Dirs, n \in Nat :
            /\ Put(d, n)
            /\ q # r => scope'[r] = scope[r] /\ (r \in Crowded(q, d, n) => r \in crowded')
            /\ q = r => /\ n = 1 /\ pc[r] = "running"
                        /\ \/ scope'[r] = [scope[r] EXCEPT !.logs = @ + 1]
                           \/ scope'[r] = [scope[r] EXCEPT !.wrote = TRUE]
      BY <2>6 DEF AddsBeside
    <3>2. /\ all(bytes') \in {all(bytes), all(bytes) + n}
          /\ mine(bytes') \in {mine(bytes), mine(bytes) + n}
      BY <1>11, <3>1
    <3>3. ASSUME q # r, r \notin crowded' PROVE all(bytes') = all(bytes) /\ mine(bytes') = mine(bytes)
      <4>1. CASE n = 0
        BY <1>4, <3>2, <4>1
      <4>2. CASE n # 0
        <5>1. \A root \in BudgetRoots(r) : ~Below(d, root)
          BY <2>1, <3>1, <3>3, <4>2 DEF Crowded
        <5>2. \A root \in DynamicRoots(r) : ~Below(d, root)
          BY <5>1, Layout, BelowOrder DEF DynamicRoots, DedupeRoots, BudgetRoots
        <5>3. /\ \A root \in DedupeRoots(BudgetRoots(r)) : ~Below(d, root)
              /\ \A root \in DedupeRoots(DynamicRoots(r)) : ~Below(d, root)
          BY <5>1, <5>2 DEF DedupeRoots
        <5>4. Grown(bytes, bytes', d, n)
          BY <1>3, <1>4, <3>1, PutGrows
        <5>5. BudgetRoots(r) \subseteq Dirs /\ DynamicRoots(r) \subseteq Dirs
          BY <1>3, WatchedRootsAreDirs
        <5> QED BY <5>3, <5>4, <5>5, GrowthIsCharged DEF all, mine
      <4> QED BY <4>1, <4>2
    <3>4. CASE q # r
      BY <2>1, <2>2, <3>1, <3>3, <3>4
    <3>5. CASE q = r
      <4>1. pc[r] = "running" /\ n = 1 /\ scope[r] \in Scopes(req[r])
        BY <2>3, <3>1, <3>5
      <4>2. CASE scope'[r] = [scope[r] EXCEPT !.wrote = TRUE]
        <5>1. scope'[r].wrote
          BY <4>1, <4>2 DEF Scopes
        <5> QED BY <2>1, <2>2, <4>1, <5>1
      <4>3. CASE scope'[r] = [scope[r] EXCEPT !.logs = @ + 1]
        <5>1. /\ scope'[r].logs = scope[r].logs + 1 /\ scope'[r].wrote = scope[r].wrote
              /\ scope'[r].threshold = scope[r].threshold /\ scope'[r].removed = scope[r].removed
              /\ scope'[r].exceeded = scope[r].exceeded
          BY <4>1, <4>3 DEF Scopes
        <5>2. mine(bytes') <= mine(bytes) + 1
          BY <1>4, <3>2, <4>1
        <5> QED BY <1>4, <1>5, <1>6, <2>1, <2>2, <2>4, <4>1, <5>1, <5>2
      <4> QED BY <3>1, <3>5, <4>2, <4>3
    <3> QED BY <3>4, <3>5
  <2>7. CASE DeletesBeside(r)
    <3>1. PICK q \in Runs, d \in Dirs :
            /\ bytes[d] > 0 /\ bytes' = [bytes EXCEPT ![d] = @ - 1]
            /\ scope'[r] = IF r \in Watching(d) THEN [scope[r] EXCEPT !.removed = @ + 1] ELSE scope[r]
      BY <2>7 DEF DeletesBeside
    <3>2. CASE pc[r] = "scope"
      <4>1. \A o \in Dirs : bytes'[o] <= bytes[o]
        BY <1>3, <3>1
      <4>2. all(bytes') <= all(bytes)
        BY <1>3, <1>4, <4>1, LossIsCredited DEF all
      <4> QED BY <1>4, <1>5, <1>6, <2>1, <2>2, <3>2, <4>2
    <3>3. CASE pc[r] = "running"
      <4>1. mine(bytes) = IF r \in Watching(d) THEN mine(bytes') + 1 ELSE mine(bytes')
        BY <1>3, <3>1, <3>3, LossIsWatched DEF mine, Watching
      <4>2. /\ scope'[r].threshold = scope[r].threshold /\ scope'[r].exceeded = scope[r].exceeded
            /\ scope'[r].logs = scope[r].logs /\ scope'[r].wrote = scope[r].wrote
            /\ scope'[r].removed = IF r \in Watching(d) THEN scope[r].removed + 1 ELSE scope[r].removed
        BY <2>3, <3>1, <3>3 DEF Scopes
      <4>3. mine(bytes) + scope[r].removed = mine(bytes') + scope'[r].removed
        BY <1>4, <2>4, <3>3, <4>1, <4>2
      <4> QED BY <2>1, <2>2, <3>3, <4>2, <4>3
    <3> QED BY <2>1, <3>2, <3>3
  <2>8. CASE Sample(r)
    <3>1. /\ pc[r] = "running" /\ bytes' = bytes /\ scope'[r] = [scope[r] EXCEPT !.exceeded = TRUE]
          /\ mine(bytes) + scope[r].removed >= scope[r].threshold
      BY <1>3, <1>7, <2>8 DEF Sample, tree
    <3>2. /\ scope'[r].threshold = scope[r].threshold /\ scope'[r].removed = scope[r].removed
          /\ scope'[r].logs = scope[r].logs /\ scope'[r].wrote = scope[r].wrote
      BY <2>3, <3>1 DEF Scopes
    <3>3. r \notin crowded /\ ~scope[r].wrote => room[r] <= saved[r]
      BY <1>4, <1>5, <1>6, <2>2, <2>4, <3>1
    <3> QED BY <2>1, <2>2, <3>1, <3>2, <3>3
  <2>9. ASSUME NEW q \in Runs, Repeat(q), scope'[r] = scope[r] PROVE Goal
    <3>1. \A d \in Dirs : bytes'[d] <= bytes[d]
      BY <1>3, <2>9 DEF Repeat
    <3>2. all(bytes') <= all(bytes) /\ mine(bytes') <= mine(bytes)
      BY <1>3, <1>4, <3>1, LossIsCredited DEF all, mine
    <3> QED BY <1>4, <1>5, <1>6, <2>1, <2>2, <2>4, <2>9, <3>2
  <2> QED BY <1>14, <2>5, <2>6, <2>7, <2>8, <2>9 DEF StaysWatched
<1>15. StaysWatched(r) => scratch'[r] = scratch[r]
  BY DEF StaysWatched
<1> QED BY <1>9, <1>12, <1>13, <1>14, <1>15, WatchedCases

\* An attempt that only logs, beside which nobody writes since its admission, is
\* stopped for its size only if what its own manager saved took up the room that
\* its admission left (preflight; execute_attempt).
THEOREM ReservedLogsFit == Spec => LogsFit
<1>1. Init => LogInv
  BY DEF Init, LogInv
<1>2. TypeInv /\ [Next]_vars => TypeInv'
  BY NextTypeInv
<1>3. TypeInv /\ OwnInv /\ [Next]_vars => OwnInv'
  BY NextOwnInv
<1>4. TypeInv /\ OwnInv /\ LogInv /\ [Next]_vars => LogInv'
  BY NextLogInv
<1> DEFINE Fit == \A r \in Runs : Ends(r) /\ result'[r] = "budget" =>
                    \/ scope[r].wrote
                    \/ r \in crowded
                    \/ saved[r] # 0 /\ saved[r] >= room[r]
<1>5. ASSUME TypeInv, OwnInv, LogInv, [Next]_vars PROVE Fit
  <2> SUFFICES ASSUME NEW r \in Runs, Ends(r), result'[r] = "budget", ~scope[r].wrote, r \notin crowded
               PROVE  saved[r] # 0 /\ saved[r] >= room[r]
    OBVIOUS
  <2>1. PICK well \in BOOLEAN : result'[r] = Verdict(r, well)
    BY <1>5, EndsByEnd
  <2>2. scope[r].exceeded \/ DynamicBytes(r) >= scope[r].threshold
    BY <2>1 DEF Verdict, OverBudget
  <2>3. pc[r] = "running" /\ req[r].log \in Nat
    BY <1>5, TargetIsDir DEF Ends, TypeInv, Requested
  <2>4. /\ scope[r].threshold \in Nat /\ scope[r].removed \in Nat
        /\ scope[r].logs \in Nat /\ scope[r].logs <= req[r].log
    BY <1>5, <2>3, TypeParts, LaunchAssumption DEF TypeInv, ScopeTypes, Scopes
  <2>5. /\ room[r] > 0
        /\ DynamicBytes(r) + scope[r].removed + (req[r].log - scope[r].logs) + room[r]
             <= scope[r].threshold + saved[r]
        /\ scope[r].exceeded => room[r] <= saved[r]
    BY <1>5, <2>3 DEF LogInv
  <2>6. DynamicBytes(r) \in Nat /\ room[r] \in Nat /\ saved[r] \in Nat
    BY <1>5, SizesAdd, TypeParts DEF TypeInv, AdmissionTypes
  <2>7. room[r] <= saved[r]
    BY <2>2, <2>3, <2>4, <2>5, <2>6
  <2> QED BY <2>5, <2>6, <2>7
<1> QED BY <1>1, <1>2, <1>3, <1>4, <1>5, InitTypeInv, InitOwnInv, PTL DEF Spec, LogsFit
=============================================================================
