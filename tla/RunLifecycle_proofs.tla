------------------------- MODULE RunLifecycle_proofs -------------------------
(***************************************************************************)
(* Proofs about one run for any number of managers, commands and attempts, *)
(* with crashes between any two steps.                                     *)
(***************************************************************************)
EXTENDS RunLifecycle, Integers, TLAPS

\* Past the record of the attempt, the attempt is the last one of the copy.
Recorded == {"recorded", "spawned", "running", "ended", "deliver", "final"}

\* What a copy of the metadata says, wherever it is: attempts are numbered in
\* order, and what it calls materializable or delivered met every criterion.
Sound(c, g) ==
  /\ \A i \in 1 .. Len(c.attempts) :
       /\ c.attempts[i].number = i /\ i \in Attempts
       /\ Materializable(c.attempts[i]) => i \in g
  /\ c.delivered \in g \union {None}

CopiesSound ==
  /\ meta # None => Sound(meta, good)
  /\ \A m \in Managers : mem[m] # None => Sound(mem[m], good)

\* What a manager holds at its step.
Holding(m) ==
  /\ pc[m] \in {"loaded", "dir"} \union Recorded => mem[m] # None
  /\ pc[m] = "dir" => num[m] = Len(mem[m].attempts) + 1
  /\ pc[m] \in Recorded => num[m] = Len(mem[m].attempts)
  /\ InAttempt(m) => num[m] \in dirs
  /\ pc[m] \in {"deliver", "rewrite"} => num[m] \in good
  /\ pc[m] # "rewrite" => asked[m] = Overwrite

\* The run is created once, and nobody is past that while it has no metadata.
CreatedOnce ==
  /\ meta # None => runDir
  /\ \A m \in Managers : pc[m] = "made" => runDir /\ meta = None
  /\ \A m, o \in Managers : pc[m] = "made" /\ pc[o] = "made" => m = o
  /\ meta = None => \A m \in Managers : pc[m] \in {"idle", "create", "made"}

LifeInv ==
  /\ TypeOK /\ CopiesSound /\ CreatedOnce /\ AttemptDirIsExclusive
  /\ \A m \in Managers : Holding(m)
  /\ output \in Nat => output \in good

-----------------------------------------------------------------------------
(* Copies of the metadata.                                                 *)

\* The copies that the actions make, without the manager they belong to.
AmendedOf(c, n, status, flag, evidence) ==
  [c EXCEPT !.attempts[n] =
     [@ EXCEPT !.status = status, !.flag = flag, !.evidence = evidence]]

RefusedOf(c, n) == [c EXCEPT !.attempts[n].flag = "no"]

StartedOf(c, n) ==
  [c EXCEPT !.attempts =
     Append(@, [number |-> n, status |-> "starting", flag |-> "absent", evidence |-> FALSE])]

\* Changing one attempt of a copy leaves the rest of it.
LEMMA AmendedCopy ==
  ASSUME NEW c \in MetaType, NEW n \in 1 .. Len(c.attempts),
         NEW status \in Statuses, NEW flag \in {"absent", "yes", "no"}, NEW evidence \in BOOLEAN
  PROVE  LET d == AmendedOf(c, n, status, flag, evidence) IN
         /\ d \in MetaType
         /\ d.contract = c.contract /\ d.delivered = c.delivered
         /\ Len(d.attempts) = Len(c.attempts)
         /\ \A i \in 1 .. Len(c.attempts) : i # n => d.attempts[i] = c.attempts[i]
         /\ d.attempts[n] = [number |-> c.attempts[n].number, status |-> status,
                             flag |-> flag, evidence |-> evidence]
<1> DEFINE d == AmendedOf(c, n, status, flag, evidence)
           a == [number |-> c.attempts[n].number, status |-> status,
                 flag |-> flag, evidence |-> evidence]
           s == [c.attempts EXCEPT ![n] = a]
<1>1. c.attempts \in Seq(AttemptType) /\ c.attempts[n] \in AttemptType
  BY DEF MetaType
<1>2. a \in AttemptType
  BY <1>1 DEF AttemptType
<1>3. [c.attempts[n] EXCEPT !.status = status, !.flag = flag, !.evidence = evidence] = a
  <2> DEFINE r == c.attempts[n]
             r1 == [r EXCEPT !.status = status]
             r2 == [r1 EXCEPT !.flag = flag]
             r3 == [r2 EXCEPT !.evidence = evidence]
  <2>1. r \in AttemptType
    BY <1>1
  <2>2. r1 \in AttemptType /\ r1.number = r.number /\ r1.status = status
    BY <2>1 DEF AttemptType
  <2> HIDE DEF r1
  <2>3. r2 \in AttemptType /\ r2.number = r.number /\ r2.status = status /\ r2.flag = flag
    BY <2>2 DEF AttemptType
  <2> HIDE DEF r2
  <2>4. /\ r3 \in AttemptType /\ r3.number = r.number /\ r3.status = status
        /\ r3.flag = flag /\ r3.evidence = evidence
    BY <2>3 DEF AttemptType
  <2> HIDE DEF r3
  <2>5. r3 = a
    BY <2>4, <1>2 DEF AttemptType
  <2> QED BY <2>5 DEF r1, r2, r3
<1>4. s \in Seq(AttemptType) /\ Len(s) = Len(c.attempts)
  BY <1>1, <1>2
<1>5. d = [c EXCEPT !.attempts = s]
  BY <1>3 DEF AmendedOf
<1> HIDE DEF d
<1>6. /\ d \in MetaType /\ d.attempts = s
      /\ d.contract = c.contract /\ d.delivered = c.delivered
  BY <1>4, <1>5 DEF MetaType
<1> QED BY <1>1, <1>4, <1>6 DEF d

\* A refused delivery changes one flag.
LEMMA RefusedCopy ==
  ASSUME NEW c \in MetaType, NEW n \in 1 .. Len(c.attempts)
  PROVE  LET d == RefusedOf(c, n) IN
         /\ d \in MetaType
         /\ d.contract = c.contract /\ d.delivered = c.delivered
         /\ Len(d.attempts) = Len(c.attempts)
         /\ \A i \in 1 .. Len(c.attempts) : i # n => d.attempts[i] = c.attempts[i]
         /\ d.attempts[n].number = c.attempts[n].number
         /\ d.attempts[n].flag = "no"
<1> DEFINE d == RefusedOf(c, n)
           a == [c.attempts[n] EXCEPT !.flag = "no"]
           s == [c.attempts EXCEPT ![n] = a]
<1>1. c.attempts \in Seq(AttemptType) /\ c.attempts[n] \in AttemptType
  BY DEF MetaType
<1>2. a \in AttemptType /\ a.number = c.attempts[n].number /\ a.flag = "no"
  BY <1>1 DEF AttemptType
<1>4. s \in Seq(AttemptType) /\ Len(s) = Len(c.attempts)
  BY <1>1, <1>2
<1>5. d = [c EXCEPT !.attempts = s]
  BY DEF RefusedOf
<1> HIDE DEF d
<1>6. /\ d \in MetaType /\ d.attempts = s
      /\ d.contract = c.contract /\ d.delivered = c.delivered
  BY <1>4, <1>5 DEF MetaType
<1> QED BY <1>1, <1>2, <1>4, <1>6 DEF d

\* A new attempt comes last.
LEMMA StartedCopy ==
  ASSUME NEW c \in MetaType, NEW n \in Nat
  PROVE  LET d == StartedOf(c, n) IN
         /\ d \in MetaType
         /\ d.contract = c.contract /\ d.delivered = c.delivered
         /\ Len(d.attempts) = Len(c.attempts) + 1
         /\ \A i \in 1 .. Len(c.attempts) : d.attempts[i] = c.attempts[i]
         /\ d.attempts[Len(c.attempts) + 1] =
              [number |-> n, status |-> "starting", flag |-> "absent", evidence |-> FALSE]
<1> DEFINE d == StartedOf(c, n)
           a == [number |-> n, status |-> "starting", flag |-> "absent", evidence |-> FALSE]
           s == Append(c.attempts, a)
<1>1. c.attempts \in Seq(AttemptType) /\ a \in AttemptType
  BY DEF MetaType, AttemptType, Statuses
<1>2. s \in Seq(AttemptType)
  BY <1>1
<1>3. d = [c EXCEPT !.attempts = s]
  BY DEF StartedOf
<1> HIDE DEF d
<1>4. /\ d \in MetaType /\ d.attempts = s
      /\ d.contract = c.contract /\ d.delivered = c.delivered
  BY <1>2, <1>3 DEF MetaType
<1> QED BY <1>1, <1>4 DEF d

\* The copy d is c with attempt n, just begun, as its last.
WithNew(d, c, n) ==
  /\ d \in MetaType /\ d.delivered = c.delivered
  /\ Len(d.attempts) = n
  /\ \A i \in 1 .. Len(c.attempts) : d.attempts[i] = c.attempts[i]
  /\ d.attempts[n] = [number |-> n, status |-> "starting", flag |-> "absent", evidence |-> FALSE]

\* That is what is recorded of it, if it has the next number.
LEMMA StartedLast ==
  ASSUME NEW c \in MetaType, NEW n \in Nat, n = Len(c.attempts) + 1
  PROVE  WithNew(StartedOf(c, n), c, n)
<1> DEFINE d == StartedOf(c, n)
<1>1. /\ d \in MetaType /\ d.delivered = c.delivered
      /\ Len(d.attempts) = Len(c.attempts) + 1
      /\ \A i \in 1 .. Len(c.attempts) : d.attempts[i] = c.attempts[i]
      /\ d.attempts[Len(c.attempts) + 1] =
           [number |-> n, status |-> "starting", flag |-> "absent", evidence |-> FALSE]
  BY StartedCopy
<1> HIDE DEF d
<1>2. WithNew(d, c, n)
  BY <1>1 DEF WithNew
<1> QED BY <1>2 DEF d

-----------------------------------------------------------------------------
(* Steps of the proof that every action shares.                            *)

\* What a manager knows of its own attempt once that is recorded.
LEMMA OwnAttempt ==
  ASSUME LifeInv, NEW m \in Managers, pc[m] \in Recorded
  PROVE  /\ mem[m] \in MetaType /\ mem[m] # None /\ Sound(mem[m], good)
         /\ num[m] = Len(mem[m].attempts)
         /\ num[m] \in 1 .. Len(mem[m].attempts)
         /\ num[m] \in Attempts /\ num[m] \in dirs
BY DEF LifeInv, TypeOK, CopiesSound, Holding, Recorded, InAttempt, Attempts

\* A sound copy takes the place of another, in memory and perhaps on disk.
LEMMA NewCopy ==
  ASSUME LifeInv, NEW m \in Managers, NEW d \in MetaType, Sound(d, good'),
         good \subseteq good', mem' = [mem EXCEPT ![m] = d], meta' \in {meta, d}
  PROVE  /\ CopiesSound'
         /\ mem' \in [Managers -> MetaType \union {None}]
         /\ meta' \in MetaType \union {None}
<1>1. ASSUME NEW c, Sound(c, good) PROVE Sound(c, good')
  BY <1>1 DEF Sound
<1>2. /\ mem' \in [Managers -> MetaType \union {None}]
      /\ meta' \in MetaType \union {None}
  BY DEF LifeInv, TypeOK
<1>3. meta' # None => Sound(meta', good')
  BY <1>1 DEF LifeInv, CopiesSound
<1>4. ASSUME NEW o \in Managers, mem'[o] # None PROVE Sound(mem'[o], good')
  <2>1. CASE o = m
    BY <2>1 DEF LifeInv, TypeOK
  <2>2. CASE o # m
    <3>1. mem'[o] = mem[o]
      BY <2>2 DEF LifeInv, TypeOK
    <3> QED BY <3>1, <1>1, <1>4 DEF LifeInv, CopiesSound
  <2> QED BY <2>1, <2>2
<1> QED BY <1>2, <1>3, <1>4 DEF CopiesSound

\* A verdict on the attempt at hand leaves the copy sound, if the attempt is
\* good or not called materializable.
LEMMA AmendedSound ==
  ASSUME LifeInv, NEW m \in Managers, pc[m] \in Recorded,
         NEW status \in Statuses, NEW flag \in {"absent", "yes", "no"}, NEW evidence \in BOOLEAN,
         good \subseteq good',
         num[m] \in good' \/ (flag = "no") \/ (flag = "absent" /\ ~evidence)
  PROVE  LET d == Amended(m, status, flag, evidence) IN
         /\ d \in MetaType /\ Sound(d, good')
         /\ Len(d.attempts) = Len(mem[m].attempts)
<1> DEFINE c == mem[m]
           n == num[m]
           d == Amended(m, status, flag, evidence)
<1>1. c \in MetaType /\ n \in 1 .. Len(c.attempts) /\ Sound(c, good)
  BY OwnAttempt
<1>2. d = AmendedOf(c, n, status, flag, evidence)
  BY DEF Amended, AmendedOf
<1> HIDE DEF c, n, d
<1>3. /\ d \in MetaType
      /\ d.delivered = c.delivered
      /\ Len(d.attempts) = Len(c.attempts)
      /\ \A i \in 1 .. Len(c.attempts) : i # n => d.attempts[i] = c.attempts[i]
      /\ d.attempts[n] = [number |-> c.attempts[n].number, status |-> status,
                          flag |-> flag, evidence |-> evidence]
  BY <1>1, <1>2, AmendedCopy
<1>4. Materializable(d.attempts[n]) => n \in good'
  BY <1>3 DEF Materializable, n
<1>5. d.attempts[n].number = n
  BY <1>1, <1>3 DEF Sound
<1>6. Sound(d, good')
  BY <1>1, <1>3, <1>4, <1>5 DEF Sound
<1> QED BY <1>3, <1>6 DEF c, d

\* The copy d has the attempts of manager m's, the last one with this status.
LastChanged(d, m, status) ==
  /\ d \in MetaType /\ Len(d.attempts) = num[m]
  /\ \A i \in 1 .. num[m] - 1 : d.attempts[i] = mem[m].attempts[i]
  /\ d.attempts[num[m]].status = status

\* It changes nothing but that attempt.
LEMMA AmendedRest ==
  ASSUME LifeInv, NEW m \in Managers, pc[m] \in Recorded,
         NEW status \in Statuses, NEW flag \in {"absent", "yes", "no"}, NEW evidence \in BOOLEAN
  PROVE  LastChanged(Amended(m, status, flag, evidence), m, status)
<1> DEFINE c == mem[m]
           n == num[m]
           d == Amended(m, status, flag, evidence)
<1>1. c \in MetaType /\ n \in 1 .. Len(c.attempts) /\ n = Len(c.attempts)
  BY OwnAttempt
<1>2. d = AmendedOf(c, n, status, flag, evidence)
  BY DEF Amended, AmendedOf
<1> HIDE DEF c, n, d
<1>3. /\ d \in MetaType /\ Len(d.attempts) = Len(c.attempts)
      /\ \A i \in 1 .. Len(c.attempts) : i # n => d.attempts[i] = c.attempts[i]
      /\ d.attempts[n] = [number |-> c.attempts[n].number, status |-> status,
                          flag |-> flag, evidence |-> evidence]
  BY <1>1, <1>2, AmendedCopy
<1>4. Len(c.attempts) \in Nat
  BY <1>1 DEF MetaType
<1>5. \A i \in 1 .. n - 1 : d.attempts[i] = c.attempts[i]
  BY <1>1, <1>3, <1>4
<1> QED BY <1>1, <1>3, <1>5 DEF c, n, d, LastChanged

\* So does a refused delivery.
LEMMA RefusedSound ==
  ASSUME LifeInv, NEW m \in Managers, pc[m] \in Recorded
  PROVE  LET d == RefusedOf(mem[m], num[m]) IN
         /\ d \in MetaType /\ Sound(d, good)
         /\ Len(d.attempts) = Len(mem[m].attempts)
         /\ \A i \in 1 .. num[m] - 1 : d.attempts[i] = mem[m].attempts[i]
<1> DEFINE c == mem[m]
           n == num[m]
           d == RefusedOf(c, n)
<1>1. c \in MetaType /\ n \in 1 .. Len(c.attempts) /\ Sound(c, good)
  BY OwnAttempt
<1> HIDE DEF c, n
<1>3. /\ d \in MetaType /\ d.delivered = c.delivered
      /\ Len(d.attempts) = Len(c.attempts)
      /\ \A i \in 1 .. Len(c.attempts) : i # n => d.attempts[i] = c.attempts[i]
      /\ d.attempts[n].number = c.attempts[n].number
      /\ d.attempts[n].flag = "no"
  BY <1>1, RefusedCopy
<1>4. Sound(d, good)
  BY <1>1, <1>3 DEF Sound, Materializable
<1>5. n = Len(c.attempts) /\ Len(c.attempts) \in Nat
  BY OwnAttempt DEF c, n, MetaType
<1>6. \A i \in 1 .. n - 1 : d.attempts[i] = c.attempts[i]
  BY <1>3, <1>5
<1> QED BY <1>3, <1>4, <1>6 DEF c, n, d

-----------------------------------------------------------------------------
LEMMA InitLifeInv == Init => LifeInv
<1> SUFFICES ASSUME Init PROVE LifeInv
  OBVIOUS
<1> USE LifecycleAssumption
<1>1. /\ pc \in [Managers -> Steps] /\ mem \in [Managers -> MetaType \union {None}]
      /\ num \in [Managers -> Attempts \union {0}] /\ asked \in [Managers -> BOOLEAN]
      /\ exit \in [Managers -> {"none", "zero", "nonzero", "died"}]
  BY DEF Init, Steps
<1>2. 0 \in 0 .. MaxCommands
  OBVIOUS
<1>3. CASE Fresh
  <2>1. TypeOK
    BY <1>1, <1>2, <1>3 DEF Init, Fresh, TypeOK
  <2> QED
    BY <2>1, <1>3 DEF Init, Fresh, LifeInv, CopiesSound, CreatedOnce, AttemptDirIsExclusive,
       Holding, InAttempt, Recorded
<1>4. CASE Legacy
  <2>1. PICK evidence \in BOOLEAN :
          /\ runDir = TRUE /\ meta = LegacyMeta(evidence) /\ dirs = {1}
          /\ stream = [n \in Attempts |-> IF n = 1 THEN "text" ELSE "none"]
          /\ good = IF evidence THEN {1} ELSE {}
    BY <1>4 DEF Legacy
  <2> DEFINE a == [number |-> 1, status |-> "terminal", flag |-> "absent", evidence |-> evidence]
  <2>2. a \in AttemptType
    BY DEF AttemptType, Statuses
  <2>3. <<a>> \in Seq(AttemptType) /\ Len(<<a>>) = 1 /\ <<a>>[1] = a
    BY <2>2
  <2>4. /\ meta \in MetaType /\ meta.attempts = <<a>> /\ meta.delivered = None
    BY <2>1, <2>3 DEF LegacyMeta, MetaType
  <2>5. 1 \in Attempts
    BY DEF Attempts
  <2>6. TypeOK
    <3>1. stream \in [Attempts -> {"none", "text", "notext"}]
      BY <2>1
    <3>2. runDir \in BOOLEAN /\ dirs \subseteq Attempts /\ good \subseteq Attempts
      BY <2>1, <2>5
    <3> QED BY <1>1, <1>2, <2>4, <3>1, <3>2 DEF Init, TypeOK
  <2>7. Materializable(a) => 1 \in good
    BY <2>1 DEF Materializable
  <2>8. \A i \in 1 .. Len(meta.attempts) :
          /\ meta.attempts[i].number = i /\ i \in Attempts
          /\ Materializable(meta.attempts[i]) => i \in good
    <3>1. \A i \in 1 .. Len(meta.attempts) : i = 1
      BY <2>3, <2>4
    <3>2. meta.attempts[1] = a
      BY <2>3, <2>4
    <3> QED BY <3>1, <3>2, <2>5, <2>7
  <2>9. Sound(meta, good)
    BY <2>4, <2>8 DEF Sound
  <2> QED
    BY <2>1, <2>6, <2>9 DEF Init, LifeInv, CopiesSound, CreatedOnce, AttemptDirIsExclusive,
       Holding, InAttempt, Recorded
<1> QED BY <1>3, <1>4 DEF Init

\* One step per action.  The short ones change no copy of the metadata, or drop
\* one; the others show that the copy they make is sound.
LEMMA NextLifeInv == LifeInv /\ [Next]_vars => LifeInv'
<1> SUFFICES ASSUME LifeInv, [Next]_vars PROVE LifeInv'
  OBVIOUS
<1> USE LifecycleAssumption
<1>1. ASSUME NEW m \in Managers, StartRun(m) PROVE LifeInv'
  BY <1>1 DEF StartRun, LifeInv, TypeOK, CopiesSound, Sound, CreatedOnce,
       AttemptDirIsExclusive, Holding, InAttempt, Recorded, Steps, Attempts, Exit, Goto, Start,
       Save, disk
<1>2. ASSUME NEW m \in Managers, MakeRunDir(m) PROVE LifeInv'
  BY <1>2 DEF MakeRunDir, LifeInv, TypeOK, CopiesSound, Sound, CreatedOnce,
       AttemptDirIsExclusive, Holding, InAttempt, Recorded, Steps, Attempts, Exit, Goto, Start,
       Save, disk
<1>3. ASSUME NEW m \in Managers, RunDirTaken(m) PROVE LifeInv'
  BY <1>3 DEF RunDirTaken, LifeInv, TypeOK, CopiesSound, Sound, CreatedOnce,
       AttemptDirIsExclusive, Holding, InAttempt, Recorded, Steps, Attempts, Exit, Goto, Start,
       Save, disk
<1>4. ASSUME NEW m \in Managers, RunRefused(m) PROVE LifeInv'
  BY <1>4 DEF RunRefused, LifeInv, TypeOK, CopiesSound, Sound, CreatedOnce,
       AttemptDirIsExclusive, Holding, InAttempt, Recorded, Steps, Attempts, Exit, Goto, Start,
       Save, disk
<1>5. ASSUME NEW m \in Managers, WriteMetadata(m) PROVE LifeInv'
  <2> DEFINE d == [attempts |-> << >>, contract |-> Artifact, delivered |-> None]
  <2>1. good' = good /\ mem' = [mem EXCEPT ![m] = d] /\ meta' \in {meta, d}
    BY <1>5 DEF WriteMetadata, Save
  <2>2. d \in MetaType /\ Len(d.attempts) = 0 /\ d.delivered = None
    BY DEF MetaType
  <2>3. runDir /\ meta' = d
    BY <1>5 DEF WriteMetadata, LifeInv, CreatedOnce, Save
  <2> HIDE DEF d
  <2>4. Sound(d, good')
    BY <2>2 DEF Sound
  <2>5. /\ CopiesSound'
        /\ mem' \in [Managers -> MetaType \union {None}]
        /\ meta' \in MetaType \union {None}
    BY <2>1, <2>2, <2>4, NewCopy
  <2>6. d # None
    BY <2>2
  <2>10. TypeOK'
    BY <1>5, <2>1, <2>2, <2>3, <2>5, <2>6 DEF WriteMetadata, LifeInv, TypeOK, Steps, Goto, Save, disk
  <2>7. CreatedOnce'
    BY <1>5, <2>1, <2>2, <2>3, <2>5, <2>6 DEF WriteMetadata, LifeInv, TypeOK, CreatedOnce, Recorded, Goto, Save, disk
  <2>11. AttemptDirIsExclusive'
    BY <1>5, <2>1, <2>2, <2>3, <2>5, <2>6 DEF WriteMetadata, LifeInv, TypeOK, Holding, AttemptDirIsExclusive, InAttempt,
       Goto, Save, disk
  <2>8. ASSUME NEW o \in Managers PROVE Holding(o)'
    <3>1. CASE o = m
      BY <1>5, <2>1, <2>2, <2>3, <2>5, <2>6, <3>1 DEF WriteMetadata, LifeInv, TypeOK, Holding, InAttempt, Recorded, Goto, Save, disk
    <3>2. CASE o # m
      BY <1>5, <2>1, <2>2, <2>3, <2>5, <2>6, <3>2 DEF WriteMetadata, LifeInv, TypeOK, Holding, InAttempt, Recorded, Goto, Save, disk
    <3> QED BY <3>1, <3>2
  <2>9. (output \in Nat => output \in good)'
    BY <1>5 DEF WriteMetadata, LifeInv, disk
  <2> QED BY <2>5, <2>10, <2>7, <2>11, <2>8, <2>9 DEF LifeInv
<1>6. ASSUME NEW m \in Managers, StartResume(m) PROVE LifeInv'
  BY <1>6 DEF StartResume, LifeInv, TypeOK, CopiesSound, Sound, CreatedOnce,
       AttemptDirIsExclusive, Holding, InAttempt, Recorded, Steps, Attempts, Exit, Goto, Start,
       Save, disk
<1>7. ASSUME NEW m \in Managers, MakeAttemptDir(m) PROVE LifeInv'
  <2>1. mem[m] \in MetaType /\ mem[m] # None /\ NextNumber(m) \in Attempts \ dirs
        /\ NextNumber(m) = Len(mem[m].attempts) + 1
    BY <1>7 DEF MakeAttemptDir, LifeInv, TypeOK, Holding, NextNumber
  <2>2. CopiesSound'
    BY <1>7 DEF MakeAttemptDir, LifeInv, CopiesSound, Sound
  <2>6. TypeOK'
    BY <1>7, <2>1 DEF MakeAttemptDir, LifeInv, TypeOK, Steps, Goto
  <2>3. CreatedOnce'
    BY <1>7, <2>1 DEF MakeAttemptDir, LifeInv, TypeOK, CreatedOnce, Recorded, Goto
  <2>7. AttemptDirIsExclusive'
    BY <1>7, <2>1 DEF MakeAttemptDir, LifeInv, TypeOK, Holding, AttemptDirIsExclusive, InAttempt,
       Goto
  <2>4. ASSUME NEW o \in Managers PROVE Holding(o)'
    <3>1. CASE o = m
      BY <1>7, <2>1, <3>1 DEF MakeAttemptDir, LifeInv, TypeOK, Holding, InAttempt, Recorded, Goto
    <3>2. CASE o # m
      BY <1>7, <2>1, <3>2 DEF MakeAttemptDir, LifeInv, TypeOK, Holding, InAttempt, Recorded, Goto
    <3> QED BY <3>1, <3>2
  <2>5. (output \in Nat => output \in good)'
    BY <1>7 DEF MakeAttemptDir, LifeInv, disk
  <2> QED BY <2>2, <2>6, <2>3, <2>7, <2>4, <2>5 DEF LifeInv
<1>8. ASSUME NEW m \in Managers, AttemptRefused(m) PROVE LifeInv'
  BY <1>8 DEF AttemptRefused, LifeInv, TypeOK, CopiesSound, Sound, CreatedOnce,
       AttemptDirIsExclusive, Holding, InAttempt, Recorded, Steps, Attempts, Exit, Goto, Start,
       Save, disk
<1>9. ASSUME NEW m \in Managers, PromptUnreadable(m) PROVE LifeInv'
  BY <1>9 DEF PromptUnreadable, LifeInv, TypeOK, CopiesSound, Sound, CreatedOnce,
       AttemptDirIsExclusive, Holding, InAttempt, Recorded, Steps, Attempts, Exit, Goto, Start,
       Save, disk
<1>10. ASSUME NEW m \in Managers, RecordAttempt(m) PROVE LifeInv'
  <2> DEFINE d == StartedOf(mem[m], num[m])
  <2>1. good' = good /\ mem[m] \in MetaType /\ mem[m] # None /\ Sound(mem[m], good)
    BY <1>10 DEF RecordAttempt, LifeInv, TypeOK, CopiesSound, Holding
  <2>2. num[m] = Len(mem[m].attempts) + 1 /\ num[m] \in Attempts /\ num[m] \in Nat
    BY <1>10 DEF RecordAttempt, LifeInv, TypeOK, Holding, InAttempt, Attempts
  <2>13. WithNew(d, mem[m], num[m])
    BY <2>1, <2>2, StartedLast
  <2>4. mem' = [mem EXCEPT ![m] = d] /\ meta' \in {meta, d}
    BY <1>10 DEF RecordAttempt, Save, Started, StartedOf
  <2> HIDE DEF d
  <2>3. /\ d \in MetaType /\ d.delivered = mem[m].delivered
        /\ Len(d.attempts) = num[m]
        /\ \A i \in 1 .. Len(mem[m].attempts) : d.attempts[i] = mem[m].attempts[i]
        /\ d.attempts[num[m]] = [number |-> num[m], status |-> "starting", flag |-> "absent",
                                 evidence |-> FALSE]
    BY <2>13 DEF WithNew
  <2>5. Sound(d, good')
    <3>1. Len(mem[m].attempts) \in Nat
      BY <2>1 DEF MetaType
    <3>2. ASSUME NEW i \in 1 .. Len(d.attempts)
          PROVE  /\ d.attempts[i].number = i /\ i \in Attempts
                 /\ Materializable(d.attempts[i]) => i \in good
      <4>1. CASE i = num[m]
        BY <4>1, <2>2, <2>3 DEF Materializable
      <4>2. CASE i # num[m]
        <5>1. i \in 1 .. Len(mem[m].attempts)
          BY <4>2, <3>1, <2>2, <2>3
        <5> QED BY <5>1, <2>1, <2>3 DEF Sound
      <4> QED BY <4>1, <4>2
    <3> QED BY <3>2, <2>1, <2>3 DEF Sound
  <2>6. /\ CopiesSound'
        /\ mem' \in [Managers -> MetaType \union {None}]
        /\ meta' \in MetaType \union {None}
    BY <2>1, <2>3, <2>4, <2>5, NewCopy
  <2>7. d # None
    BY <2>3
  <2>11. TypeOK'
    BY <1>10, <2>1, <2>2, <2>3, <2>4, <2>6, <2>7 DEF RecordAttempt, LifeInv, TypeOK, Steps, Goto, Save, disk
  <2>8. CreatedOnce'
    BY <1>10, <2>1, <2>2, <2>3, <2>4, <2>6, <2>7 DEF RecordAttempt, LifeInv, TypeOK, CreatedOnce, Recorded, Goto, Save, disk
  <2>12. AttemptDirIsExclusive'
    BY <1>10, <2>1, <2>2, <2>3, <2>4, <2>6, <2>7 DEF RecordAttempt, LifeInv, TypeOK, Holding, AttemptDirIsExclusive, InAttempt,
       Goto, Save, disk
  <2>9. ASSUME NEW o \in Managers PROVE Holding(o)'
    <3>1. CASE o = m
      BY <1>10, <2>1, <2>2, <2>3, <2>4, <2>6, <2>7, <3>1 DEF RecordAttempt, LifeInv, TypeOK, Holding, InAttempt, Recorded, Goto, Save, disk
    <3>2. CASE o # m
      BY <1>10, <2>1, <2>2, <2>3, <2>4, <2>6, <2>7, <3>2 DEF RecordAttempt, LifeInv, TypeOK, Holding, InAttempt, Recorded, Goto, Save, disk
    <3> QED BY <3>1, <3>2
  <2>10. (output \in Nat => output \in good)'
    BY <1>10 DEF RecordAttempt, LifeInv, disk
  <2> QED BY <2>6, <2>11, <2>8, <2>12, <2>9, <2>10 DEF LifeInv
<1>11. ASSUME NEW m \in Managers, LaunchAborted(m) PROVE LifeInv'
  BY <1>11 DEF LaunchAborted, LifeInv, TypeOK, CopiesSound, Sound, CreatedOnce,
       AttemptDirIsExclusive, Holding, InAttempt, Recorded, Steps, Attempts, Exit, Goto, Start,
       Save, disk
<1>12. ASSUME NEW m \in Managers, LaunchFails(m) PROVE LifeInv'
  <2> DEFINE d == Amended(m, "launch-failed", "absent", FALSE)
  <2>1. good \subseteq good' /\ good' \subseteq Attempts /\ pc[m] \in Recorded
    BY <1>12, OwnAttempt DEF LaunchFails, LifeInv, TypeOK, Recorded, disk
  <2>2. /\ d \in MetaType /\ Sound(d, good')
        /\ Len(d.attempts) = Len(mem[m].attempts)
    BY <1>12, <2>1, AmendedSound DEF LaunchFails, Statuses
  <2>3. mem' = [mem EXCEPT ![m] = None] /\ meta' = d /\ good' = good
    BY <1>12 DEF LaunchFails, Exit
  <2> HIDE DEF d
  <2>4. /\ CopiesSound'
        /\ mem' \in [Managers -> MetaType \union {None}]
        /\ meta' \in MetaType \union {None}
    BY <2>2, <2>3 DEF LifeInv, TypeOK, CopiesSound
  <2>5. mem[m] # None /\ d # None
    BY <2>1, <2>2, OwnAttempt
  <2>9. TypeOK'
    BY <1>12, <2>2, <2>3, <2>4, <2>5 DEF LaunchFails, LifeInv, TypeOK, Steps, Exit
  <2>6. CreatedOnce'
    BY <1>12, <2>2, <2>3, <2>4, <2>5 DEF LaunchFails, LifeInv, TypeOK, CreatedOnce, Recorded, Exit
  <2>10. AttemptDirIsExclusive'
    BY <1>12, <2>2, <2>3, <2>4, <2>5 DEF LaunchFails, LifeInv, TypeOK, Holding, AttemptDirIsExclusive, InAttempt,
       Exit
  <2>7. ASSUME NEW o \in Managers PROVE Holding(o)'
    <3>1. CASE o = m
      BY <1>12, <2>2, <2>3, <2>4, <2>5, <3>1 DEF LaunchFails, LifeInv, TypeOK, Holding, InAttempt, Recorded, Exit
    <3>2. CASE o # m
      BY <1>12, <2>2, <2>3, <2>4, <2>5, <3>2 DEF LaunchFails, LifeInv, TypeOK, Holding, InAttempt, Recorded, Exit
    <3> QED BY <3>1, <3>2
  <2>8. (output \in Nat => output \in good)'
    BY <1>12 DEF LaunchFails, LifeInv, disk
  <2> QED BY <2>4, <2>9, <2>6, <2>10, <2>7, <2>8 DEF LifeInv
<1>13. ASSUME NEW m \in Managers, Spawn(m) PROVE LifeInv'
  <2>1. num[m] \in Attempts
    BY <1>13, OwnAttempt DEF Spawn, Recorded
  <2>2. CopiesSound'
    BY <1>13 DEF Spawn, LifeInv, CopiesSound, Sound, disk
  <2>6. TypeOK'
    BY <1>13, <2>1 DEF Spawn, LifeInv, TypeOK, Steps, Goto, Save, disk
  <2>3. CreatedOnce'
    BY <1>13, <2>1 DEF Spawn, LifeInv, TypeOK, CreatedOnce, Recorded, Goto, Save, disk
  <2>7. AttemptDirIsExclusive'
    BY <1>13, <2>1 DEF Spawn, LifeInv, TypeOK, Holding, AttemptDirIsExclusive, InAttempt,
       Goto, Save, disk
  <2>4. ASSUME NEW o \in Managers PROVE Holding(o)'
    <3>1. CASE o = m
      BY <1>13, <2>1, <3>1 DEF Spawn, LifeInv, TypeOK, Holding, InAttempt, Recorded, Goto, Save, disk
    <3>2. CASE o # m
      BY <1>13, <2>1, <3>2 DEF Spawn, LifeInv, TypeOK, Holding, InAttempt, Recorded, Goto, Save, disk
    <3> QED BY <3>1, <3>2
  <2>5. (output \in Nat => output \in good)'
    BY <1>13 DEF Spawn, LifeInv, disk
  <2> QED BY <2>2, <2>6, <2>3, <2>7, <2>4, <2>5 DEF LifeInv
<1>14. ASSUME NEW m \in Managers, RecordRunning(m) PROVE LifeInv'
  <2> DEFINE d == Amended(m, "running", "absent", FALSE)
  <2>1. good \subseteq good' /\ good' \subseteq Attempts /\ pc[m] \in Recorded
    BY <1>14, OwnAttempt DEF RecordRunning, LifeInv, TypeOK, Recorded, disk
  <2>2. /\ d \in MetaType /\ Sound(d, good')
        /\ Len(d.attempts) = Len(mem[m].attempts)
    BY <1>14, <2>1, AmendedSound DEF RecordRunning, Statuses
  <2>3. mem' = [mem EXCEPT ![m] = d] /\ meta' \in {meta, d}
    BY <1>14 DEF RecordRunning, Save, disk
  <2> HIDE DEF d
  <2>4. /\ CopiesSound'
        /\ mem' \in [Managers -> MetaType \union {None}]
        /\ meta' \in MetaType \union {None}
    BY <2>1, <2>2, <2>3, NewCopy
  <2>5. num[m] = Len(mem[m].attempts) /\ num[m] \in Attempts /\ mem[m] # None /\ d # None
    BY <2>1, <2>2, OwnAttempt
  <2>9. TypeOK'
    BY <1>14, <2>1, <2>2, <2>3, <2>4, <2>5 DEF RecordRunning, LifeInv, TypeOK, Steps, Goto, Save, disk
  <2>6. CreatedOnce'
    BY <1>14, <2>1, <2>2, <2>3, <2>4, <2>5 DEF RecordRunning, LifeInv, TypeOK, CreatedOnce, Recorded, Goto, Save, disk
  <2>10. AttemptDirIsExclusive'
    BY <1>14, <2>1, <2>2, <2>3, <2>4, <2>5 DEF RecordRunning, LifeInv, TypeOK, Holding, AttemptDirIsExclusive, InAttempt,
       Goto, Save, disk
  <2>7. ASSUME NEW o \in Managers PROVE Holding(o)'
    <3>1. CASE o = m
      BY <1>14, <2>1, <2>2, <2>3, <2>4, <2>5, <3>1 DEF RecordRunning, LifeInv, TypeOK, Holding, InAttempt, Recorded, Goto, Save, disk
    <3>2. CASE o # m
      BY <1>14, <2>1, <2>2, <2>3, <2>4, <2>5, <3>2 DEF RecordRunning, LifeInv, TypeOK, Holding, InAttempt, Recorded, Goto, Save, disk
    <3> QED BY <3>1, <3>2
  <2>8. (output \in Nat => output \in good)'
    BY <2>1, <1>14 DEF RecordRunning, LifeInv, disk
  <2> QED BY <2>4, <2>9, <2>6, <2>10, <2>7, <2>8 DEF LifeInv
<1>15. ASSUME NEW m \in Managers, CopyResult(m) PROVE LifeInv'
  BY <1>15 DEF CopyResult, LifeInv, TypeOK, CopiesSound, Sound, CreatedOnce,
       AttemptDirIsExclusive, Holding, InAttempt, Recorded, Steps, Attempts, Exit, Goto, Start,
       Save, disk
<1>16. ASSUME NEW m \in Managers, Escapes(m) PROVE LifeInv'
  BY <1>16 DEF Escapes, LifeInv, TypeOK, CopiesSound, Sound, CreatedOnce,
       AttemptDirIsExclusive, Holding, InAttempt, Recorded, Steps, Attempts, Exit, Goto, Start,
       Save, disk
<1>17. ASSUME NEW m \in Managers, EndGood(m) PROVE LifeInv'
  <2> DEFINE d == Amended(m, "terminal", "yes", TRUE)
  <2>1. good \subseteq good' /\ good' \subseteq Attempts /\ pc[m] \in Recorded
    BY <1>17, OwnAttempt DEF EndGood, LifeInv, TypeOK, Recorded, disk
  <2>2. /\ d \in MetaType /\ Sound(d, good')
        /\ Len(d.attempts) = Len(mem[m].attempts)
    BY <1>17, <2>1, AmendedSound DEF EndGood, Statuses
  <2>3. mem' = [mem EXCEPT ![m] = d] /\ meta' \in {meta, d}
    BY <1>17 DEF EndGood, Save, disk
  <2> HIDE DEF d
  <2>4. /\ CopiesSound'
        /\ mem' \in [Managers -> MetaType \union {None}]
        /\ meta' \in MetaType \union {None}
    BY <2>1, <2>2, <2>3, NewCopy
  <2>5. num[m] = Len(mem[m].attempts) /\ num[m] \in Attempts /\ mem[m] # None /\ d # None
    BY <2>1, <2>2, OwnAttempt
  <2>9. TypeOK'
    BY <1>17, <2>1, <2>2, <2>3, <2>4, <2>5 DEF EndGood, LifeInv, TypeOK, Steps, Goto, Save, disk
  <2>6. CreatedOnce'
    BY <1>17, <2>1, <2>2, <2>3, <2>4, <2>5 DEF EndGood, LifeInv, TypeOK, CreatedOnce, Recorded, Goto, Save, disk
  <2>10. AttemptDirIsExclusive'
    BY <1>17, <2>1, <2>2, <2>3, <2>4, <2>5 DEF EndGood, LifeInv, TypeOK, Holding, AttemptDirIsExclusive, InAttempt,
       Goto, Save, disk
  <2>7. ASSUME NEW o \in Managers PROVE Holding(o)'
    <3>1. CASE o = m
      BY <1>17, <2>1, <2>2, <2>3, <2>4, <2>5, <3>1 DEF EndGood, LifeInv, TypeOK, Holding, InAttempt, Recorded, Goto, Save, disk
    <3>2. CASE o # m
      BY <1>17, <2>1, <2>2, <2>3, <2>4, <2>5, <3>2 DEF EndGood, LifeInv, TypeOK, Holding, InAttempt, Recorded, Goto, Save, disk
    <3> QED BY <3>1, <3>2
  <2>8. (output \in Nat => output \in good)'
    BY <2>1, <1>17 DEF EndGood, LifeInv, disk
  <2> QED BY <2>4, <2>9, <2>6, <2>10, <2>7, <2>8 DEF LifeInv
<1>18. ASSUME NEW m \in Managers, EndBad(m) PROVE LifeInv'
  <2>0. PICK status \in {"terminal", "interrupted"}, evidence \in BOOLEAN :
          mem' = [mem EXCEPT ![m] = Amended(m, status, "no", evidence)]
    BY <1>18 DEF EndBad
  <2> DEFINE d == Amended(m, status, "no", evidence)
  <2>1. good \subseteq good' /\ good' \subseteq Attempts /\ pc[m] \in Recorded
    BY <1>18, OwnAttempt DEF EndBad, LifeInv, TypeOK, Recorded, disk
  <2>2. /\ d \in MetaType /\ Sound(d, good')
        /\ Len(d.attempts) = Len(mem[m].attempts)
    BY <1>18, <2>1, AmendedSound DEF EndBad, Statuses
  <2>3. mem' = [mem EXCEPT ![m] = d] /\ meta' \in {meta, d}
    BY <1>18, <2>0 DEF EndBad, Save, disk
  <2> HIDE DEF d
  <2>4. /\ CopiesSound'
        /\ mem' \in [Managers -> MetaType \union {None}]
        /\ meta' \in MetaType \union {None}
    BY <2>1, <2>2, <2>3, NewCopy
  <2>5. num[m] = Len(mem[m].attempts) /\ num[m] \in Attempts /\ mem[m] # None /\ d # None
    BY <2>1, <2>2, OwnAttempt
  <2>9. TypeOK'
    BY <1>18, <2>1, <2>2, <2>3, <2>4, <2>5 DEF EndBad, LifeInv, TypeOK, Steps, Goto, Save, disk
  <2>6. CreatedOnce'
    BY <1>18, <2>1, <2>2, <2>3, <2>4, <2>5 DEF EndBad, LifeInv, TypeOK, CreatedOnce, Recorded, Goto, Save, disk
  <2>10. AttemptDirIsExclusive'
    BY <1>18, <2>1, <2>2, <2>3, <2>4, <2>5 DEF EndBad, LifeInv, TypeOK, Holding, AttemptDirIsExclusive, InAttempt,
       Goto, Save, disk
  <2>7. ASSUME NEW o \in Managers PROVE Holding(o)'
    <3>1. CASE o = m
      BY <1>18, <2>1, <2>2, <2>3, <2>4, <2>5, <3>1 DEF EndBad, LifeInv, TypeOK, Holding, InAttempt, Recorded, Goto, Save, disk
    <3>2. CASE o # m
      BY <1>18, <2>1, <2>2, <2>3, <2>4, <2>5, <3>2 DEF EndBad, LifeInv, TypeOK, Holding, InAttempt, Recorded, Goto, Save, disk
    <3> QED BY <3>1, <3>2
  <2>8. (output \in Nat => output \in good)'
    BY <2>1, <1>18 DEF EndBad, LifeInv, disk
  <2> QED BY <2>4, <2>9, <2>6, <2>10, <2>7, <2>8 DEF LifeInv
<1>19. ASSUME NEW m \in Managers, CheckOutput(m) PROVE LifeInv'
  <2>1. num[m] \in good /\ mem[m] # None
    <3>1. /\ mem[m] # None /\ Sound(mem[m], good) /\ num[m] \in 1 .. Len(mem[m].attempts)
      BY <1>19, OwnAttempt DEF CheckOutput, Recorded
    <3>2. Materializable(mem[m].attempts[num[m]])
      BY <1>19 DEF CheckOutput, Deliverable, WorkingOn, Materializable
    <3> QED BY <3>1, <3>2 DEF Sound
  <2>2. CopiesSound'
    BY <1>19 DEF CheckOutput, LifeInv, CopiesSound, Sound, disk
  <2>6. TypeOK'
    BY <1>19, <2>1 DEF CheckOutput, LifeInv, TypeOK, Steps, Goto, Save, disk
  <2>3. CreatedOnce'
    BY <1>19, <2>1 DEF CheckOutput, LifeInv, TypeOK, CreatedOnce, Recorded, Goto, Save, disk
  <2>7. AttemptDirIsExclusive'
    BY <1>19, <2>1 DEF CheckOutput, LifeInv, TypeOK, Holding, AttemptDirIsExclusive, InAttempt,
       Goto, Save, disk
  <2>4. ASSUME NEW o \in Managers PROVE Holding(o)'
    <3>1. CASE o = m
      BY <1>19, <2>1, <3>1 DEF CheckOutput, LifeInv, TypeOK, Holding, InAttempt, Recorded, Goto, Save, disk
    <3>2. CASE o # m
      BY <1>19, <2>1, <3>2 DEF CheckOutput, LifeInv, TypeOK, Holding, InAttempt, Recorded, Goto, Save, disk
    <3> QED BY <3>1, <3>2
  <2>5. (output \in Nat => output \in good)'
    BY <1>19 DEF CheckOutput, LifeInv, disk
  <2> QED BY <2>2, <2>6, <2>3, <2>7, <2>4, <2>5 DEF LifeInv
<1>20. ASSUME NEW m \in Managers, Deliver(m) PROVE LifeInv'
  <2> DEFINE d == [mem[m] EXCEPT !.delivered = num[m]]
  <2>1. good \subseteq good' /\ pc[m] \in Recorded /\ num[m] \in good
    BY <1>20 DEF Deliver, LifeInv, Holding, Recorded
  <2>2. /\ d \in MetaType /\ Sound(d, good')
        /\ Len(d.attempts) = Len(mem[m].attempts)
    <3>1. mem[m] \in MetaType /\ Sound(mem[m], good) /\ num[m] \in Nat
      BY <2>1, OwnAttempt DEF Attempts
    <3>2. d \in MetaType /\ d.attempts = mem[m].attempts /\ d.delivered = num[m]
      BY <3>1 DEF MetaType
    <3> QED BY <1>20, <2>1, <3>1, <3>2 DEF Deliver, Sound
  <2>3. mem' = [mem EXCEPT ![m] = d] /\ meta' \in {meta, d}
    BY <1>20 DEF Deliver, RefusedOf, disk
  <2> HIDE DEF d
  <2>4. /\ CopiesSound'
        /\ mem' \in [Managers -> MetaType \union {None}]
        /\ meta' \in MetaType \union {None}
    BY <2>1, <2>2, <2>3, NewCopy
  <2>5. num[m] = Len(mem[m].attempts) /\ num[m] \in Attempts /\ mem[m] # None /\ d # None
    BY <2>1, <2>2, OwnAttempt
  <2>9. TypeOK'
    BY <1>20, <2>1, <2>2, <2>3, <2>4, <2>5 DEF Deliver, LifeInv, TypeOK, Steps, Goto, Save, disk
  <2>6. CreatedOnce'
    BY <1>20, <2>1, <2>2, <2>3, <2>4, <2>5 DEF Deliver, LifeInv, TypeOK, CreatedOnce, Recorded, Goto, Save, disk
  <2>10. AttemptDirIsExclusive'
    BY <1>20, <2>1, <2>2, <2>3, <2>4, <2>5 DEF Deliver, LifeInv, TypeOK, Holding, AttemptDirIsExclusive, InAttempt,
       Goto, Save, disk
  <2>7. ASSUME NEW o \in Managers PROVE Holding(o)'
    <3>1. CASE o = m
      BY <1>20, <2>1, <2>2, <2>3, <2>4, <2>5, <3>1 DEF Deliver, LifeInv, TypeOK, Holding, InAttempt, Recorded, Goto, Save, disk
    <3>2. CASE o # m
      BY <1>20, <2>1, <2>2, <2>3, <2>4, <2>5, <3>2 DEF Deliver, LifeInv, TypeOK, Holding, InAttempt, Recorded, Goto, Save, disk
    <3> QED BY <3>1, <3>2
  <2>8. (output \in Nat => output \in good)'
    BY <2>1, <1>20 DEF Deliver, LifeInv, disk
  <2> QED BY <2>4, <2>9, <2>6, <2>10, <2>7, <2>8 DEF LifeInv
<1>21. ASSUME NEW m \in Managers, DeliveryRefused(m) PROVE LifeInv'
  <2> DEFINE d == RefusedOf(mem[m], num[m])
  <2>1. good \subseteq good' /\ pc[m] \in Recorded
    BY <1>21 DEF DeliveryRefused, Recorded, disk
  <2>2. /\ d \in MetaType /\ Sound(d, good')
        /\ Len(d.attempts) = Len(mem[m].attempts)
    BY <1>21, <2>1, RefusedSound DEF DeliveryRefused
  <2>3. mem' = [mem EXCEPT ![m] = d] /\ meta' \in {meta, d}
    BY <1>21 DEF DeliveryRefused, RefusedOf, disk
  <2> HIDE DEF d
  <2>4. /\ CopiesSound'
        /\ mem' \in [Managers -> MetaType \union {None}]
        /\ meta' \in MetaType \union {None}
    BY <2>1, <2>2, <2>3, NewCopy
  <2>5. num[m] = Len(mem[m].attempts) /\ num[m] \in Attempts /\ mem[m] # None /\ d # None
    BY <2>1, <2>2, OwnAttempt
  <2>9. TypeOK'
    BY <1>21, <2>1, <2>2, <2>3, <2>4, <2>5 DEF DeliveryRefused, LifeInv, TypeOK, Steps, Goto, Save, disk
  <2>6. CreatedOnce'
    BY <1>21, <2>1, <2>2, <2>3, <2>4, <2>5 DEF DeliveryRefused, LifeInv, TypeOK, CreatedOnce, Recorded, Goto, Save, disk
  <2>10. AttemptDirIsExclusive'
    BY <1>21, <2>1, <2>2, <2>3, <2>4, <2>5 DEF DeliveryRefused, LifeInv, TypeOK, Holding, AttemptDirIsExclusive, InAttempt,
       Goto, Save, disk
  <2>7. ASSUME NEW o \in Managers PROVE Holding(o)'
    <3>1. CASE o = m
      BY <1>21, <2>1, <2>2, <2>3, <2>4, <2>5, <3>1 DEF DeliveryRefused, LifeInv, TypeOK, Holding, InAttempt, Recorded, Goto, Save, disk
    <3>2. CASE o # m
      BY <1>21, <2>1, <2>2, <2>3, <2>4, <2>5, <3>2 DEF DeliveryRefused, LifeInv, TypeOK, Holding, InAttempt, Recorded, Goto, Save, disk
    <3> QED BY <3>1, <3>2
  <2>8. (output \in Nat => output \in good)'
    BY <2>1, <1>21 DEF DeliveryRefused, LifeInv, disk
  <2> QED BY <2>4, <2>9, <2>6, <2>10, <2>7, <2>8 DEF LifeInv
<1>22. ASSUME NEW m \in Managers, DeliveryFails(m) PROVE LifeInv'
  <2> DEFINE d == RefusedOf(mem[m], num[m])
  <2>1. good \subseteq good' /\ pc[m] \in Recorded
    BY <1>22 DEF DeliveryFails, Recorded, disk
  <2>2. /\ d \in MetaType /\ Sound(d, good')
        /\ Len(d.attempts) = Len(mem[m].attempts)
    BY <1>22, <2>1, RefusedSound DEF DeliveryFails
  <2>3. mem' = [mem EXCEPT ![m] = d] /\ meta' \in {meta, d}
    BY <1>22 DEF DeliveryFails, RefusedOf, disk
  <2> HIDE DEF d
  <2>4. /\ CopiesSound'
        /\ mem' \in [Managers -> MetaType \union {None}]
        /\ meta' \in MetaType \union {None}
    BY <2>1, <2>2, <2>3, NewCopy
  <2>5. num[m] = Len(mem[m].attempts) /\ num[m] \in Attempts /\ mem[m] # None /\ d # None
    BY <2>1, <2>2, OwnAttempt
  <2>9. TypeOK'
    BY <1>22, <2>1, <2>2, <2>3, <2>4, <2>5 DEF DeliveryFails, LifeInv, TypeOK, Steps, Goto, Save, disk
  <2>6. CreatedOnce'
    BY <1>22, <2>1, <2>2, <2>3, <2>4, <2>5 DEF DeliveryFails, LifeInv, TypeOK, CreatedOnce, Recorded, Goto, Save, disk
  <2>10. AttemptDirIsExclusive'
    BY <1>22, <2>1, <2>2, <2>3, <2>4, <2>5 DEF DeliveryFails, LifeInv, TypeOK, Holding, AttemptDirIsExclusive, InAttempt,
       Goto, Save, disk
  <2>7. ASSUME NEW o \in Managers PROVE Holding(o)'
    <3>1. CASE o = m
      BY <1>22, <2>1, <2>2, <2>3, <2>4, <2>5, <3>1 DEF DeliveryFails, LifeInv, TypeOK, Holding, InAttempt, Recorded, Goto, Save, disk
    <3>2. CASE o # m
      BY <1>22, <2>1, <2>2, <2>3, <2>4, <2>5, <3>2 DEF DeliveryFails, LifeInv, TypeOK, Holding, InAttempt, Recorded, Goto, Save, disk
    <3> QED BY <3>1, <3>2
  <2>8. (output \in Nat => output \in good)'
    BY <2>1, <1>22 DEF DeliveryFails, LifeInv, disk
  <2> QED BY <2>4, <2>9, <2>6, <2>10, <2>7, <2>8 DEF LifeInv
<1>23. ASSUME NEW m \in Managers, NothingToDeliver(m) PROVE LifeInv'
  BY <1>23 DEF NothingToDeliver, LifeInv, TypeOK, CopiesSound, Sound, CreatedOnce,
       AttemptDirIsExclusive, Holding, InAttempt, Recorded, Steps, Attempts, Exit, Goto, Start,
       Save, disk
<1>24. ASSUME NEW m \in Managers, Finish(m) PROVE LifeInv'
  BY <1>24 DEF Finish, LifeInv, TypeOK, CopiesSound, Sound, CreatedOnce,
       AttemptDirIsExclusive, Holding, InAttempt, Recorded, Steps, Attempts, Exit, Goto, Start,
       Save, disk
<1>25. ASSUME NEW m \in Managers, StartMaterialize(m) PROVE LifeInv'
  <2>1. PICK i \in Eligible, overwrite \in BOOLEAN :
          /\ num' = [num EXCEPT ![m] = meta.attempts[i].number]
          /\ asked' = [asked EXCEPT ![m] = overwrite]
    BY <1>25 DEF StartMaterialize
  <2>2. meta # None /\ Sound(meta, good)
    BY <1>25 DEF StartMaterialize, LifeInv, CopiesSound
  <2>3. /\ meta.attempts[i].number = i /\ i \in good /\ i \in Attempts
    BY <2>1, <2>2 DEF Eligible, Sound
  <2>4. CopiesSound'
    BY <1>25 DEF StartMaterialize, LifeInv, TypeOK, CopiesSound, Sound, disk
  <2>8. TypeOK'
    BY <1>25, <2>1, <2>2, <2>3 DEF StartMaterialize, LifeInv, TypeOK, Steps, Goto, Start, disk
  <2>5. CreatedOnce'
    BY <1>25, <2>1, <2>2, <2>3 DEF StartMaterialize, LifeInv, TypeOK, CreatedOnce, Recorded, Goto, Start, disk
  <2>9. AttemptDirIsExclusive'
    BY <1>25, <2>1, <2>2, <2>3 DEF StartMaterialize, LifeInv, TypeOK, Holding, AttemptDirIsExclusive, InAttempt,
       Goto, Start, disk
  <2>6. ASSUME NEW o \in Managers PROVE Holding(o)'
    <3>1. CASE o = m
      BY <1>25, <2>1, <2>2, <2>3, <3>1 DEF StartMaterialize, LifeInv, TypeOK, Holding, InAttempt, Recorded, Goto, Start, disk
    <3>2. CASE o # m
      BY <1>25, <2>1, <2>2, <2>3, <3>2 DEF StartMaterialize, LifeInv, TypeOK, Holding, InAttempt, Recorded, Goto, Start, disk
    <3> QED BY <3>1, <3>2
  <2>7. (output \in Nat => output \in good)'
    BY <1>25 DEF StartMaterialize, LifeInv, disk
  <2> QED BY <2>4, <2>8, <2>5, <2>9, <2>6, <2>7 DEF LifeInv
<1>26. ASSUME NEW m \in Managers, Rewrite(m) PROVE LifeInv'
  BY <1>26 DEF Rewrite, LifeInv, TypeOK, CopiesSound, Sound, CreatedOnce,
       AttemptDirIsExclusive, Holding, InAttempt, Recorded, Steps, Attempts, Exit, Goto, Start,
       Save, disk
<1>27. ASSUME NEW m \in Managers, RewriteFails(m) PROVE LifeInv'
  BY <1>27 DEF RewriteFails, LifeInv, TypeOK, CopiesSound, Sound, CreatedOnce,
       AttemptDirIsExclusive, Holding, InAttempt, Recorded, Steps, Attempts, Exit, Goto, Start,
       Save, disk
<1>28. ASSUME NEW m \in Managers, Crash(m) PROVE LifeInv'
  BY <1>28 DEF Crash, LifeInv, TypeOK, CopiesSound, Sound, CreatedOnce,
       AttemptDirIsExclusive, Holding, InAttempt, Recorded, Steps, Attempts, Exit, Goto, Start,
       Save, disk
<1>29. ASSUME NEW n \in Attempts, OrphanEnds(n) PROVE LifeInv'
  BY <1>29 DEF OrphanEnds, LifeInv, TypeOK, CopiesSound, Sound, CreatedOnce,
       AttemptDirIsExclusive, Holding, InAttempt, Recorded, Steps, Attempts, Exit, Goto, Start,
       Save, disk
<1>30. CASE UNCHANGED vars
  BY <1>30 DEF vars, LifeInv, TypeOK, CopiesSound, Sound, CreatedOnce,
       AttemptDirIsExclusive, Holding, InAttempt, Recorded, Steps, Attempts, Exit, Goto, Start,
       Save, disk
<1> QED
  BY ONLY [Next]_vars, <1>1, <1>2, <1>3, <1>4, <1>5, <1>6, <1>7, <1>8, <1>9, <1>10, <1>11, <1>12, <1>13, <1>14, <1>15, <1>16, <1>17, <1>18, <1>19, <1>20, <1>21, <1>22, <1>23, <1>24, <1>25, <1>26, <1>27, <1>28, <1>29, <1>30 DEF Next

\* Every reachable state of a run is well typed.
THEOREM LifecycleTypeCorrect == Spec => []TypeOK
<1>1. LifeInv => TypeOK
  BY DEF LifeInv
<1> QED BY <1>1, InitLifeInv, NextLifeInv, PTL DEF Spec

\* No two managers work in one attempt directory.
THEOREM DirectoriesAreExclusive == Spec => []AttemptDirIsExclusive
<1>1. LifeInv => AttemptDirIsExclusive
  BY DEF LifeInv
<1> QED BY <1>1, InitLifeInv, NextLifeInv, PTL DEF Spec

\* Whoever wrote the output or the metadata, however stale the copy was: what
\* they hold is of an attempt that met every criterion.
THEOREM DeliveredIsSuccess == Spec => []OnlySuccessIsDelivered
<1>1. LifeInv => OnlySuccessIsDelivered
  BY DEF LifeInv, CopiesSound, Sound, OnlySuccessIsDelivered
<1> QED BY <1>1, InitLifeInv, NextLifeInv, PTL DEF Spec

-----------------------------------------------------------------------------
(* Managers that take turns, dying where they like.                        *)

OneAtATime == \A m, o \in Managers : m # o => pc[m] = "idle" \/ pc[o] = "idle"

\* The copy of the one at work is the metadata, but for its own attempt.
InStep(m) ==
  /\ pc[m] \in {"loaded", "dir"} => mem[m] = meta
  /\ pc[m] \in Recorded =>
       /\ meta # None /\ Len(meta.attempts) = num[m]
       /\ \A i \in 1 .. num[m] - 1 : mem[m].attempts[i] = meta.attempts[i]
       /\ ~Ended(meta.attempts[num[m]])
  /\ pc[m] = "deliver" => output = None \/ Overwrite
  /\ pc[m] = "rewrite" => output = None \/ asked[m]

TurnsInv ==
  /\ LiveChildIsRecorded
  /\ ~overlap => OneAtATime /\ \A m \in Managers : InStep(m)

LEMMA InitTurnsInv == Init => TurnsInv
BY DEF Init, TurnsInv, LiveChildIsRecorded, OneAtATime, InStep, Recorded

\* A step of the one at work: nobody else is disturbed.
LEMMA OwnTurn ==
  ASSUME LifeInv, TurnsInv, NEW m \in Managers, pc[m] # "idle", overlap' = overlap,
         NEW step, pc' = [pc EXCEPT ![m] = step],
         LiveChildIsRecorded', ~overlap => InStep(m)'
  PROVE  TurnsInv'
<1> SUFFICES ASSUME ~overlap PROVE OneAtATime' /\ \A o \in Managers : InStep(o)'
  BY DEF TurnsInv
<1>1. \A o \in Managers \ {m} : pc'[o] = "idle"
  BY DEF LifeInv, TypeOK, TurnsInv, OneAtATime
<1>2. \A o \in Managers \ {m} : InStep(o)'
  BY <1>1 DEF InStep, Recorded
<1> QED BY <1>1, <1>2 DEF OneAtATime

LEMMA NextTurnsInv == LifeInv /\ TurnsInv /\ [Next]_vars => TurnsInv'
<1> SUFFICES ASSUME LifeInv, TurnsInv, [Next]_vars PROVE TurnsInv'
  OBVIOUS
<1> USE LifecycleAssumption
<1>1. ASSUME NEW m \in Managers, StartRun(m) PROVE TurnsInv'
  BY <1>1 DEF StartRun, LifeInv, TypeOK, Holding, InAttempt,
       TurnsInv, LiveChildIsRecorded, OneAtATime, InStep, Recorded, Exit, Goto, Start, Save, disk
<1>2. ASSUME NEW m \in Managers, MakeRunDir(m) PROVE TurnsInv'
  BY <1>2 DEF MakeRunDir, LifeInv, TypeOK, Holding, InAttempt,
       TurnsInv, LiveChildIsRecorded, OneAtATime, InStep, Recorded, Exit, Goto, Start, Save, disk
<1>3. ASSUME NEW m \in Managers, RunDirTaken(m) PROVE TurnsInv'
  BY <1>3 DEF RunDirTaken, LifeInv, TypeOK, Holding, InAttempt,
       TurnsInv, LiveChildIsRecorded, OneAtATime, InStep, Recorded, Exit, Goto, Start, Save, disk
<1>4. ASSUME NEW m \in Managers, RunRefused(m) PROVE TurnsInv'
  BY <1>4 DEF RunRefused, LifeInv, TypeOK, Holding, InAttempt,
       TurnsInv, LiveChildIsRecorded, OneAtATime, InStep, Recorded, Exit, Goto, Start, Save, disk
<1>5. ASSUME NEW m \in Managers, WriteMetadata(m) PROVE TurnsInv'
  <2>1. pc[m] = "made" /\ meta = None
    BY <1>5 DEF WriteMetadata, LifeInv, CreatedOnce
  <2>2. /\ mem' = [mem EXCEPT ![m] = meta'] /\ pc' = [pc EXCEPT ![m] = "loaded"]
        /\ alive' = alive /\ overlap' = overlap
    BY <1>5 DEF WriteMetadata, Save, Goto
  <2>8. LiveChildIsRecorded'
    BY <2>1, <2>2 DEF TurnsInv, LiveChildIsRecorded
  <2>9. InStep(m)'
    BY <2>2 DEF InStep, Recorded, LifeInv, TypeOK
  <2> QED BY <2>1, <2>2, <2>8, <2>9, OwnTurn
<1>6. ASSUME NEW m \in Managers, StartResume(m) PROVE TurnsInv'
  <2>1. /\ pc[m] = "idle" /\ pc' = [pc EXCEPT ![m] = "loaded"]
        /\ mem' = [mem EXCEPT ![m] = meta]
        /\ UNCHANGED <<meta, alive, output>>
        /\ overlap' = (overlap \/ \E o \in Managers \ {m} : pc[o] # "idle")
    BY <1>6 DEF StartResume, Goto, Start, disk
  <2>2. LiveChildIsRecorded'
    BY <2>1 DEF TurnsInv, LiveChildIsRecorded
  <2>3. ASSUME ~overlap' PROVE OneAtATime' /\ \A o \in Managers : InStep(o)'
    <3>1. \A o \in Managers \ {m} : pc'[o] = "idle"
      BY <2>1, <2>3 DEF LifeInv, TypeOK
    <3>2. pc'[m] = "loaded" /\ mem'[m] = meta'
      BY <2>1 DEF LifeInv, TypeOK
    <3>3. InStep(m)'
      BY <3>2 DEF InStep, Recorded
    <3>4. \A o \in Managers \ {m} : InStep(o)'
      BY <3>1 DEF InStep, Recorded
    <3> QED BY <3>1, <3>3, <3>4 DEF OneAtATime
  <2> QED BY <2>2, <2>3 DEF TurnsInv
<1>7. ASSUME NEW m \in Managers, MakeAttemptDir(m) PROVE TurnsInv'
  BY <1>7 DEF MakeAttemptDir, LifeInv, TypeOK, Holding, InAttempt,
       TurnsInv, LiveChildIsRecorded, OneAtATime, InStep, Recorded, Exit, Goto, Start, Save, disk
<1>8. ASSUME NEW m \in Managers, AttemptRefused(m) PROVE TurnsInv'
  BY <1>8 DEF AttemptRefused, LifeInv, TypeOK, Holding, InAttempt,
       TurnsInv, LiveChildIsRecorded, OneAtATime, InStep, Recorded, Exit, Goto, Start, Save, disk
<1>9. ASSUME NEW m \in Managers, PromptUnreadable(m) PROVE TurnsInv'
  BY <1>9 DEF PromptUnreadable, LifeInv, TypeOK, Holding, InAttempt,
       TurnsInv, LiveChildIsRecorded, OneAtATime, InStep, Recorded, Exit, Goto, Start, Save, disk
<1>10. ASSUME NEW m \in Managers, RecordAttempt(m) PROVE TurnsInv'
  <2> DEFINE d == StartedOf(mem[m], num[m])
  <2>1. mem[m] \in MetaType /\ num[m] = Len(mem[m].attempts) + 1 /\ num[m] \in Nat
    BY <1>10 DEF RecordAttempt, LifeInv, TypeOK, Holding, Attempts
  <2>5. WithNew(d, mem[m], num[m])
    BY <2>1, StartedLast
  <2>3. /\ mem' = [mem EXCEPT ![m] = d] /\ meta' = d /\ pc' = [pc EXCEPT ![m] = "recorded"]
        /\ pc[m] = "dir" /\ UNCHANGED <<num, alive, overlap, asked, output>>
    BY <1>10 DEF RecordAttempt, Save, Goto, Started, StartedOf
  <2> HIDE DEF d
  <2>2. /\ d \in MetaType /\ Len(d.attempts) = num[m]
        /\ \A i \in 1 .. Len(mem[m].attempts) : d.attempts[i] = mem[m].attempts[i]
        /\ d.attempts[num[m]] = [number |-> num[m], status |-> "starting", flag |-> "absent",
                                 evidence |-> FALSE]
    BY <2>5 DEF WithNew
  <2>4. d # None /\ d.attempts[num[m]].status = "starting"
    BY <2>2
  <2>8. LiveChildIsRecorded'
    <3>1. ASSUME NEW n \in alive, ~overlap PROVE n \in 1 .. Len(d.attempts)
      <4>1. meta # None /\ n \in 1 .. Len(meta.attempts)
        BY <3>1 DEF TurnsInv, LiveChildIsRecorded
      <4>2. mem[m] = meta
        BY <2>3, <3>1 DEF TurnsInv, InStep
      <4>3. Len(mem[m].attempts) \in Nat
        BY <2>1 DEF MetaType
      <4> QED BY <4>1, <4>2, <4>3, <2>1, <2>2
    <3> QED BY <3>1, <2>3, <2>4 DEF LiveChildIsRecorded
  <2>9. InStep(m)'
    BY <2>2, <2>3, <2>4 DEF InStep, Recorded, LifeInv, TypeOK, Ended
  <2> QED BY <2>3, <2>8, <2>9, OwnTurn
<1>11. ASSUME NEW m \in Managers, LaunchAborted(m) PROVE TurnsInv'
  BY <1>11 DEF LaunchAborted, LifeInv, TypeOK, Holding, InAttempt,
       TurnsInv, LiveChildIsRecorded, OneAtATime, InStep, Recorded, Exit, Goto, Start, Save, disk
<1>12. ASSUME NEW m \in Managers, LaunchFails(m) PROVE TurnsInv'
  <2> DEFINE d == Amended(m, "launch-failed", "absent", FALSE)
  <2>1. pc[m] \in Recorded /\ pc[m] # "idle"
    BY <1>12 DEF LaunchFails, Recorded
  <2>2. LastChanged(d, m, "launch-failed")
    BY <2>1, AmendedRest DEF Statuses
  <2>3. /\ d \in MetaType /\ Len(d.attempts) = num[m]
        /\ \A i \in 1 .. num[m] - 1 : d.attempts[i] = mem[m].attempts[i]
        /\ d.attempts[num[m]].status = "launch-failed"
    BY <2>2 DEF LastChanged
  <2>4. /\ mem' = [mem EXCEPT ![m] = None] /\ meta' = d
        /\ pc' = [pc EXCEPT ![m] = "idle"] /\ overlap' = overlap
        /\ alive' = alive
    BY <1>12 DEF LaunchFails, Exit
  <2> HIDE DEF d
  <2>6. d # None /\ num[m] \in Nat
    BY <2>1, <2>3, OwnAttempt DEF Attempts
  <2>8. LiveChildIsRecorded'
    BY <2>1, <2>3, <2>4, <2>6 DEF TurnsInv, InStep, LiveChildIsRecorded
  <2>9. InStep(m)'
    BY <2>4 DEF InStep, Recorded, LifeInv, TypeOK
  <2> QED BY <2>1, <2>4, <2>8, <2>9, OwnTurn
<1>13. ASSUME NEW m \in Managers, Spawn(m) PROVE TurnsInv'
  <2>1. /\ pc[m] = "recorded" /\ pc' = [pc EXCEPT ![m] = "spawned"]
        /\ alive' = alive \union {num[m]}
        /\ UNCHANGED <<meta, mem, num, overlap>>
    BY <1>13 DEF Spawn, Goto, disk
  <2>2. num[m] \in Nat \ {0}
    BY <2>1, OwnAttempt DEF Recorded, Attempts
  <2>8. LiveChildIsRecorded'
    BY <2>1, <2>2 DEF TurnsInv, InStep, Recorded, LiveChildIsRecorded
  <2>9. ~overlap => InStep(m)'
    BY <2>1 DEF InStep, Recorded, LifeInv, TypeOK, TurnsInv
  <2> QED BY <2>1, <2>8, <2>9, OwnTurn
<1>14. ASSUME NEW m \in Managers, RecordRunning(m) PROVE TurnsInv'
  <2> DEFINE d == Amended(m, "running", "absent", FALSE)
  <2>1. pc[m] \in Recorded /\ pc[m] # "idle"
    BY <1>14 DEF RecordRunning, Recorded
  <2>2. LastChanged(d, m, "running")
    BY <2>1, AmendedRest DEF Statuses
  <2>3. /\ d \in MetaType /\ Len(d.attempts) = num[m]
        /\ \A i \in 1 .. num[m] - 1 : d.attempts[i] = mem[m].attempts[i]
        /\ d.attempts[num[m]].status = "running"
    BY <2>2 DEF LastChanged
  <2>4. /\ mem' = [mem EXCEPT ![m] = d] /\ meta' = d
        /\ pc' = [pc EXCEPT ![m] = "running"] /\ overlap' = overlap
        /\ alive' = alive
    BY <1>14 DEF RecordRunning, Goto, Save
  <2>5. num' = num
    BY <1>14 DEF RecordRunning
  <2> HIDE DEF d
  <2>6. d # None /\ num[m] \in Nat
    BY <2>1, <2>3, OwnAttempt DEF Attempts
  <2>8. LiveChildIsRecorded'
    BY <2>1, <2>3, <2>4, <2>6 DEF TurnsInv, InStep, LiveChildIsRecorded
  <2>9. ~overlap => InStep(m)'
    BY <2>1, <2>3, <2>4, <2>5, <2>6 DEF InStep, Recorded, LifeInv, TypeOK, TurnsInv, Ended
  <2> QED BY <2>1, <2>4, <2>8, <2>9, OwnTurn
<1>15. ASSUME NEW m \in Managers, CopyResult(m) PROVE TurnsInv'
  BY <1>15 DEF CopyResult, LifeInv, TypeOK, Holding, InAttempt,
       TurnsInv, LiveChildIsRecorded, OneAtATime, InStep, Recorded, Exit, Goto, Start, Save, disk
<1>16. ASSUME NEW m \in Managers, Escapes(m) PROVE TurnsInv'
  BY <1>16 DEF Escapes, LifeInv, TypeOK, Holding, InAttempt,
       TurnsInv, LiveChildIsRecorded, OneAtATime, InStep, Recorded, Exit, Goto, Start, Save, disk
<1>17. ASSUME NEW m \in Managers, EndGood(m) PROVE TurnsInv'
  <2> DEFINE d == Amended(m, "terminal", "yes", TRUE)
  <2>1. pc[m] \in Recorded /\ pc[m] # "idle"
    BY <1>17 DEF EndGood, Recorded
  <2>2. LastChanged(d, m, "terminal")
    BY <2>1, AmendedRest DEF Statuses
  <2>3. /\ d \in MetaType /\ Len(d.attempts) = num[m]
        /\ \A i \in 1 .. num[m] - 1 : d.attempts[i] = mem[m].attempts[i]
        /\ d.attempts[num[m]].status = "terminal"
    BY <2>2 DEF LastChanged
  <2>4. /\ mem' = [mem EXCEPT ![m] = d] /\ meta' = meta
        /\ pc' = [pc EXCEPT ![m] = "ended"] /\ overlap' = overlap
        /\ alive' = alive \ {num[m]}
    BY <1>17 DEF EndGood, Goto, disk
  <2>5. num' = num
    BY <1>17 DEF EndGood
  <2> HIDE DEF d
  <2>6. d # None /\ num[m] \in Nat
    BY <2>1, <2>3, OwnAttempt DEF Attempts
  <2>8. LiveChildIsRecorded'
    BY <2>1, <2>3, <2>4, <2>6 DEF TurnsInv, InStep, LiveChildIsRecorded
  <2>9. ~overlap => InStep(m)'
    BY <2>1, <2>3, <2>4, <2>5, <2>6 DEF InStep, Recorded, LifeInv, TypeOK, TurnsInv, Ended
  <2> QED BY <2>1, <2>4, <2>8, <2>9, OwnTurn
<1>18. ASSUME NEW m \in Managers, EndBad(m) PROVE TurnsInv'
  <2>0. PICK status \in {"terminal", "interrupted"}, evidence \in BOOLEAN :
          mem' = [mem EXCEPT ![m] = Amended(m, status, "no", evidence)]
    BY <1>18 DEF EndBad
  <2> DEFINE d == Amended(m, status, "no", evidence)
  <2>1. pc[m] \in Recorded /\ pc[m] # "idle"
    BY <1>18 DEF EndBad, Recorded
  <2>2. LastChanged(d, m, status)
    BY <2>1, AmendedRest DEF Statuses
  <2>3. /\ d \in MetaType /\ Len(d.attempts) = num[m]
        /\ \A i \in 1 .. num[m] - 1 : d.attempts[i] = mem[m].attempts[i]
        /\ d.attempts[num[m]].status = status
    BY <2>2 DEF LastChanged
  <2>4. /\ mem' = [mem EXCEPT ![m] = d] /\ meta' = meta
        /\ pc' = [pc EXCEPT ![m] = "ended"] /\ overlap' = overlap
        /\ alive' = alive \ {num[m]}
    BY <1>18, <2>0 DEF EndBad, Goto, disk
  <2>5. num' = num
    BY <1>18 DEF EndBad
  <2> HIDE DEF d
  <2>6. d # None /\ num[m] \in Nat
    BY <2>1, <2>3, OwnAttempt DEF Attempts
  <2>8. LiveChildIsRecorded'
    BY <2>1, <2>3, <2>4, <2>6 DEF TurnsInv, InStep, LiveChildIsRecorded
  <2>9. ~overlap => InStep(m)'
    BY <2>1, <2>3, <2>4, <2>5, <2>6 DEF InStep, Recorded, LifeInv, TypeOK, TurnsInv, Ended
  <2> QED BY <2>1, <2>4, <2>8, <2>9, OwnTurn
<1>19. ASSUME NEW m \in Managers, CheckOutput(m) PROVE TurnsInv'
  BY <1>19 DEF CheckOutput, LifeInv, TypeOK, Holding, InAttempt,
       TurnsInv, LiveChildIsRecorded, OneAtATime, InStep, Recorded, Exit, Goto, Start, Save, disk
<1>20. ASSUME NEW m \in Managers, Deliver(m) PROVE TurnsInv'
  BY <1>20 DEF Deliver, LifeInv, TypeOK, Holding, InAttempt,
       TurnsInv, LiveChildIsRecorded, OneAtATime, InStep, Recorded, Exit, Goto, Start, Save, disk
<1>21. ASSUME NEW m \in Managers, DeliveryRefused(m) PROVE TurnsInv'
  BY <1>21 DEF DeliveryRefused, LifeInv, TypeOK, Holding, InAttempt,
       TurnsInv, LiveChildIsRecorded, OneAtATime, InStep, Recorded, Exit, Goto, Start, Save, disk
<1>22. ASSUME NEW m \in Managers, DeliveryFails(m) PROVE TurnsInv'
  BY <1>22 DEF DeliveryFails, LifeInv, TypeOK, Holding, InAttempt,
       TurnsInv, LiveChildIsRecorded, OneAtATime, InStep, Recorded, Exit, Goto, Start, Save, disk
<1>23. ASSUME NEW m \in Managers, NothingToDeliver(m) PROVE TurnsInv'
  BY <1>23 DEF NothingToDeliver, LifeInv, TypeOK, Holding, InAttempt,
       TurnsInv, LiveChildIsRecorded, OneAtATime, InStep, Recorded, Exit, Goto, Start, Save, disk
<1>24. ASSUME NEW m \in Managers, Finish(m) PROVE TurnsInv'
  BY <1>24 DEF Finish, LifeInv, TypeOK, Holding, InAttempt,
       TurnsInv, LiveChildIsRecorded, OneAtATime, InStep, Recorded, Exit, Goto, Start, Save, disk
<1>25. ASSUME NEW m \in Managers, StartMaterialize(m) PROVE TurnsInv'
  <2>1. PICK overwrite \in BOOLEAN :
          /\ output = None \/ overwrite
          /\ asked' = [asked EXCEPT ![m] = overwrite]
    BY <1>25 DEF StartMaterialize
  <2>2. /\ pc[m] = "idle" /\ pc' = [pc EXCEPT ![m] = "rewrite"]
        /\ UNCHANGED <<meta, alive, output>>
        /\ overlap' = (overlap \/ \E o \in Managers \ {m} : pc[o] # "idle")
    BY <1>25 DEF StartMaterialize, Goto, Start, disk
  <2>3. LiveChildIsRecorded'
    BY <2>2 DEF TurnsInv, LiveChildIsRecorded
  <2>4. ASSUME ~overlap' PROVE OneAtATime' /\ \A o \in Managers : InStep(o)'
    <3>1. \A o \in Managers \ {m} : pc'[o] = "idle"
      BY <2>2, <2>4 DEF LifeInv, TypeOK
    <3>2. InStep(m)'
      BY <2>1, <2>2 DEF InStep, Recorded, LifeInv, TypeOK
    <3>3. \A o \in Managers \ {m} : InStep(o)'
      BY <3>1 DEF InStep, Recorded
    <3> QED BY <3>1, <3>2, <3>3 DEF OneAtATime
  <2> QED BY <2>3, <2>4 DEF TurnsInv
<1>26. ASSUME NEW m \in Managers, Rewrite(m) PROVE TurnsInv'
  BY <1>26 DEF Rewrite, LifeInv, TypeOK, Holding, InAttempt,
       TurnsInv, LiveChildIsRecorded, OneAtATime, InStep, Recorded, Exit, Goto, Start, Save, disk
<1>27. ASSUME NEW m \in Managers, RewriteFails(m) PROVE TurnsInv'
  BY <1>27 DEF RewriteFails, LifeInv, TypeOK, Holding, InAttempt,
       TurnsInv, LiveChildIsRecorded, OneAtATime, InStep, Recorded, Exit, Goto, Start, Save, disk
<1>28. ASSUME NEW m \in Managers, Crash(m) PROVE TurnsInv'
  BY <1>28 DEF Crash, LifeInv, TypeOK, Holding, InAttempt,
       TurnsInv, LiveChildIsRecorded, OneAtATime, InStep, Recorded, Exit, Goto, Start, Save, disk
<1>29. ASSUME NEW n \in Attempts, OrphanEnds(n) PROVE TurnsInv'
  BY <1>29 DEF OrphanEnds, LifeInv, TypeOK, Holding, InAttempt,
       TurnsInv, LiveChildIsRecorded, OneAtATime, InStep, Recorded, Exit, Goto, Start, Save, disk
<1>30. CASE UNCHANGED vars
  BY <1>30 DEF vars, LifeInv, TypeOK, Holding, InAttempt,
       TurnsInv, LiveChildIsRecorded, OneAtATime, InStep, Recorded, Exit, Goto, Start, Save, disk
<1> QED
  BY ONLY [Next]_vars, <1>1, <1>2, <1>3, <1>4, <1>5, <1>6, <1>7, <1>8, <1>9, <1>10, <1>11, <1>12, <1>13, <1>14, <1>15, <1>16, <1>17, <1>18, <1>19, <1>20, <1>21, <1>22, <1>23, <1>24, <1>25, <1>26, <1>27, <1>28, <1>29, <1>30 DEF Next

\* A child that lives is on record, for managers that take turns.
THEOREM LiveChildIsOnRecord == Spec => []LiveChildIsRecorded
<1>1. TurnsInv => LiveChildIsRecorded
  BY DEF TurnsInv
<1> QED BY <1>1, InitLifeInv, NextLifeInv, InitTurnsInv, NextTurnsInv, PTL DEF Spec

-----------------------------------------------------------------------------
(* What a step may do to the records and to the output.                    *)

\* The metadata d may take the place of the metadata there is.
Keeps(d) ==
  /\ d # None
  /\ ~overlap => EvidenceKept(meta, d)
  /\ d.attempts = << >> => meta.attempts = << >>

\* A manager past the record of its attempt saves a copy: only its own attempt
\* is another, and that had not ended.
LEMMA OwnRecordKeeps ==
  ASSUME LifeInv, TurnsInv, NEW m \in Managers, pc[m] \in Recorded, NEW status,
         NEW d, LastChanged(d, m, status)
  PROVE  Keeps(d)
<1> USE LifecycleAssumption
<1>1. /\ d \in MetaType /\ d # None /\ Len(d.attempts) = num[m]
      /\ \A i \in 1 .. num[m] - 1 : d.attempts[i] = mem[m].attempts[i]
  BY DEF LastChanged
<1>2. num[m] \in Nat /\ num[m] >= 1
  BY OwnAttempt DEF Attempts
<1>3. d.attempts # << >>
  BY <1>1, <1>2
<1>4. ASSUME ~overlap PROVE EvidenceKept(meta, d)
  <2>1. /\ Len(meta.attempts) = num[m]
        /\ \A i \in 1 .. num[m] - 1 : mem[m].attempts[i] = meta.attempts[i]
        /\ ~Ended(meta.attempts[num[m]])
    BY <1>4 DEF TurnsInv, InStep
  <2>2. ASSUME NEW i \in 1 .. Len(meta.attempts), Ended(meta.attempts[i])
        PROVE  d.attempts[i] = meta.attempts[i]
    <3>1. i # num[m]
      BY <2>1, <2>2
    <3>2. i \in 1 .. num[m] - 1
      BY <3>1, <2>1, <1>2
    <3> QED BY <3>2, <2>1, <1>1
  <2> QED BY <2>1, <2>2, <1>1, <1>2 DEF EvidenceKept
<1> QED BY <1>1, <1>3, <1>4 DEF Keeps

\* What is on disk may stay.
LEMMA SameKeeps == ASSUME LifeInv, meta # None PROVE Keeps(meta)
<1>1. Len(meta.attempts) \in Nat
  BY DEF LifeInv, TypeOK, MetaType
<1> QED BY <1>1 DEF Keeps, EvidenceKept

\* Every step keeps the records: most leave the metadata alone.
LEMMA NextKeeps ==
  ASSUME LifeInv, TurnsInv, [Next]_vars, meta # None
  PROVE  Keeps(meta') /\ (overlap => overlap')
<1> USE LifecycleAssumption
<1>0. Keeps(meta)
  BY SameKeeps
<1>1. ASSUME NEW m \in Managers, StartRun(m) PROVE Keeps(meta') /\ (overlap => overlap')
  BY <1>0, <1>1 DEF StartRun, Start, disk
<1>2. ASSUME NEW m \in Managers, MakeRunDir(m) PROVE Keeps(meta') /\ (overlap => overlap')
  BY <1>0, <1>2 DEF MakeRunDir, Start, disk
<1>3. ASSUME NEW m \in Managers, RunDirTaken(m) PROVE Keeps(meta') /\ (overlap => overlap')
  BY <1>0, <1>3 DEF RunDirTaken, Start, disk
<1>4. ASSUME NEW m \in Managers, RunRefused(m) PROVE Keeps(meta') /\ (overlap => overlap')
  BY <1>0, <1>4 DEF RunRefused, Start, disk
<1>5. ASSUME NEW m \in Managers, WriteMetadata(m) PROVE Keeps(meta') /\ (overlap => overlap')
  BY <1>5 DEF WriteMetadata, LifeInv, CreatedOnce
<1>6. ASSUME NEW m \in Managers, StartResume(m) PROVE Keeps(meta') /\ (overlap => overlap')
  BY <1>0, <1>6 DEF StartResume, Start, disk
<1>7. ASSUME NEW m \in Managers, MakeAttemptDir(m) PROVE Keeps(meta') /\ (overlap => overlap')
  BY <1>0, <1>7 DEF MakeAttemptDir, Start, disk
<1>8. ASSUME NEW m \in Managers, AttemptRefused(m) PROVE Keeps(meta') /\ (overlap => overlap')
  BY <1>0, <1>8 DEF AttemptRefused, Start, disk
<1>9. ASSUME NEW m \in Managers, PromptUnreadable(m) PROVE Keeps(meta') /\ (overlap => overlap')
  BY <1>0, <1>9 DEF PromptUnreadable, Start, disk
<1>10. ASSUME NEW m \in Managers, RecordAttempt(m) PROVE Keeps(meta') /\ (overlap => overlap')
  <2> DEFINE c == mem[m]
             d == StartedOf(c, num[m])
  <2>1. c \in MetaType /\ num[m] = Len(c.attempts) + 1 /\ num[m] \in Nat
    BY <1>10 DEF RecordAttempt, LifeInv, TypeOK, Holding, Attempts
  <2>2. /\ d \in MetaType /\ Len(d.attempts) = Len(c.attempts) + 1
        /\ \A k \in 1 .. Len(c.attempts) : d.attempts[k] = c.attempts[k]
    BY <2>1, StartedCopy
  <2>3. meta' = d /\ pc[m] = "dir" /\ overlap' = overlap
    BY <1>10 DEF RecordAttempt, Save, Started, StartedOf
  <2>4. ~overlap => c = meta
    BY <2>3 DEF TurnsInv, InStep
  <2> HIDE DEF c, d
  <2>5. Len(c.attempts) \in Nat
    BY <2>1 DEF MetaType
  <2>6. d # None /\ d.attempts # << >>
    BY <2>2, <2>5
  <2>7. ~overlap => EvidenceKept(meta, d)
    BY <2>2, <2>4, <2>5 DEF EvidenceKept
  <2> QED BY <2>3, <2>6, <2>7 DEF Keeps
<1>11. ASSUME NEW m \in Managers, LaunchAborted(m) PROVE Keeps(meta') /\ (overlap => overlap')
  BY <1>0, <1>11 DEF LaunchAborted, Start, disk
<1>12. ASSUME NEW m \in Managers, LaunchFails(m) PROVE Keeps(meta') /\ (overlap => overlap')
  <2> DEFINE d == Amended(m, "launch-failed", "absent", FALSE)
  <2>1. pc[m] \in Recorded
    BY <1>12 DEF LaunchFails, Recorded
  <2>2. LastChanged(d, m, "launch-failed")
    BY <2>1, AmendedRest DEF Statuses
  <2>3. meta' = d /\ overlap' = overlap
    BY <1>12 DEF LaunchFails, Save
  <2> HIDE DEF d
  <2> QED BY <2>1, <2>2, <2>3, OwnRecordKeeps
<1>13. ASSUME NEW m \in Managers, Spawn(m) PROVE Keeps(meta') /\ (overlap => overlap')
  BY <1>0, <1>13 DEF Spawn, Start, disk
<1>14. ASSUME NEW m \in Managers, RecordRunning(m) PROVE Keeps(meta') /\ (overlap => overlap')
  <2> DEFINE d == Amended(m, "running", "absent", FALSE)
  <2>1. pc[m] \in Recorded
    BY <1>14 DEF RecordRunning, Recorded
  <2>2. LastChanged(d, m, "running")
    BY <2>1, AmendedRest DEF Statuses
  <2>3. meta' = d /\ overlap' = overlap
    BY <1>14 DEF RecordRunning, Save
  <2> HIDE DEF d
  <2> QED BY <2>1, <2>2, <2>3, OwnRecordKeeps
<1>15. ASSUME NEW m \in Managers, CopyResult(m) PROVE Keeps(meta') /\ (overlap => overlap')
  BY <1>0, <1>15 DEF CopyResult, Start, disk
<1>16. ASSUME NEW m \in Managers, Escapes(m) PROVE Keeps(meta') /\ (overlap => overlap')
  BY <1>0, <1>16 DEF Escapes, Start, disk
<1>17. ASSUME NEW m \in Managers, EndGood(m) PROVE Keeps(meta') /\ (overlap => overlap')
  BY <1>0, <1>17 DEF EndGood, Start, disk
<1>18. ASSUME NEW m \in Managers, EndBad(m) PROVE Keeps(meta') /\ (overlap => overlap')
  BY <1>0, <1>18 DEF EndBad, Start, disk
<1>19. ASSUME NEW m \in Managers, CheckOutput(m) PROVE Keeps(meta') /\ (overlap => overlap')
  BY <1>0, <1>19 DEF CheckOutput, Start, disk
<1>20. ASSUME NEW m \in Managers, Deliver(m) PROVE Keeps(meta') /\ (overlap => overlap')
  BY <1>0, <1>20 DEF Deliver, Start, disk
<1>21. ASSUME NEW m \in Managers, DeliveryRefused(m) PROVE Keeps(meta') /\ (overlap => overlap')
  BY <1>0, <1>21 DEF DeliveryRefused, Start, disk
<1>22. ASSUME NEW m \in Managers, DeliveryFails(m) PROVE Keeps(meta') /\ (overlap => overlap')
  BY <1>0, <1>22 DEF DeliveryFails, Start, disk
<1>23. ASSUME NEW m \in Managers, NothingToDeliver(m) PROVE Keeps(meta') /\ (overlap => overlap')
  BY <1>0, <1>23 DEF NothingToDeliver, Start, disk
<1>24. ASSUME NEW m \in Managers, Finish(m) PROVE Keeps(meta') /\ (overlap => overlap')
  <2>1. pc[m] \in Recorded /\ meta' = mem[m] /\ overlap' = overlap
    BY <1>24 DEF Finish, Recorded
  <2>2. LastChanged(mem[m], m, mem[m].attempts[num[m]].status)
    BY <2>1, OwnAttempt DEF LastChanged
  <2> QED BY <2>1, <2>2, OwnRecordKeeps
<1>25. ASSUME NEW m \in Managers, StartMaterialize(m) PROVE Keeps(meta') /\ (overlap => overlap')
  BY <1>0, <1>25 DEF StartMaterialize, Start, disk
<1>26. ASSUME NEW m \in Managers, Rewrite(m) PROVE Keeps(meta') /\ (overlap => overlap')
  BY <1>0, <1>26 DEF Rewrite, Start, disk
<1>27. ASSUME NEW m \in Managers, RewriteFails(m) PROVE Keeps(meta') /\ (overlap => overlap')
  BY <1>0, <1>27 DEF RewriteFails, Start, disk
<1>28. ASSUME NEW m \in Managers, Crash(m) PROVE Keeps(meta') /\ (overlap => overlap')
  BY <1>0, <1>28 DEF Crash, Start, disk
<1>29. ASSUME NEW n \in Attempts, OrphanEnds(n) PROVE Keeps(meta') /\ (overlap => overlap')
  BY <1>0, <1>29 DEF OrphanEnds, disk
<1>30. CASE UNCHANGED vars
  BY <1>0, <1>30 DEF vars
<1> QED
  BY ONLY [Next]_vars, <1>0, <1>1, <1>2, <1>3, <1>4, <1>5, <1>6, <1>7, <1>8, <1>9, <1>10, <1>11, <1>12, <1>13, <1>14, <1>15, <1>16, <1>17, <1>18, <1>19, <1>20, <1>21, <1>22, <1>23, <1>24, <1>25, <1>26, <1>27, <1>28, <1>29, <1>30 DEF Next

\* No resume, crash or materialize takes a record from the metadata or changes
\* one that ended, for managers that take turns; and no second run, however it
\* overlaps the first, resets it.
THEOREM RecordsStay == Spec => EvidenceIsKept
<1>1. LifeInv /\ TurnsInv /\ [Next]_vars =>
        [meta # None =>
           /\ meta' # None
           /\ ~overlap' => EvidenceKept(meta, meta')
           /\ meta'.attempts = << >> => meta.attempts = << >>]_vars
  BY NextKeeps DEF Keeps
<1> QED BY <1>1, InitLifeInv, NextLifeInv, InitTurnsInv, NextTurnsInv, PTL DEF Spec, EvidenceIsKept

\* An output that is there changes in two steps only, and both were asked to.
LEMMA NextReplaces ==
  ASSUME LifeInv, TurnsInv, [Next]_vars, output # None, output' # output
  PROVE  overlap \/ \E m \in Managers : pc[m] \in {"deliver", "rewrite"} /\ asked[m]
<1>1. PICK m \in Managers : Deliver(m) \/ Rewrite(m)
  BY ZenonT(40) DEF Next, vars, disk, StartRun, MakeRunDir, RunDirTaken, RunRefused, WriteMetadata,
     StartResume, MakeAttemptDir, AttemptRefused, PromptUnreadable, RecordAttempt, LaunchAborted,
     LaunchFails, Spawn, RecordRunning, CopyResult, Escapes, EndGood, EndBad, CheckOutput,
     DeliveryRefused, DeliveryFails, NothingToDeliver, Finish, StartMaterialize, RewriteFails,
     Crash, OrphanEnds
<1>2. ASSUME ~overlap PROVE pc[m] \in {"deliver", "rewrite"} /\ asked[m]
  BY <1>1, <1>2 DEF Deliver, Rewrite, LifeInv, TypeOK, Holding, TurnsInv, InStep
<1> QED BY <1>2

\* A file that was there is replaced on request only, for managers that take turns.
THEOREM OutputIsKept == Spec => OutputReplacedOnRequest
<1>1. LifeInv /\ TurnsInv /\ [Next]_vars =>
        [output # None /\ output' # output =>
           overlap \/ \E m \in Managers : pc[m] \in {"deliver", "rewrite"} /\ asked[m]]_vars
  BY NextReplaces
<1> QED
  BY <1>1, InitLifeInv, NextLifeInv, InitTurnsInv, NextTurnsInv, PTL DEF Spec, OutputReplacedOnRequest
=============================================================================
