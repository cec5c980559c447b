---------------------------- MODULE CadenceProofs ----------------------------
(***************************************************************************)
(* Theorems about Cadence, for every length of an hour and of a run, every *)
(* number of guilds and every row that decides, 60, 10 and those of the    *)
(* code among them: when full runs start, and how old results become.      *)
(***************************************************************************)
EXTENDS Cadence, Integers, FiniteSetTheorems, SequenceTheorems,
        WellFoundedInduction, TLAPS

-----------------------------------------------------------------------------
\* The inductive invariant

\* start.py is before main or after it, and there are results to save only
\* while a full run goes on: those of the youngest checks, none older than the
\* run.
RunInv ==
    /\ ~(importing /\ Running)
    /\ ~Running => buffer = <<>>
    /\ ~Alive => elapsed = 0
    /\ Running => Len(buffer) = Least(Nth, Guilds - left)
    /\ \A i \in DOMAIN buffer : buffer[i] <= elapsed

\* The row that decides is not older than the beginning of the last full run
\* that saved its results.
StartSeen ==
    Guilds >= Nth /\ begun < MaxAge =>
        Len(results) = Nth /\ results[Nth] <= begun

\* Only rescans are younger than the last full run.
RescansOnly ==
    \A i \in DOMAIN results : i > scans => results[i] >= Least(since, MaxAge)

\* Rows do not get lost.
RowsStay == InitialRows = Nth => Len(results) = Nth

\* Where nothing runs, main found a run too early since the last full hour.
InTime ==
    InitialRows = Nth /\ ~failed /\ scans < Nth =>
        since <= IF Running THEN 3 * Hour + 1 + MaxImport + elapsed
                 ELSE IF importing THEN 3 * Hour + 1 + elapsed
                 ELSE IF due THEN 3 * Hour + 1 ELSE 2 * Hour + 1 + phase

IInv == TypeOK /\ RunInv /\ StartSeen /\ RescansOnly /\ RowsStay /\ InTime

-----------------------------------------------------------------------------
\* Rows in the order of their ages

Younger(s, age) == {i \in DOMAIN s : s[i] < age}
NotOlder(s, age) == {i \in DOMAIN s : s[i] <= age}

\* Places in a sequence can be counted.
LEMMA Places ==
    ASSUME NEW s \in Seq(Nat), NEW P \in SUBSET DOMAIN s
    PROVE  /\ IsFiniteSet(P) /\ Cardinality(P) \in Nat
           /\ \A Q \in SUBSET P : Cardinality(Q) \in Nat
                                  /\ Cardinality(Q) <= Cardinality(P)
  <1>1. DOMAIN s = 1..Len(s) /\ Len(s) \in Nat
      OBVIOUS
  <1>2. IsFiniteSet(1..Len(s))
      BY <1>1, FS_Interval
  <1>3. IsFiniteSet(P)
      BY <1>1, <1>2, FS_Subset
  <1> QED
      BY <1>3, FS_Subset, FS_CardinalityType

\* There are n places up to place n.
LEMMA FirstPlaces ==
    ASSUME NEW n \in Nat
    PROVE  Cardinality(1..n) = n
  <1>1. 1 \in Int /\ n \in Int
      OBVIOUS
  <1>2. Cardinality(1..n) = IF 1 > n THEN 0 ELSE n - 1 + 1
      BY <1>1, FS_Interval
  <1> QED
      BY <1>2

\* The smallest number of a set of numbers, where there is any.
LEMMA SmallestNumber ==
    ASSUME NEW S, S \subseteq Nat, S # {}
    PROVE  \E m \in S : \A n \in S : m <= n
  <1>1. PICK m \in S : \A n \in S : ~(<<n, m>> \in OpToRel(<, Nat))
      BY NatLessThanWellFounded, WFMin
  <1>2. ASSUME NEW n \in S
        PROVE  m <= n
    <2>1. m \in Nat /\ n \in Nat
        OBVIOUS
    <2>2. <<n, m>> \in Nat \X Nat
        BY <2>1
    <2>3. ~(<<n, m>>[1] < <<n, m>>[2])
        BY <1>1, <2>2, Zenon DEF OpToRel
    <2> QED
        BY <2>1, <2>3
  <1> QED
      BY <1>2

\* Every place has an age.
LEMMA AgeExists ==
    ASSUME NEW s \in Seq(0..MaxAge), NEW k \in DOMAIN s
    PROVE  \E age \in Range(s) : /\ Cardinality(Younger(s, age)) < k
                                 /\ k <= Cardinality(NotOlder(s, age))
  <1>1. MaxAge \in Nat /\ s \in Seq(Nat)
      BY ConstantsAssumption DEF MaxAge
  <1>2. /\ DOMAIN s = 1..Len(s) /\ Len(s) \in Nat /\ k \in Nat /\ k <= Len(s)
        /\ k > 0 /\ \A i \in DOMAIN s : s[i] \in Nat /\ s[i] <= MaxAge
      BY <1>1
  <1> DEFINE T == {age \in Nat : k <= Cardinality(NotOlder(s, age))}
  <1>3. MaxAge \in T
    <2>1. NotOlder(s, MaxAge) = 1..Len(s)
        BY <1>2 DEF NotOlder
    <2> QED
        BY <1>1, <1>2, <2>1, FirstPlaces
  <1>4. PICK age \in T : \A a \in T : age <= a
    <2> HIDE DEF T
    <2>1. T \subseteq Nat
        BY DEF T
    <2> QED
        BY <1>3, <2>1, SmallestNumber
  <1>5. age \in Nat /\ k <= Cardinality(NotOlder(s, age))
      BY <1>4
  <1>6. Cardinality(Younger(s, age)) < k
    <2>1. CASE age = 0
      <3>1. Younger(s, age) = {}
          BY <1>2, <2>1 DEF Younger
      <3> QED
          BY <1>2, <3>1, FS_EmptySet
    <2>2. CASE age # 0
      <3>1. age - 1 \in Nat /\ ~(age <= age - 1)
          BY <1>5, <2>2
      <3>2. age - 1 \notin T
          BY <1>4, <3>1
      <3>3. ~(k <= Cardinality(NotOlder(s, age - 1)))
          BY <3>1, <3>2
      <3>4. Younger(s, age) = NotOlder(s, age - 1)
          BY <1>2, <1>5 DEF Younger, NotOlder
      <3>5. Cardinality(NotOlder(s, age - 1)) \in Nat
          BY <1>1, Places DEF NotOlder
      <3> QED
          BY <1>2, <3>3, <3>4, <3>5
    <2> QED
        BY <2>1, <2>2
  <1>7. age \in Range(s)
    <2>1. CASE \A i \in DOMAIN s : s[i] # age
      <3>1. NotOlder(s, age) = Younger(s, age)
          BY <1>2, <1>5, <2>1 DEF Younger, NotOlder
      <3>2. Cardinality(NotOlder(s, age)) \in Nat
          BY <1>1, Places DEF NotOlder
      <3> QED
          BY <1>2, <1>5, <1>6, <3>1, <3>2
    <2> QED
        BY <2>1 DEF Range
  <1> QED
      BY <1>5, <1>6, <1>7

\* What stands in place k of the rows in order.
LEMMA ByAgeProperties ==
    ASSUME NEW s \in Seq(0..MaxAge)
    PROVE  /\ ByAge(s) \in Seq(0..MaxAge)
           /\ Len(ByAge(s)) = Len(s) /\ DOMAIN ByAge(s) = DOMAIN s
           /\ \A k \in DOMAIN s :
                /\ ByAge(s)[k] \in 0..MaxAge
                /\ Cardinality(Younger(s, ByAge(s)[k])) < k
                /\ k <= Cardinality(NotOlder(s, ByAge(s)[k]))
  <1> DEFINE At(k) == CHOOSE age \in Range(s) :
                        /\ Cardinality(Younger(s, age)) < k
                        /\ k <= Cardinality(NotOlder(s, age))
  <1>1. ByAge(s) = [k \in DOMAIN s |-> At(k)]
      BY DEF ByAge, Younger, NotOlder
  <1>2. ASSUME NEW k \in DOMAIN s
        PROVE  /\ At(k) \in Range(s)
               /\ Cardinality(Younger(s, At(k))) < k
               /\ k <= Cardinality(NotOlder(s, At(k)))
      BY AgeExists
  <1> HIDE DEF At
  <1>3. Range(s) \subseteq 0..MaxAge
    <2>1. \A i \in DOMAIN s : s[i] \in 0..MaxAge
        BY ElementOfSeq, LenProperties
    <2> QED
        BY <2>1, Zenon DEF Range
  <1>4. DOMAIN s = 1..Len(s) /\ Len(s) \in Nat
      OBVIOUS
  <1>5. ByAge(s) \in [1..Len(s) -> 0..MaxAge]
      BY <1>1, <1>2, <1>3, <1>4
  <1>6. ByAge(s) \in Seq(0..MaxAge) /\ Len(ByAge(s)) = Len(s)
    <2>1. ByAge(s) \in Seq(0..MaxAge)
        BY <1>4, <1>5, SeqDef, Zenon
    <2> QED
        BY <1>4, <1>5, <2>1
  <1> QED
      BY <1>1, <1>2, <1>3, <1>6

\* The youngest rows come first.
LEMMA ByAgeSorted ==
    ASSUME NEW s \in Seq(0..MaxAge), NEW i \in DOMAIN s, NEW j \in DOMAIN s,
           i < j
    PROVE  ByAge(s)[i] <= ByAge(s)[j]
  <1> DEFINE a == ByAge(s)[i]
             b == ByAge(s)[j]
  <1>1. /\ a \in Nat /\ b \in Nat
        /\ Cardinality(Younger(s, a)) < i /\ j <= Cardinality(NotOlder(s, b))
      BY ByAgeProperties, ConstantsAssumption DEF MaxAge
  <1>2. s \in Seq(Nat) /\ i \in Nat /\ j \in Nat /\ \A k \in DOMAIN s : s[k] \in Nat
      BY ConstantsAssumption DEF MaxAge
  <1> HIDE DEF a, b
  <1>3. ASSUME b < a
        PROVE  FALSE
    <2>1. NotOlder(s, b) \in SUBSET Younger(s, a) /\ Younger(s, a) \in SUBSET DOMAIN s
        BY <1>1, <1>2, <1>3 DEF NotOlder, Younger
    <2>2. /\ Cardinality(NotOlder(s, b)) <= Cardinality(Younger(s, a))
          /\ Cardinality(NotOlder(s, b)) \in Nat
          /\ Cardinality(Younger(s, a)) \in Nat
        BY <1>2, <2>1, Places
    <2> QED
        BY <1>1, <1>2, <2>2
  <1> QED
      BY <1>1, <1>3 DEF a, b

\* Place n is not older than n of the rows are.
LEMMA ByAgeAtMost ==
    ASSUME NEW s \in Seq(0..MaxAge), NEW n \in DOMAIN s, NEW e \in Nat,
           \A i \in 1..n : s[i] <= e
    PROVE  ByAge(s)[n] <= e
  <1> DEFINE a == ByAge(s)[n]
  <1>1. a \in Nat /\ Cardinality(Younger(s, a)) < n
      BY ByAgeProperties, ConstantsAssumption DEF MaxAge
  <1>2. /\ s \in Seq(Nat) /\ n \in Nat /\ 1..n \in SUBSET DOMAIN s
        /\ \A k \in DOMAIN s : s[k] \in Nat
      BY ConstantsAssumption DEF MaxAge
  <1> HIDE DEF a
  <1>3. ASSUME e < a
        PROVE  FALSE
    <2>1. 1..n \in SUBSET Younger(s, a) /\ Younger(s, a) \in SUBSET DOMAIN s
        BY <1>1, <1>2, <1>3 DEF Younger
    <2>2. /\ Cardinality(1..n) <= Cardinality(Younger(s, a))
          /\ Cardinality(Younger(s, a)) \in Nat
        BY <1>2, <2>1, Places
    <2> QED
        BY <1>1, <1>2, <2>2, FirstPlaces
  <1> QED
      BY <1>1, <1>3 DEF a

\* Place k is not younger than the rows from there on are.
LEMMA ByAgeAtLeast ==
    ASSUME NEW s \in Seq(0..MaxAge), NEW k \in DOMAIN s, NEW e \in Nat,
           \A i \in DOMAIN s : i >= k => s[i] >= e
    PROVE  ByAge(s)[k] >= e
  <1> DEFINE a == ByAge(s)[k]
  <1>1. a \in Nat /\ k <= Cardinality(NotOlder(s, a))
      BY ByAgeProperties, ConstantsAssumption DEF MaxAge
  <1>2. /\ s \in Seq(Nat) /\ k \in Nat /\ k > 0 /\ DOMAIN s = 1..Len(s)
        /\ Len(s) \in Nat /\ k <= Len(s) /\ \A i \in DOMAIN s : s[i] \in Nat
      BY ConstantsAssumption DEF MaxAge
  <1> HIDE DEF a
  <1>3. ASSUME a < e
        PROVE  FALSE
    <2>1. NotOlder(s, a) \in SUBSET (1..(k - 1))
        BY <1>1, <1>2, <1>3 DEF NotOlder
    <2>2. 1..(k - 1) \in SUBSET DOMAIN s /\ k - 1 \in Nat
        BY <1>2
    <2>3. /\ Cardinality(NotOlder(s, a)) <= Cardinality(1..(k - 1))
          /\ Cardinality(NotOlder(s, a)) \in Nat
        BY <1>2, <2>1, <2>2, Places
    <2> QED
        BY <1>1, <1>2, <2>2, <2>3, FirstPlaces
  <1> QED
      BY <1>1, <1>3 DEF a

\* What oig.results shows after an insertion.
LEMMA Inserted ==
    ASSUME TypeOK, NEW rows \in Seq(0..MaxAge), Insert(rows)
    PROVE  /\ rows \o results \in Seq(0..MaxAge)
           /\ Len(rows \o results) = Len(rows) + Len(results)
           /\ results' \in Seq(0..MaxAge)
           /\ Len(results') = Least(Nth, Len(rows) + Len(results))
           /\ Len(results') <= Nth
           /\ \A i \in DOMAIN results' :
                i \in DOMAIN (rows \o results) /\ i \in Nat /\ i > 0 /\ i <= Nth
                /\ results'[i] = ByAge(rows \o results)[i]
           /\ \A i, j \in DOMAIN results' : i < j => results'[i] <= results'[j]
  <1> DEFINE all == rows \o results
             b == ByAge(all)
             n == Least(Nth, Len(all))
  <1>1. results \in Seq(0..MaxAge) /\ Nth \in Nat \ {0}
      BY ConstantsAssumption DEF TypeOK
  <1>2. /\ all \in Seq(0..MaxAge) /\ Len(all) = Len(rows) + Len(results)
        /\ Len(all) \in Nat
      BY <1>1, ConcatProperties
  <1>3. b \in Seq(0..MaxAge) /\ Len(b) = Len(all) /\ DOMAIN b = DOMAIN all
      BY <1>2, ByAgeProperties
  <1>4. results' = SubSeq(b, 1, n)
      BY <1>3 DEF Insert, Youngest
  <1> HIDE DEF b
  <1>5. n \in Nat /\ n <= Len(b) /\ n <= Nth
      BY <1>1, <1>2, <1>3 DEF Least
  <1>6. DOMAIN all = 1..Len(all)
      BY <1>2, LenProperties
  <1> HIDE DEF all, n
  <1>7. /\ results' \in Seq(0..MaxAge) /\ Len(results') = n
        /\ \A i \in 1..n : results'[i] = b[i]
    <2>1. \A i \in 1..n : b[i] \in 0..MaxAge
      <3>1. \A i \in 1..n : i \in 1..Len(b)
          BY <1>3, <1>5
      <3> QED
          BY <1>3, <3>1, ElementOfSeq
    <2>2. /\ SubSeq(b, 1, n) \in Seq(0..MaxAge)
          /\ Len(SubSeq(b, 1, n)) = IF 1 <= n THEN n - 1 + 1 ELSE 0
          /\ \A i \in 1..(n - 1 + 1) : SubSeq(b, 1, n)[i] = b[1 + i - 1]
        BY <1>3, <1>5, <2>1, SubSeqProperties
    <2> QED
        BY <1>4, <1>5, <2>2
  <1>8. DOMAIN results' = 1..n
      BY <1>7, LenProperties
  <1>9. ASSUME NEW i \in 1..n
        PROVE  /\ i \in DOMAIN all /\ i \in Nat /\ i > 0 /\ i <= Nth
               /\ results'[i] = b[i]
      BY <1>1, <1>2, <1>3, <1>5, <1>6, <1>7
  <1>10. \A i, j \in 1..n : i < j => results'[i] <= results'[j]
    <2> SUFFICES ASSUME NEW i \in 1..n, NEW j \in 1..n, i < j
                 PROVE  results'[i] <= results'[j]
        OBVIOUS
    <2>1. i \in DOMAIN all /\ j \in DOMAIN all
        BY <1>9
    <2>2. b[i] <= b[j]
        BY <1>2, <2>1, ByAgeSorted DEF b
    <2> QED
        BY <1>7, <2>2
  <1>11. n = Least(Nth, Len(rows) + Len(results))
      BY <1>2 DEF n
  <1> QED
      BY <1>2, <1>5, <1>7, <1>8, <1>9, <1>10, <1>11 DEF all, b

\* Time makes every row a tick older, until its age no longer matters.
LEMMA AgedProperties ==
    ASSUME NEW s \in Seq(0..MaxAge)
    PROVE  /\ Aged(s) \in Seq(0..MaxAge) /\ Len(Aged(s)) = Len(s)
           /\ DOMAIN Aged(s) = DOMAIN s
           /\ \A i \in DOMAIN s : /\ s[i] \in 0..MaxAge
                                  /\ Aged(s)[i] = Least(s[i] + 1, MaxAge)
  <1>1. MaxAge \in Nat
      BY ConstantsAssumption DEF MaxAge
  <1>2. DOMAIN s = 1..Len(s) /\ Len(s) \in Nat
      BY LenProperties
  <1>3. \A i \in DOMAIN s : s[i] \in 0..MaxAge
      BY ElementOfSeq, <1>2
  <1>4. \A i \in DOMAIN s : Least(s[i] + 1, MaxAge) \in 0..MaxAge
      BY <1>1, <1>3 DEF Least
  <1>5. Aged(s) \in [1..Len(s) -> 0..MaxAge]
      BY <1>2, <1>4 DEF Aged
  <1>6. Aged(s) \in Seq(0..MaxAge)
      BY <1>2, <1>5, SeqDef, Zenon
  <1>7. Len(Aged(s)) = Len(s)
      BY <1>2, <1>5, <1>6
  <1> QED
      BY <1>2, <1>3, <1>6, <1>7 DEF Aged

-----------------------------------------------------------------------------
\* The steps

\* The values that hours take, for arithmetic.
LEMMA Hours ==
    /\ Hour \in Nat /\ Hour >= 2 /\ Guilds \in Nat /\ Guilds > 0
    /\ Nth \in Nat /\ Nth > 0 /\ MaxRun \in Nat /\ MaxImport \in Nat
    /\ InitialRows \in 0..Nth
    /\ 2 * Hour = Hour + Hour /\ 3 * Hour = Hour + Hour + Hour
    /\ Old = Hour + Hour + 2 /\ MaxAge = Hour + Hour + Hour + 2
    /\ MaxSince = Hour + Hour + Hour + 2 + MaxImport + MaxRun
    /\ Idle = Guilds + 1
  BY ConstantsAssumption DEF Old, MaxAge, MaxSince, Idle

\* The variables that are numbers.
LEMMA Numbers ==
    ASSUME TypeOK
    PROVE  /\ phase \in Nat /\ phase < Hour /\ left \in Nat /\ left <= Idle
           /\ elapsed \in Nat
           /\ elapsed <= IF importing THEN MaxImport ELSE MaxRun
           /\ since \in Nat /\ since <= MaxSince
           /\ begun \in Nat /\ begun <= MaxAge /\ scans \in Nat /\ scans <= Nth
           /\ importing \in BOOLEAN
  BY Hours DEF TypeOK

\* The rows, of the table and of the run.
LEMMA Rows ==
    ASSUME TypeOK
    PROVE  /\ Len(results) \in Nat /\ Len(results) <= Nth
           /\ DOMAIN results = 1..Len(results)
           /\ \A i \in DOMAIN results : results[i] \in Nat /\ results[i] <= MaxAge
           /\ Len(buffer) \in Nat /\ Len(buffer) <= Nth
           /\ DOMAIN buffer = 1..Len(buffer)
           /\ \A i \in DOMAIN buffer : buffer[i] \in Nat /\ buffer[i] <= MaxAge
  <1>1. results \in Seq(0..MaxAge) /\ buffer \in Seq(0..MaxAge)
      BY DEF TypeOK
  <1>2. /\ DOMAIN results = 1..Len(results) /\ Len(results) \in Nat
        /\ DOMAIN buffer = 1..Len(buffer) /\ Len(buffer) \in Nat
      BY <1>1, LenProperties
  <1>3. /\ \A i \in DOMAIN results : results[i] \in 0..MaxAge
        /\ \A i \in DOMAIN buffer : buffer[i] \in 0..MaxAge
      BY <1>1, <1>2, ElementOfSeq
  <1>4. \A a \in 0..MaxAge : a \in Nat /\ a <= MaxAge
      BY Hours
  <1> QED
      BY <1>2, <1>3, <1>4 DEF TypeOK

\* The first state.
LEMMA InitInv ==
    ASSUME Init
    PROVE  IInv
  <1>1. /\ phase = 0 /\ due = TRUE /\ importing = FALSE /\ left = Idle
        /\ buffer = <<>> /\ elapsed = 0 /\ since = Old /\ begun = MaxAge
        /\ scans = 0 /\ failed = FALSE
        /\ results = [i \in 1..InitialRows |-> Old]
      BY Zenon DEF Init
  <1>2. results \in Seq(0..MaxAge) /\ Len(results) = InitialRows
    <2>1. Old \in 0..MaxAge /\ InitialRows \in Nat
        BY Hours
    <2>2. results \in [1..InitialRows -> 0..MaxAge]
        BY <1>1, <2>1
    <2>3. results \in Seq(0..MaxAge)
        BY <2>1, <2>2, SeqDef, Zenon
    <2> QED
        BY <2>1, <2>2, <2>3
  <1>3. /\ \A i \in DOMAIN results : results[i] = Old
        /\ DOMAIN results = 1..InitialRows
      BY <1>1
  <1>4. buffer \in Seq(0..MaxAge) /\ Len(buffer) = 0 /\ DOMAIN buffer = {}
      BY <1>1
  <1>5. TypeOK
    <2>1. Len(results) <= Nth /\ Len(buffer) <= Nth
        BY <1>2, <1>4, Hours
    <2>2. /\ phase \in 0..(Hour - 1) /\ left \in 0..Idle
          /\ elapsed \in 0..(IF importing THEN MaxImport ELSE MaxRun)
          /\ since \in 0..MaxSince /\ begun \in 0..MaxAge /\ scans \in 0..Nth
        BY <1>1, Hours
    <2>3. \A i, j \in DOMAIN results : i < j => results[i] <= results[j]
        BY <1>3, Hours
    <2>4. due \in BOOLEAN /\ failed \in BOOLEAN /\ importing \in BOOLEAN
        BY <1>1
    <2> QED
        BY <1>2, <1>4, <2>1, <2>2, <2>3, <2>4 DEF TypeOK
  <1>6. RunInv
      BY <1>1, <1>4 DEF RunInv, Running, Alive
  <1>7. StartSeen
      BY <1>1, Hours DEF StartSeen
  <1>8. RescansOnly
      BY <1>1, <1>3, Hours DEF RescansOnly, Least
  <1>9. RowsStay
      BY <1>2 DEF RowsStay
  <1>10. InTime
      BY <1>1, Hours DEF InTime, Running
  <1> QED
      BY <1>5, <1>6, <1>7, <1>8, <1>9, <1>10 DEF IInv

\* Where lastCheck finds it too early, it is, unless there were rescans.
LEMMA NotYet ==
    ASSUME TypeOK, RescansOnly, ~LastCheck, Len(results) = Nth, scans < Nth
    PROVE  since <= 2 * Hour + 1
  <1>1. Nth \in DOMAIN results
      BY Hours, Rows
  <1>2. results[Nth] \in Nat /\ ~(results[Nth] - 1 > 2 * Hour)
      BY <1>1, Rows DEF LastCheck
  <1>3. results[Nth] >= Least(since, MaxAge)
      BY <1>1, Hours DEF RescansOnly
  <1> QED
      BY <1>2, <1>3, Hours, Numbers DEF Least

\* A tick: the hour goes on, and the rows and the run get older.
LEMMA TickKeeps ==
    ASSUME IInv, Tick
    PROVE  IInv'
  <1> USE DEF IInv
  <1>0. phase' = (phase + 1) % Hour
      BY DEF Tick
  <1>1. /\ due = FALSE /\ (Running => elapsed < MaxRun)
        /\ (importing => elapsed < MaxImport)
        /\ due' = (phase' = 0)
        /\ results' = Aged(results) /\ buffer' = Aged(buffer)
        /\ elapsed' = (IF Alive THEN elapsed + 1 ELSE 0)
        /\ since' = Least(since + 1, MaxSince)
        /\ begun' = Least(begun + 1, MaxAge)
        /\ importing' = importing
        /\ left' = left /\ scans' = scans /\ failed' = failed
        /\ Running' = Running /\ Alive' = Alive
      BY Zenon DEF Tick, TypeOK, Running, Alive
  <1>2. phase' = IF phase + 1 = Hour THEN 0 ELSE phase + 1
    <2>1. /\ phase \in Nat /\ phase + 1 \in 1..Hour /\ Hour \in Nat /\ Hour >= 2
        BY Hours, Numbers
    <2>2. \A h \in Nat \ {0} : \A n \in 1..h : n % h = IF n = h THEN 0 ELSE n
        OBVIOUS
    <2> QED
        BY <1>0, <2>1, <2>2
  <1>3. /\ results' \in Seq(0..MaxAge) /\ Len(results') = Len(results)
        /\ DOMAIN results' = DOMAIN results
        /\ \A i \in DOMAIN results : results'[i] = Least(results[i] + 1, MaxAge)
      BY <1>1, AgedProperties DEF TypeOK
  <1>4. /\ buffer' \in Seq(0..MaxAge) /\ Len(buffer') = Len(buffer)
        /\ DOMAIN buffer' = DOMAIN buffer
        /\ \A i \in DOMAIN buffer : buffer'[i] = Least(buffer[i] + 1, MaxAge)
      BY <1>1, AgedProperties DEF TypeOK
  <1>5. TypeOK'
    <2>1. phase' \in 0..(Hour - 1) /\ due' \in BOOLEAN
        BY <1>1, <1>2, Hours, Numbers
    <2>2. elapsed' \in 0..(IF importing' THEN MaxImport ELSE MaxRun)
      <3>1. CASE importing
          BY <1>1, <3>1, Hours, Numbers DEF Alive
      <3>2. CASE ~importing
          BY <1>1, <3>2, Hours, Numbers DEF Alive
      <3> QED
          BY <3>1, <3>2
    <2>3. since' \in 0..MaxSince /\ begun' \in 0..MaxAge
        BY <1>1, Hours, Numbers DEF Least
    <2>4. \A i, j \in DOMAIN results' : i < j => results'[i] <= results'[j]
      <3> SUFFICES ASSUME NEW i \in DOMAIN results, NEW j \in DOMAIN results, i < j
                   PROVE  results'[i] <= results'[j]
          BY <1>3
      <3>1. results[i] \in Nat /\ results[j] \in Nat /\ results[i] <= results[j]
          BY Rows DEF TypeOK
      <3> QED
          BY <1>3, <3>1, Hours DEF Least
    <2> QED
        BY <1>1, <1>3, <1>4, <2>1, <2>2, <2>3, <2>4 DEF TypeOK
  <1>6. RunInv'
    <2>1. ~Running => buffer' = <<>>
        BY <1>1, <1>4 DEF RunInv
    <2>2. \A i \in DOMAIN buffer' : buffer'[i] <= elapsed'
      <3>1. ASSUME Running, NEW i \in DOMAIN buffer
            PROVE  buffer'[i] <= elapsed'
        <4>1. buffer[i] \in Nat /\ buffer[i] <= elapsed
            BY Rows DEF RunInv
        <4> QED
          <5>1. elapsed' = elapsed + 1
              BY <1>1, <3>1 DEF Alive
          <5>2. buffer'[i] = Least(buffer[i] + 1, MaxAge)
              BY <1>4
          <5> QED
              BY <4>1, <5>1, <5>2, Hours, Numbers DEF Least
      <3>2. CASE ~Running
          BY <1>4, <3>2 DEF RunInv
      <3> QED
          BY <1>4, <3>1, <3>2
    <2> QED
        BY <1>1, <1>4, <2>1, <2>2 DEF RunInv
  <1>8. StartSeen'
    <2> SUFFICES ASSUME Guilds >= Nth, begun' < MaxAge
                 PROVE  Len(results') = Nth /\ results'[Nth] <= begun'
        BY DEF StartSeen
    <2>1. begun' = begun + 1 /\ begun < MaxAge
        BY <1>1, Hours, Numbers DEF Least
    <2>2. Len(results) = Nth /\ results[Nth] <= begun
        BY <2>1 DEF StartSeen
    <2>3. Nth \in DOMAIN results
        BY <2>2, Hours, Rows
    <2>4. results[Nth] \in Nat /\ results'[Nth] = Least(results[Nth] + 1, MaxAge)
        BY <1>3, <2>3, Rows
    <2>5. results'[Nth] <= begun + 1
        BY <2>2, <2>4, Hours, Numbers DEF Least
    <2> QED
        BY <1>3, <2>1, <2>2, <2>5
  <1>9. RescansOnly'
    <2> SUFFICES ASSUME NEW i \in DOMAIN results, i > scans
                 PROVE  results'[i] >= Least(since', MaxAge)
        BY <1>1, <1>3 DEF RescansOnly
    <2>1. results[i] \in Nat /\ results[i] >= Least(since, MaxAge)
        BY Rows DEF RescansOnly
    <2>2. /\ results'[i] = Least(results[i] + 1, MaxAge)
          /\ since' = Least(since + 1, MaxSince) /\ since \in Nat
        BY <1>1, <1>3, Numbers
    <2> QED
        BY <2>1, <2>2, Hours DEF Least
  <1>10. RowsStay'
      BY <1>3 DEF RowsStay
  <1>11. InTime'
    <2> SUFFICES ASSUME InitialRows = Nth, ~failed, scans < Nth
                 PROVE  since' <= IF Running THEN 3 * Hour + 1 + MaxImport + elapsed'
                                  ELSE IF importing THEN 3 * Hour + 1 + elapsed'
                                  ELSE IF due' THEN 3 * Hour + 1
                                  ELSE 2 * Hour + 1 + phase'
        BY <1>1 DEF InTime
    <2>1. since <= IF Running THEN 3 * Hour + 1 + MaxImport + elapsed
                   ELSE IF importing THEN 3 * Hour + 1 + elapsed
                   ELSE 2 * Hour + 1 + phase
        BY <1>1 DEF InTime
    <2>2. since' <= since + 1 /\ since' \in Nat
        BY <1>1, Hours, Numbers DEF Least
    <2>3. CASE Running
      <3>1. elapsed' = elapsed + 1
          BY <1>1, <2>3 DEF Alive
      <3> QED
          BY <2>1, <2>2, <2>3, <3>1, Hours, Numbers
    <2>4. CASE ~Running /\ importing
      <3>1. elapsed' = elapsed + 1
          BY <1>1, <2>4 DEF Alive
      <3> QED
          BY <2>1, <2>2, <2>4, <3>1, Hours, Numbers
    <2>5. CASE ~Running /\ ~importing
      <3>1. CASE phase + 1 = Hour
        <4>1. due'
            BY <1>1, <1>2, <3>1
        <4> QED
            BY <2>1, <2>2, <2>5, <3>1, <4>1, Hours, Numbers
      <3>2. CASE phase + 1 # Hour
        <4>1. phase' = phase + 1 /\ phase' # 0
            BY <1>2, <3>2, Numbers
        <4>2. ~due'
            BY <1>1, <4>1
        <4> QED
            BY <2>1, <2>2, <2>5, <4>1, <4>2, Hours, Numbers
      <3> QED
          BY <3>1, <3>2
    <2> QED
        BY <2>3, <2>4, <2>5
  <1> QED
      BY <1>5, <1>6, <1>8, <1>9, <1>10, <1>11

\* Cron starts start.py, unless it still runs.
LEMMA CronKeeps ==
    ASSUME IInv, CronStarts \/ CronSkips
    PROVE  IInv'
  <1> USE DEF IInv
  <1>1. /\ due /\ due' = FALSE
        /\ phase' = phase /\ results' = results /\ buffer' = buffer
        /\ elapsed' = elapsed /\ left' = left /\ since' = since
        /\ begun' = begun /\ scans' = scans /\ failed' = failed
        /\ Running' = Running
      BY DEF CronStarts, CronSkips, ghosts, Running
  <1>2. StartSeen' /\ RescansOnly' /\ RowsStay'
      BY <1>1 DEF StartSeen, RescansOnly, RowsStay
  <1>3. CASE CronStarts
    <2>1. ~Alive /\ importing' = TRUE /\ ~importing /\ ~Running
        BY <1>3 DEF CronStarts, Alive
    <2>2. elapsed = 0
        BY <2>1 DEF RunInv
    <2>3. RunInv'
        BY <1>1, <2>1 DEF RunInv, Alive
    <2>4. TypeOK'
      <3>1. elapsed' \in 0..MaxImport
          BY <1>1, <2>2, Hours
      <3>2. due' \in BOOLEAN
          BY <1>1
      <3> QED
          BY <1>1, <2>1, <3>1, <3>2 DEF TypeOK
    <2>5. InTime'
        BY <1>1, <2>1, <2>2, Hours, Numbers DEF InTime
    <2> QED
        BY <1>2, <2>3, <2>4, <2>5
  <1>4. CASE CronSkips
    <2>1. Alive /\ importing' = importing
        BY <1>4 DEF CronSkips
    <2>2. RunInv'
        BY <1>1, <2>1 DEF RunInv, Alive
    <2>3. TypeOK'
        BY <1>1, <2>1 DEF TypeOK
    <2>4. InTime'
        BY <1>1, <2>1 DEF InTime, Alive
    <2> QED
        BY <1>2, <2>2, <2>3, <2>4
  <1> QED
      BY <1>3, <1>4

\* start.py comes to main: a run starts, or it is too early.
LEMMA MainKeeps ==
    ASSUME IInv, RunStarts \/ TooEarly
    PROVE  IInv'
  <1> USE DEF IInv
  <1>1. /\ importing /\ ~Running /\ importing' = FALSE /\ elapsed' = 0
        /\ phase' = phase /\ due' = due /\ results' = results
        /\ buffer' = buffer /\ since' = since /\ begun' = begun
        /\ scans' = scans /\ failed' = failed
        /\ left' = Guilds \/ left' = left
      BY DEF RunStarts, TooEarly, ghosts, RunInv
  <1>2. buffer = <<>> /\ DOMAIN buffer = {} /\ Len(buffer) = 0
      BY <1>1 DEF RunInv
  <1>3. TypeOK'
    <2>1. left' \in 0..Idle /\ 0 \in 0..MaxRun
        BY <1>1, Hours, Numbers
    <2> QED
        BY <1>1, <2>1 DEF TypeOK
  <1>4. StartSeen' /\ RescansOnly' /\ RowsStay'
      BY <1>1 DEF StartSeen, RescansOnly, RowsStay
  <1>5. CASE RunStarts
    <2>1. left' = Guilds /\ Running'
        BY <1>5, Hours DEF RunStarts, Running
    <2>2. RunInv'
      <3>1. Len(buffer) = Least(Nth, Guilds - Guilds)
          BY <1>2, Hours DEF Least
      <3> QED
          BY <1>1, <1>2, <2>1, <3>1 DEF RunInv, Alive
    <2>3. InTime'
      <3> SUFFICES ASSUME InitialRows = Nth, ~failed, scans < Nth
                   PROVE  since <= 3 * Hour + 1 + MaxImport + 0
          BY <1>1, <2>1 DEF InTime
      <3>1. since <= 3 * Hour + 1 + elapsed
          BY <1>1 DEF InTime
      <3> QED
          BY <1>1, <3>1, Hours, Numbers
    <2> QED
        BY <1>3, <1>4, <2>2, <2>3
  <1>6. CASE TooEarly
    <2>1. left' = left /\ ~Running' /\ ~LastCheck
        BY <1>1, <1>6 DEF TooEarly, Running
    <2>2. RunInv'
        BY <1>1, <1>2, <2>1 DEF RunInv
    <2>3. InTime'
      <3> SUFFICES ASSUME InitialRows = Nth, ~failed, scans < Nth
                   PROVE  since <= 2 * Hour + 1
          BY <1>1, <2>1, Hours, Numbers DEF InTime
      <3> QED
          BY <2>1, NotYet DEF RowsStay
    <2> QED
        BY <1>3, <1>4, <2>2, <2>3
  <1> QED
      BY <1>5, <1>6

\* A guild is checked: one more result, the youngest.
LEMMA CheckKeeps ==
    ASSUME IInv, CheckGuild
    PROVE  IInv'
  <1> USE DEF IInv
  <1>1. /\ Running /\ left > 0 /\ left' = left - 1
        /\ buffer' = Youngest(<<0>> \o buffer)
        /\ phase' = phase /\ due' = due /\ results' = results
        /\ elapsed' = elapsed /\ since' = since /\ begun' = begun
        /\ scans' = scans /\ failed' = failed /\ importing' = importing
      BY DEF CheckGuild, ghosts
  <1>2. left \in Nat /\ left <= Guilds /\ Running'
      BY <1>1, Hours, Numbers DEF Running
  <1> DEFINE all == <<0>> \o buffer
             n == Least(Nth, Len(all))
  <1>3. /\ all \in Seq(0..MaxAge) /\ Len(all) = 1 + Len(buffer)
        /\ Len(buffer) \in Nat
        /\ \A i \in 1..Len(all) : all[i] \in 0..MaxAge /\ all[i] <= elapsed
    <2>1. buffer \in Seq(0..MaxAge) /\ 0 \in 0..MaxAge
        BY Hours DEF TypeOK
    <2>2. <<0>> \in Seq(0..MaxAge) /\ Len(<<0>>) = 1 /\ <<0>>[1] = 0
        BY <2>1
    <2>3. /\ all \in Seq(0..MaxAge) /\ Len(all) = 1 + Len(buffer)
          /\ \A i \in 1..(1 + Len(buffer)) :
               all[i] = IF i <= 1 THEN <<0>>[i] ELSE buffer[i - 1]
        BY <2>1, <2>2, ConcatProperties
    <2> HIDE DEF all
    <2>4. ASSUME NEW i \in 1..Len(all)
          PROVE  all[i] \in 0..MaxAge /\ all[i] <= elapsed
      <3>1. all[i] \in 0..MaxAge
          BY <2>3, ElementOfSeq
      <3>2. CASE i <= 1
        <4>1. i = 1 /\ i \in 1..(1 + Len(buffer))
            BY <2>3, <3>2, Rows
        <4> QED
            BY <2>2, <2>3, <3>1, <4>1, Numbers
      <3>3. CASE ~(i <= 1)
        <4>1. i - 1 \in DOMAIN buffer /\ i \in 1..(1 + Len(buffer))
            BY <2>3, <3>3, Rows
        <4> QED
            BY <2>3, <3>1, <3>3, <4>1 DEF RunInv
      <3> QED
          BY <3>2, <3>3
    <2> QED
        BY <2>3, <2>4, Rows
  <1>4. buffer' = SubSeq(all, 1, n)
      BY <1>1 DEF Youngest
  <1> HIDE DEF all
  <1>5. /\ n \in Nat /\ n <= Len(all) /\ n <= Nth /\ n > 0
        /\ n = Least(Nth, 1 + Len(buffer))
      BY <1>3, Hours DEF Least
  <1> HIDE DEF n
  <1>6. /\ buffer' \in Seq(0..MaxAge) /\ Len(buffer') = n
        /\ \A i \in 1..n : buffer'[i] = all[i]
    <2>1. \A i \in 1..n : all[i] \in 0..MaxAge
        BY <1>3, <1>5
    <2>2. /\ SubSeq(all, 1, n) \in Seq(0..MaxAge)
          /\ Len(SubSeq(all, 1, n)) = IF 1 <= n THEN n - 1 + 1 ELSE 0
          /\ \A i \in 1..(n - 1 + 1) : SubSeq(all, 1, n)[i] = all[1 + i - 1]
        BY <1>3, <1>5, <2>1, SubSeqProperties
    <2> QED
        BY <1>4, <1>5, <2>2
  <1>7. TypeOK'
    <2>1. left' \in 0..Idle
        BY <1>1, <1>2, Hours
    <2> QED
        BY <1>1, <1>5, <1>6, <2>1 DEF TypeOK
  <1>8. RunInv'
    <2>1. Len(buffer') = Least(Nth, Guilds - left')
      <3>1. Len(buffer) = Least(Nth, Guilds - left)
          BY <1>1 DEF RunInv
      <3> QED
          BY <1>1, <1>2, <1>5, <1>6, <3>1, Hours DEF Least
    <2>2. DOMAIN buffer' = 1..n
        BY <1>6, LenProperties
    <2>3. \A i \in DOMAIN buffer' : buffer'[i] <= elapsed'
        BY <1>1, <1>3, <1>5, <1>6, <2>2
    <2> QED
        BY <1>1, <1>2, <2>1, <2>3 DEF RunInv, Alive
  <1>9. StartSeen' /\ RescansOnly' /\ RowsStay' /\ InTime'
      BY <1>1, <1>2 DEF StartSeen, RescansOnly, RowsStay, InTime
  <1> QED
      BY <1>7, <1>8, <1>9

\* What an insertion leaves of the row that decides, and the rows after it.
LEMMA InsertKeeps ==
    ASSUME TypeOK, NEW rows \in Seq(0..MaxAge), Insert(rows)
    PROVE  /\ Len(results) = Nth => Len(results') = Nth
           /\ Len(rows) = Nth => Len(results') = Nth
           /\ \A e \in Nat :
                Len(rows) = Nth /\ (\A i \in 1..Nth : rows[i] <= e)
                    => results'[Nth] <= e
  <1> DEFINE all == rows \o results
  <1>1. /\ results \in Seq(0..MaxAge) /\ Len(rows) \in Nat
        /\ Len(results) \in Nat /\ Len(results) <= Nth
      BY Rows DEF TypeOK
  <1>2. /\ all \in Seq(0..MaxAge) /\ Len(all) = Len(rows) + Len(results)
        /\ \A i \in 1..(Len(rows) + Len(results)) :
             all[i] = IF i <= Len(rows) THEN rows[i] ELSE results[i - Len(rows)]
      BY <1>1, ConcatProperties
  <1>3. /\ results' \in Seq(0..MaxAge)
        /\ Len(results') = Least(Nth, Len(rows) + Len(results))
        /\ \A i \in DOMAIN results' : i \in DOMAIN all
                                      /\ results'[i] = ByAge(all)[i]
      BY Inserted
  <1> HIDE DEF all
  <1>4. Len(results) = Nth \/ Len(rows) = Nth => Len(results') = Nth
      BY <1>1, <1>3, Hours DEF Least
  <1>5. ASSUME NEW e \in Nat, Len(rows) = Nth, \A i \in 1..Nth : rows[i] <= e
        PROVE  results'[Nth] <= e
    <2>1. Nth \in DOMAIN results'
      <3>1. Len(results') = Nth
          BY <1>4, <1>5
      <3>2. DOMAIN results' = 1..Len(results')
          BY <1>3, LenProperties
      <3> QED
          BY <3>1, <3>2, Hours
    <2>2. Nth \in DOMAIN all /\ results'[Nth] = ByAge(all)[Nth]
        BY <1>3, <2>1
    <2>3. \A i \in 1..Nth : all[i] <= e
      <3> SUFFICES ASSUME NEW i \in 1..Nth
                   PROVE  all[i] <= e
          OBVIOUS
      <3>1. i \in 1..(Len(rows) + Len(results)) /\ i <= Len(rows)
          BY <1>1, <1>5, Hours
      <3> QED
          BY <1>2, <1>5, <3>1
    <2> QED
        BY <1>2, <2>2, <2>3, ByAgeAtMost
  <1> QED
      BY <1>4, <1>5

\* A full run ends, and its results are inserted.
LEMMA SaveKeeps ==
    ASSUME IInv, Save
    PROVE  IInv'
  <1> USE DEF IInv
  <1>1. /\ Running /\ left = 0 /\ Insert(buffer)
        /\ since' = 0 /\ begun' = Least(elapsed, MaxAge)
        /\ scans' = 0 /\ failed' = FALSE
        /\ left' = Idle /\ buffer' = <<>> /\ elapsed' = 0
        /\ phase' = phase /\ due' = due /\ importing' = importing
      BY DEF Save
  <1>2. /\ ~Running' /\ DOMAIN buffer' = {} /\ Len(buffer') = 0
        /\ importing' = FALSE
      BY <1>1 DEF Running, RunInv, TypeOK
  <1>3. /\ buffer \in Seq(0..MaxAge)
        /\ results' \in Seq(0..MaxAge) /\ Len(results') <= Nth
        /\ \A i, j \in DOMAIN results' : i < j => results'[i] <= results'[j]
    <2>1. buffer \in Seq(0..MaxAge)
        BY DEF TypeOK
    <2> QED
        BY <1>1, <2>1, Inserted
  <1>4. TypeOK'
    <2>1. left' \in 0..Idle
        BY <1>1, Hours
    <2>2. buffer' \in Seq(0..MaxAge) /\ Len(buffer') <= Nth
        BY <1>1, Hours
    <2>3. /\ elapsed' \in 0..(IF importing' THEN MaxImport ELSE MaxRun)
          /\ since' \in 0..MaxSince /\ scans' \in 0..Nth
        BY <1>1, <1>2, Hours
    <2>4. begun' \in 0..MaxAge
        BY <1>1, Hours, Numbers DEF Least
    <2>6. failed' \in BOOLEAN /\ importing' \in BOOLEAN
        BY <1>1, <1>2
    <2>5. phase' \in 0..(Hour - 1) /\ due' \in BOOLEAN
        BY <1>1 DEF TypeOK
    <2> QED
        BY <1>3, <2>1, <2>2, <2>3, <2>4, <2>5, <2>6 DEF TypeOK
  <1>5. RunInv'
      BY <1>1, <1>2 DEF RunInv
  <1>7. StartSeen'
    <2> SUFFICES ASSUME Guilds >= Nth, begun' < MaxAge
                 PROVE  Len(results') = Nth /\ results'[Nth] <= begun'
        BY DEF StartSeen
    <2>1. Len(buffer) = Nth
        BY <1>1, Hours DEF RunInv, Least
    <2>2. \A i \in 1..Nth : buffer[i] <= elapsed
        BY <2>1, Rows DEF RunInv
    <2>3. elapsed \in Nat
        BY Numbers
    <2>4. Len(results') = Nth /\ results'[Nth] <= elapsed
        BY <1>1, <1>3, <2>1, <2>2, <2>3, InsertKeeps
    <2>5. begun' = elapsed
        BY <1>1, <2>3, Hours DEF Least
    <2> QED
        BY <2>4, <2>5
  <1>8. RescansOnly'
    <2>1. \A i \in DOMAIN results' : results'[i] \in 0..MaxAge
        BY <1>3, LenProperties, ElementOfSeq
    <2>2. Least(since', MaxAge) = 0
        BY <1>1, Hours DEF Least
    <2> QED
        BY <2>1, <2>2, Hours DEF RescansOnly
  <1>9. RowsStay'
      BY <1>1, <1>3, InsertKeeps DEF RowsStay
  <1>10. InTime'
      BY <1>1, <1>2, Hours, Numbers DEF InTime
  <1> QED
      BY <1>4, <1>5, <1>7, <1>8, <1>9, <1>10

\* start.py fails, and its results are lost.
LEMMA FailLoses ==
    ASSUME IInv, Fail
    PROVE  IInv'
  <1> USE DEF IInv
  <1>1. /\ left' = Idle /\ buffer' = <<>> /\ elapsed' = 0 /\ failed' = TRUE
        /\ phase' = phase /\ due' = due /\ results' = results
        /\ since' = since /\ begun' = begun /\ scans' = scans
        /\ importing' = FALSE
      BY DEF Fail
  <1>2. ~Running' /\ DOMAIN buffer' = {}
      BY <1>1 DEF Running
  <1>3. TypeOK'
    <2>1. left' \in 0..Idle
        BY <1>1, Hours
    <2>2. buffer' \in Seq(0..MaxAge) /\ Len(buffer') <= Nth
        BY <1>1, Hours
    <2>3. elapsed' \in 0..(IF importing' THEN MaxImport ELSE MaxRun)
        BY <1>1, Hours
    <2>4. failed' \in BOOLEAN /\ importing' \in BOOLEAN
        BY <1>1
    <2> QED
        BY <1>1, <2>1, <2>2, <2>3, <2>4 DEF TypeOK
  <1>4. RunInv'
      BY <1>1, <1>2 DEF RunInv
  <1>5. InTime'
      BY <1>1, <1>2 DEF InTime
  <1>6. StartSeen' /\ RescansOnly' /\ RowsStay'
      BY <1>1 DEF StartSeen, RescansOnly, RowsStay
  <1> QED
      BY <1>3, <1>4, <1>5, <1>6

\* A guild is rescanned: one more row, the youngest.
LEMMA RescanKeeps ==
    ASSUME IInv, Rescan
    PROVE  IInv'
  <1> USE DEF IInv
  <1>1. /\ Len(results) = Nth /\ Insert(<<0>>)
        /\ scans' = Least(scans + 1, Nth)
        /\ phase' = phase /\ due' = due /\ left' = left /\ buffer' = buffer
        /\ elapsed' = elapsed /\ since' = since /\ begun' = begun
        /\ failed' = failed /\ importing' = importing
      BY DEF Rescan
  <1> DEFINE all == <<0>> \o results
  <1>2. <<0>> \in Seq(0..MaxAge) /\ Len(<<0>>) = 1 /\ <<0>>[1] = 0
    <2>1. 0 \in 0..MaxAge
        BY Hours
    <2> QED
        BY <2>1
  <1>3. results \in Seq(0..MaxAge) /\ DOMAIN results = 1..Nth
      BY <1>1, Rows DEF TypeOK
  <1>4. /\ all \in Seq(0..MaxAge) /\ Len(all) = 1 + Nth
        /\ \A i \in 1..(1 + Nth) :
             all[i] = IF i <= 1 THEN <<0>>[i] ELSE results[i - 1]
      BY <1>1, <1>2, <1>3, ConcatProperties
  <1>5. /\ results' \in Seq(0..MaxAge) /\ Len(results') = Nth
        /\ \A i \in DOMAIN results' : i \in DOMAIN all
                                      /\ results'[i] = ByAge(all)[i]
        /\ \A i, j \in DOMAIN results' : i < j => results'[i] <= results'[j]
    <2>1. Len(results') = Nth
        BY <1>1, <1>2, InsertKeeps
    <2> QED
        BY <1>1, <1>2, <2>1, Inserted
  <1> HIDE DEF all
  <1>6. DOMAIN results' = 1..Nth /\ DOMAIN all = 1..(1 + Nth)
      BY <1>4, <1>5, LenProperties
  <1>7. scans' \in 0..Nth
      BY <1>1, Hours, Numbers DEF Least
  <1>8. TypeOK'
      BY <1>1, <1>5, <1>7, Hours DEF TypeOK
  <1>9. RunInv'
      BY <1>1 DEF RunInv, Running, Alive
  <1>10. StartSeen'
    <2> SUFFICES ASSUME Guilds >= Nth, begun < MaxAge
                 PROVE  Len(results') = Nth /\ results'[Nth] <= begun
        BY <1>1 DEF StartSeen
    <2>1. results[Nth] <= begun
        BY DEF StartSeen
    <2>2. results'[Nth] <= results[Nth]
      <3>1. Nth \in DOMAIN results /\ Nth \in DOMAIN results'
            /\ Nth \in DOMAIN all
          BY <1>3, <1>6, Hours
      <3>2. results[Nth] \in Nat
          BY <3>1, Rows
      <3>3. \A i \in 1..Nth : all[i] <= results[Nth]
        <4> SUFFICES ASSUME NEW i \in 1..Nth
                     PROVE  all[i] <= results[Nth]
            OBVIOUS
        <4>1. CASE i = 1
            BY <1>2, <1>4, <3>2, <4>1, Hours
        <4>2. CASE i # 1
          <5>1. /\ i \in 1..(1 + Nth) /\ ~(i <= 1) /\ i - 1 \in 1..Nth
                /\ i - 1 < Nth
              BY <4>2, Hours
          <5>2. all[i] = results[i - 1]
              BY <1>4, <5>1
          <5>3. results[i - 1] <= results[Nth]
              BY <1>3, <3>1, <5>1 DEF TypeOK
          <5> QED
              BY <5>2, <5>3
        <4> QED
            BY <4>1, <4>2
      <3>4. ByAge(all)[Nth] <= results[Nth]
          BY <1>4, <3>1, <3>2, <3>3, ByAgeAtMost
      <3> QED
          BY <1>5, <3>1, <3>4
    <2>3. /\ results[Nth] \in Nat /\ results'[Nth] \in Nat
      <3>1. Nth \in DOMAIN results /\ Nth \in 1..Len(results')
          BY <1>3, <1>5, Hours
      <3>2. results'[Nth] \in 0..MaxAge
          BY <1>5, <3>1, ElementOfSeq
      <3>3. results[Nth] \in Nat
          BY <3>1, Rows
      <3>4. results'[Nth] \in Nat
          BY <3>2, Hours
      <3> QED
          BY <3>3, <3>4
    <2> QED
        BY <1>5, <2>1, <2>2, <2>3, Numbers
  <1>11. RescansOnly'
    <2> SUFFICES ASSUME NEW k \in 1..Nth, k > scans'
                 PROVE  results'[k] >= Least(since, MaxAge)
        BY <1>1, <1>6 DEF RescansOnly
    <2>1. scans' = scans + 1 /\ k \in DOMAIN all /\ k \in DOMAIN results'
        BY <1>1, <1>6, Hours, Numbers DEF Least
    <2>2. Least(since, MaxAge) \in Nat
        BY Hours, Numbers DEF Least
    <2>3. \A i \in DOMAIN all : i >= k => all[i] >= Least(since, MaxAge)
      <3> SUFFICES ASSUME NEW i \in 1..(1 + Nth), i >= k
                   PROVE  all[i] >= Least(since, MaxAge)
          BY <1>6
      <3>1. ~(i <= 1) /\ i - 1 \in 1..Nth /\ i - 1 > scans
          BY <2>1, Hours, Numbers
      <3>2. all[i] = results[i - 1]
          BY <1>4, <3>1
      <3> QED
          BY <1>3, <3>1, <3>2 DEF RescansOnly
    <2>4. ByAge(all)[k] >= Least(since, MaxAge)
        BY <1>4, <2>1, <2>2, <2>3, ByAgeAtLeast
    <2> QED
        BY <1>5, <2>1, <2>4
  <1>12. RowsStay'
      BY <1>5 DEF RowsStay
  <1>13. InTime'
    <2>1. scans' < Nth => scans < Nth
        BY <1>1, Hours, Numbers DEF Least
    <2>2. Running' <=> Running
        BY <1>1 DEF Running
    <2> QED
        BY <1>1, <2>1, <2>2 DEF InTime
  <1> QED
      BY <1>8, <1>9, <1>10, <1>11, <1>12, <1>13

\* Nothing happens.
LEMMA StutterKeeps ==
    ASSUME IInv, UNCHANGED vars
    PROVE  IInv'
  <1>1. /\ phase' = phase /\ due' = due /\ results' = results /\ left' = left
        /\ buffer' = buffer /\ elapsed' = elapsed /\ since' = since
        /\ scans' = scans /\ failed' = failed /\ begun' = begun
        /\ importing' = importing
      BY Zenon DEF vars, ghosts
  <1> QED
      BY <1>1 DEF IInv, TypeOK, RunInv, StartSeen, RescansOnly, RowsStay, InTime,
                  Running, Alive

\* Every step.
LEMMA NextKeeps ==
    ASSUME IInv, [Next]_vars
    PROVE  IInv'
  BY TickKeeps, CronKeeps, MainKeeps, CheckKeeps, SaveKeeps, FailLoses, RescanKeeps,
     StutterKeeps DEF Next

\* The invariant holds.
LEMMA Invariance == Spec => []IInv
  <1>1. Init => IInv
      BY InitInv
  <1>2. IInv /\ [Next]_vars => IInv'
      BY NextKeeps
  <1> QED
      BY <1>1, <1>2, PTL DEF Spec

-----------------------------------------------------------------------------
\* The theorems

\* The rows that lastCheck sees are the youngest, in the order of their ages,
\* and every counter keeps its range.
THEOREM CadenceTypeCorrect == Spec => []TypeOK
  <1>1. IInv => TypeOK
      BY DEF IInv
  <1> QED
      BY <1>1, Invariance, PTL

\* Where no run fails and fewer than Nth guilds are rescanned in between, the
\* results of the last full run are never older than three hours, a minute and
\* the time that start.py takes before main and for the checks.
THEOREM ResultsStayFresh == Spec => []ResultsEveryThreeHours
  <1>1. ASSUME IInv
        PROVE  ResultsEveryThreeHours
    <2> SUFFICES ASSUME InitialRows = Nth, ~failed, scans < Nth
                 PROVE  since <= 3 * Hour + 1 + MaxImport + MaxRun
        BY DEF ResultsEveryThreeHours
    <2>1. since <= IF Running THEN 3 * Hour + 1 + MaxImport + elapsed
                   ELSE IF importing THEN 3 * Hour + 1 + elapsed
                   ELSE IF due THEN 3 * Hour + 1 ELSE 2 * Hour + 1 + phase
        BY <1>1 DEF IInv, InTime
    <2>2. TypeOK /\ ~(importing /\ Running)
        BY <1>1 DEF IInv, RunInv
    <2> QED
        BY <2>1, <2>2, Hours, Numbers
  <1> QED
      BY <1>1, Invariance, PTL

\* Where there are enough guilds, a full run begins more than two hours after
\* the last one began that saved its results: it does not matter how long
\* start.py took to come to main, how long the runs take, and what was rescanned
\* or failed in between.
THEOREM RunsKeepTheirDistance == Spec => FullRunsApart
  <1>1. ASSUME IInv, RunStarts, Guilds >= Nth
        PROVE  begun > 2 * Hour + 1
    <2>1. TypeOK
        BY <1>1 DEF IInv
    <2>2. Len(results) = Nth /\ results[Nth] - 1 > 2 * Hour
        BY <1>1 DEF RunStarts, LastCheck
    <2>3. results[Nth] \in Nat
      <3>1. Nth \in DOMAIN results
          BY <2>1, <2>2, Hours, Rows
      <3> QED
          BY <2>1, <3>1, Rows
    <2>4. CASE begun < MaxAge
      <3>1. results[Nth] <= begun
          BY <1>1, <2>4 DEF IInv, StartSeen
      <3> QED
          BY <2>1, <2>2, <2>3, <3>1, Hours, Numbers
    <2>5. CASE ~(begun < MaxAge)
        BY <2>1, <2>5, Hours, Numbers
    <2> QED
        BY <2>4, <2>5
  <1>2. IInv /\ [Next]_vars =>
            [RunStarts /\ Guilds >= Nth => begun > 2 * Hour + 1]_vars
      BY <1>1
  <1> QED
      BY <1>2, Invariance, PTL DEF Spec, FullRunsApart

\* Where main finds a run too early, the last full run saved its results within
\* two hours and a minute, or Nth guilds were rescanned after it: failed runs
\* delay nothing.
THEOREM OverdueRunsStart == Spec => OverdueRunStarts
  <1>1. ASSUME IInv, TooEarly, Len(results) = Nth, scans < Nth
        PROVE  since <= 2 * Hour + 1
      BY <1>1, NotYet DEF IInv, TooEarly
  <1>2. IInv /\ [Next]_vars =>
            [TooEarly /\ Len(results) = Nth /\ scans < Nth
                => since <= 2 * Hour + 1]_vars
      BY <1>1
  <1> QED
      BY <1>2, Invariance, PTL DEF Spec, OverdueRunStarts
=============================================================================
