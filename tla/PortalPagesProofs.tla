--------------------------- MODULE PortalPagesProofs ---------------------------
(***************************************************************************)
(* Theorems about PortalPages, for every table of results, any guilds and  *)
(* dates, and every history of pages and answers: what a page shows fits   *)
(* the guild and the dates that it is about.  The second half is about     *)
(* ResultsList, the list of results on the home page and on a guild's page,*)
(* for all rows, guilds, searches and page sizes.                          *)
(***************************************************************************)
EXTENDS PortalPages, ResultsList, FiniteSetTheorems, SequenceTheorems, TLAPS

-----------------------------------------------------------------------------
\* The inductive invariant

\* The history leads back to the guild pages that were opened.
PageOpened == page = "guild" => guild \in opened

\* The rows of a page are those of its guild once the store has them, k, and
\* before that none or, after a jump, those of another guild of the history, o.
RowsFit(v, g, k, o) ==
    /\ v.rowsOf \in (o \cap Guilds) \cup {None}
    /\ g \in k => v.rowsOf = g
    /\ g \notin k /\ v.rowsOf # None => v.jumped

\* The charts are those that the rows, the dates and the latest results give.
ChartsFit(v, q) ==
    v.charts = IF Came(q) /\ v.rowsOf # None
               THEN BuildChartData(v.rowsOf, v.range) ELSE <<>>

\* An average that is not asked for anew is that of the guild and the dates.
AverageFits(v, g) ==
    v.averageState = "ok" /\ v.average # None => v.average = <<g, v.range>>

\* The last request for missing blocks is that of the guild and the dates, and
\* if it is no longer under way, its answer is shown, unless it failed, its
\* answer was overtaken or the guild is another one since.
LastAskedFits(v, g) ==
    /\ v.current \in Request
    /\ ~v.passed =>
         /\ v.current.guild = g /\ v.current.range = v.range
         /\ v.current \notin v.asked => v.missing = v.current

\* SourceFits, of one state of the page.
SourcesOf(v) ==
    \A r \in v.asked \cup ({v.missing} \ {None}) :
        /\ r.top21 => r.guild \in Top21
        /\ r.range # Recent => (r.top21 <=> r.guild \in Top21)

\* What holds of a page whatever the charts show.
ViewFits(v, g, k, o) ==
    RowsFit(v, g, k, o) /\ AverageFits(v, g) /\ LastAskedFits(v, g)

PageInv ==
    OnGuildPage => ViewFits(view, guild, kept, opened) /\ ChartsFit(view, query)

IInv == TypeOK /\ PageOpened /\ PageInv /\ SourceFits /\ OnlyNoResultsBreak

-----------------------------------------------------------------------------
\* Times in order

Rank(S, t) == Cardinality({u \in S : u >= t})

\* A later time comes before.
LEMMA RankOrder ==
    ASSUME NEW S \in SUBSET Nat, IsFiniteSet(S), NEW t \in S, NEW u \in S, t < u
    PROVE  Rank(S, u) < Rank(S, t)
  <1> DEFINE T == {v \in S : v >= t}
             U == {v \in S : v >= u}
  <1>1. t \in Nat /\ u \in Nat /\ \A v \in S : v \in Nat
      OBVIOUS
  <1>2. U \in SUBSET T /\ t \in T /\ t \notin U /\ T \in SUBSET S
    <2>1. ASSUME NEW v \in U
          PROVE  v \in T
      <3>1. v \in S /\ v \in Nat /\ v >= u
          BY <1>1
      <3>2. v >= t
          BY <1>1, <3>1
      <3> QED
          BY <3>1, <3>2
    <2>2. t \in T /\ t \notin U
        BY <1>1
    <2> HIDE DEF U
    <2>3. T \subseteq S
        OBVIOUS
    <2> QED
        BY <2>1, <2>2, <2>3
  <1> HIDE DEF T, U
  <1>3. IsFiniteSet(T)
      BY <1>2, FS_Subset
  <1>4. IsFiniteSet(U) /\ Cardinality(U) <= Cardinality(T) /\ U # T
        /\ (Cardinality(T) = Cardinality(U) => T = U)
      BY <1>2, <1>3, FS_Subset
  <1>5. Cardinality(T) \in Nat /\ Cardinality(U) \in Nat
      BY <1>3, <1>4, FS_CardinalityType
  <1>6. Cardinality(U) < Cardinality(T)
      BY <1>4, <1>5
  <1> QED
      BY <1>6 DEF Rank, T, U

\* There is a time for each place, and a place for each time.
LEMMA RankOnto ==
    ASSUME NEW S \in SUBSET Nat, IsFiniteSet(S)
    PROVE  /\ Cardinality(S) \in Nat
           /\ \A t \in S : Rank(S, t) \in 1..Cardinality(S)
           /\ \A k \in 1..Cardinality(S) : \E t \in S : Rank(S, t) = k
  <1> DEFINE n == Cardinality(S)
             f == [t \in S |-> Rank(S, t)]
  <1>1. n \in Nat
      BY FS_CardinalityType
  <1>2. ASSUME NEW t \in S
        PROVE  Rank(S, t) \in 1..n
    <2> DEFINE T == {v \in S : v >= t}
    <2>1. T \in SUBSET S /\ t \in T
        OBVIOUS
    <2> HIDE DEF T
    <2>2. IsFiniteSet(T) /\ Cardinality(T) <= n
        BY <2>1, FS_Subset
    <2>3. Cardinality(T) \in Nat /\ (Cardinality(T) = 0 <=> T = {})
        BY <2>2, FS_CardinalityType, FS_EmptySet
    <2>4. Cardinality(T) \in 1..n
        BY <1>1, <2>1, <2>2, <2>3
    <2> QED
        BY <2>4 DEF Rank, T
  <1>3. f \in Injection(S, 1..n)
    <2>1. f \in [S -> 1..n]
        BY <1>2
    <2>2. ASSUME NEW t \in S, NEW u \in S, f[t] = f[u]
          PROVE  t = u
      <3>1. Rank(S, t) = Rank(S, u) /\ Rank(S, t) \in Nat
          BY <1>1, <1>2, <2>2
      <3>2. ~(t < u) /\ ~(u < t)
        <4>1. Rank(S, u) \in Nat
            BY <3>1
        <4>2. CASE t < u
            BY <3>1, <4>2, RankOrder
        <4>3. CASE u < t
            BY <3>1, <4>1, <4>3, RankOrder
        <4> QED
            BY <4>2, <4>3
      <3>3. t \in Nat /\ u \in Nat
          OBVIOUS
      <3> QED
          BY <3>2, <3>3
    <2> QED
        BY <2>1, <2>2 DEF Injection, IsInjective
  <1> HIDE DEF f
  <1>4. IsFiniteSet(1..n) /\ Cardinality(1..n) = n
      BY <1>1, FS_Interval
  <1>5. f \in Surjection(S, 1..n)
      BY <1>3, <1>4, FS_Injection
  <1>6. ASSUME NEW k \in 1..n
        PROVE  \E t \in S : Rank(S, t) = k
    <2>1. PICK t \in S : f[t] = k
        BY <1>5 DEF Surjection
    <2> QED
        BY <2>1 DEF f
  <1> QED
      BY <1>1, <1>2, <1>6

\* A function on the first numbers is a sequence of its values, ...
LEMMA MapIsSequence ==
    ASSUME NEW S, NEW n \in Nat, NEW f \in [1..n -> S]
    PROVE  f \in Seq(S)
  BY SeqDef, Zenon

\* ... whose length is the last of the numbers.
LEMMA NumberSequence ==
    ASSUME NEW m \in Nat, NEW f \in [1..m -> Nat]
    PROVE  f \in Seq(Nat) /\ Len(f) = m /\ DOMAIN f = 1..m
  <1>1. f \in Seq(Nat)
      BY MapIsSequence
  <1> QED
      BY <1>1

\* NewestFirst has every time once, the latest first.
LEMMA NewestFirstProperties ==
    ASSUME NEW S \in SUBSET Nat, IsFiniteSet(S)
    PROVE  /\ NewestFirst(S) \in Seq(Nat) /\ Cardinality(S) \in Nat
           /\ Len(NewestFirst(S)) = Cardinality(S)
           /\ DOMAIN NewestFirst(S) = 1..Cardinality(S)
           /\ \A k \in 1..Cardinality(S) : NewestFirst(S)[k] \in S
           /\ \A t \in S : \E k \in 1..Cardinality(S) : NewestFirst(S)[k] = t
           /\ \A i, j \in 1..Cardinality(S) :
                i < j => NewestFirst(S)[j] < NewestFirst(S)[i]
  <1> DEFINE n == Cardinality(S)
             At(k) == CHOOSE t \in S : Rank(S, t) = k
             s == NewestFirst(S)
  <1>1. /\ n \in Nat /\ \A t \in S : Rank(S, t) \in 1..n
        /\ \A k \in 1..n : \E t \in S : Rank(S, t) = k
      BY RankOnto
  <1>2. \A k \in 1..n : At(k) \in S /\ Rank(S, At(k)) = k
      BY <1>1
  <1>3. s = [k \in 1..n |-> At(k)]
      BY DEF NewestFirst, Rank
  <1> HIDE DEF At, s, n
  <1>4. \A k \in 1..n : s[k] \in S /\ Rank(S, s[k]) = k
      BY <1>2, <1>3
  <1>5. s \in [1..n -> Nat]
    <2>1. \A k \in 1..n : At(k) \in Nat
        BY <1>2
    <2> QED
        BY <1>3, <2>1
  <1>6. s \in Seq(Nat) /\ Len(s) = n /\ DOMAIN s = 1..n
      BY <1>1, <1>5, NumberSequence
  <1>8. ASSUME NEW i \in 1..n, NEW j \in 1..n, i < j
        PROVE  s[j] < s[i]
    <2>1. /\ s[i] \in S /\ s[j] \in S /\ Rank(S, s[i]) = i /\ Rank(S, s[j]) = j
        BY <1>4
    <2>2. s[i] \in Nat /\ s[j] \in Nat
      <3>1. \A t \in S : t \in Nat
          OBVIOUS
      <3> QED
          BY <2>1, <3>1
    <2>3. ~(s[i] < s[j])
      <3>1. s[i] < s[j] => j < i
          BY <2>1, RankOrder
      <3> QED
          BY <1>1, <1>8, <3>1
    <2>4. s[i] # s[j]
        BY <1>8, <2>1
    <2> QED
        BY <2>2, <2>3, <2>4
  <1>9. ASSUME NEW t \in S
        PROVE  \E k \in 1..n : s[k] = t
    <2> DEFINE k == Rank(S, t)
    <2>1. k \in 1..n
        BY <1>1
    <2>2. s[k] \in S /\ Rank(S, s[k]) = k
        BY <1>4, <2>1
    <2>3. s[k] \in Nat /\ t \in Nat /\ k \in Nat
      <3>1. \A u \in S : u \in Nat
          OBVIOUS
      <3>2. k \in Nat
          BY <1>1, <2>1
      <3> HIDE DEF k
      <3> QED
          BY <2>2, <3>1, <3>2
    <2>4. ~(s[k] < t) /\ ~(t < s[k])
      <3>1. CASE s[k] < t
          BY <2>2, <2>3, <3>1, RankOrder
      <3>2. CASE t < s[k]
          BY <2>2, <2>3, <3>2, RankOrder
      <3> QED
          BY <3>1, <3>2
    <2>5. s[k] = t
        BY <2>3, <2>4
    <2> QED
        BY <2>1, <2>5
  <1> QED
      BY <1>1, <1>4, <1>6, <1>8, <1>9 DEF s, n

\* The latest times of a set are some of its times, and where there are times
\* there is a latest.
LEMMA NewestProperties ==
    ASSUME NEW S \in SUBSET Nat, IsFiniteSet(S), NEW n \in Nat \ {0}
    PROVE  /\ Newest(S, n) \in SUBSET S
           /\ S # {} => \E t \in S : t \in Newest(S, n)
                                     /\ \A u \in S : u <= t
  <1>1. ASSUME S # {}
        PROVE  \E t \in S : t \in Newest(S, n) /\ \A u \in S : u <= t
    <2>1. Cardinality(S) \in Nat /\ Cardinality(S) # 0
        BY <1>1, FS_CardinalityType, FS_EmptySet
    <2>2. PICK t \in S : Rank(S, t) = 1
        BY <2>1, RankOnto
    <2>3. ASSUME NEW u \in S, t < u
          PROVE  FALSE
      <3>1. Rank(S, u) < 1
          BY <2>2, <2>3, RankOrder
      <3>2. Rank(S, u) \in 1..Cardinality(S)
          BY RankOnto
      <3> QED
          BY <2>1, <3>1, <3>2
    <2>4. \A u \in S : u <= t
      <3>1. \A u \in S : u \in Nat
          OBVIOUS
      <3> QED
          BY <2>3, <3>1
    <2>5. t \in Newest(S, n)
        BY <2>2 DEF Newest, Rank
    <2> QED
        BY <2>4, <2>5
  <1> QED
      BY <1>1 DEF Newest

\* What is sent are results of the guild, and something is if there are any.
LEMMA TruncatedProperties ==
    ASSUME NEW g \in Guilds
    PROVE  /\ Table[g] \in SUBSET Nat /\ IsFiniteSet(Table[g])
           /\ Truncated[g] \in SUBSET Table[g]
           /\ Truncated[g] = {} => Table[g] = {}
  <1> DEFINE D == {t \in Table[g] : t \in Newest(OfTheDay(g, t), PerDay)}
  <1>1. /\ Table[g] \in SUBSET Nat /\ IsFiniteSet(Table[g])
        /\ PerDay \in Nat \ {0} /\ Limit \in Nat \ {0}
      BY PagesAssumption
  <1>2. Truncated[g] = Newest(D, Limit)
      BY DEF Truncated
  <1>3. D \in SUBSET Table[g] /\ D \in SUBSET Nat
      BY <1>1
  <1>4. IsFiniteSet(D)
      BY <1>1, <1>3, FS_Subset
  <1>5. ASSUME Table[g] # {}
        PROVE  D # {}
    <2>1. PICK t \in Table[g] : TRUE
        BY <1>5
    <2> DEFINE O == OfTheDay(g, t)
    <2>2. O \in SUBSET Table[g] /\ t \in O /\ O \in SUBSET Nat
        BY <1>1 DEF OfTheDay
    <2>3. IsFiniteSet(O)
        BY <1>1, <2>2, FS_Subset
    <2>4. PICK u \in O : u \in Newest(O, PerDay)
      <3> HIDE DEF O
      <3> QED
          BY <1>1, <2>2, <2>3, NewestProperties
    <2>5. u \in Table[g] /\ OfTheDay(g, u) = O
        BY <2>4 DEF OfTheDay
    <2> QED
        BY <2>4, <2>5
  <1> HIDE DEF D
  <1>6. Newest(D, Limit) \in SUBSET D /\ (D # {} => Newest(D, Limit) # {})
      BY <1>1, <1>3, <1>4, NewestProperties
  <1> QED
      BY <1>1, <1>2, <1>3, <1>5, <1>6

\* A chart has the times of this guild within the dates that were sent, oldest
\* first, and not more than there are.
LEMMA ChartProperties ==
    ASSUME NEW g \in Guilds, NEW r
    PROVE  /\ BuildChartData(g, r) \in Seq(Nat)
           /\ ToSet(BuildChartData(g, r)) = {t \in Truncated[g] : Within(t, r)}
           /\ \A i, j \in DOMAIN BuildChartData(g, r) :
                i < j => BuildChartData(g, r)[i] < BuildChartData(g, r)[j]
           /\ Len(BuildChartData(g, r)) <= TotalCount(g, r)
  <1> DEFINE S == {t \in Truncated[g] : Within(t, r)}
             T == {t \in Table[g] : Within(t, r)}
             n == Cardinality(S)
             s == NewestFirst(S)
             c == BuildChartData(g, r)
  <1>1. S \in SUBSET T /\ T \in SUBSET Table[g] /\ S \in SUBSET Nat
      BY TruncatedProperties
  <1>2. IsFiniteSet(S) /\ n <= Cardinality(T)
    <2>1. IsFiniteSet(T)
        BY <1>1, TruncatedProperties, FS_Subset
    <2> QED
        BY <1>1, <2>1, FS_Subset
  <1>3. c = Reverse(s) /\ TotalCount(g, r) = Cardinality(T)
      BY DEF BuildChartData, Selected, TotalCount
  <1> HIDE DEF S, T
  <1>4. /\ s \in Seq(Nat) /\ n \in Nat /\ Len(s) = n
        /\ \A k \in 1..n : s[k] \in S
        /\ \A t \in S : \E k \in 1..n : s[k] = t
        /\ \A i, j \in 1..n : i < j => s[j] < s[i]
      BY <1>1, <1>2, NewestFirstProperties
  <1> HIDE DEF n, s
  <1>5. c = [i \in 1..n |-> s[(n - i) + 1]]
      BY <1>3, <1>4 DEF Reverse
  <1> HIDE DEF c
  <1>6. \A i \in 1..n : (n - i) + 1 \in 1..n /\ (n - ((n - i) + 1)) + 1 = i
      BY <1>4
  <1>7. /\ DOMAIN c = 1..n
        /\ \A i \in 1..n : c[i] = s[(n - i) + 1] /\ c[i] \in S
      BY <1>4, <1>5, <1>6
  <1>8. c \in [1..n -> Nat]
      BY <1>1, <1>5, <1>7
  <1>9. c \in Seq(Nat)
      BY <1>4, <1>8, NumberSequence
  <1>10. Len(c) = n
      BY <1>4, <1>8, NumberSequence
  <1>11. ToSet(c) = S
    <2>1. ASSUME NEW t \in S
          PROVE  \E i \in 1..n : c[i] = t
      <3>1. PICK k \in 1..n : s[k] = t
          BY <1>4
      <3>2. (n - k) + 1 \in 1..n /\ c[(n - k) + 1] = s[k]
          BY <1>6, <1>7
      <3> QED
          BY <3>1, <3>2
    <2> QED
        BY <1>7, <2>1 DEF ToSet
  <1>12. ASSUME NEW i \in 1..n, NEW j \in 1..n, i < j
         PROVE  c[i] < c[j]
    <2>1. (n - j) + 1 < (n - i) + 1
        BY <1>4, <1>12
    <2>2. s[(n - i) + 1] < s[(n - j) + 1]
        BY <1>4, <1>6, <2>1
    <2> QED
        BY <1>7, <2>2
  <1> QED
      BY <1>2, <1>3, <1>7, <1>9, <1>10, <1>11, <1>12 DEF c, S, n

-----------------------------------------------------------------------------
\* What the parts of a page make of its state

Queries ==
    {q \in [{"producers", "latest"} ->
              {"none", "pending", "ok", "empty", "failed"}] :
       q["producers"] # "empty"}

\* A page begins with the recent dates and with nothing else.
LEMMA FreshTypes ==
    /\ Recent \in Ranges /\ Picks \subseteq Ranges
    /\ FreshView \in View /\ FreshEmpty \in Empty
    /\ \A b \in BOOLEAN : [FreshView EXCEPT !.jumped = b] \in View
    /\ \A x \in Guilds \cup {None}, b \in BOOLEAN :
         [FreshView EXCEPT !.rowsOf = x, !.rowsBusy = b] \in View
  <1>1. Recent \in Ranges /\ Picks \subseteq Ranges
      BY DEF Ranges
  <1>2. <<>> \in Seq(Nat)
      OBVIOUS
  <1>3. FreshView \in View
      BY <1>1, <1>2 DEF FreshView, View
  <1>4. FreshEmpty \in Empty
      BY <1>1 DEF FreshEmpty, Empty
  <1>5. ASSUME NEW b \in BOOLEAN
        PROVE  [FreshView EXCEPT !.jumped = b] \in View
      BY <1>1, <1>2 DEF FreshView, View
  <1>6. ASSUME NEW x \in Guilds \cup {None}, NEW b \in BOOLEAN
        PROVE  [FreshView EXCEPT !.rowsOf = x, !.rowsBusy = b] \in View
    <2> DEFINE f == [FreshView EXCEPT !.rowsOf = x]
    <2>1. f \in View
        BY <1>3 DEF View
    <2> HIDE DEF f
    <2>2. [f EXCEPT !.rowsBusy = b] \in View
        BY <2>1 DEF View
    <2> QED
        BY <2>2 DEF f
  <1> QED
      BY <1>1, <1>3, <1>4, <1>5, <1>6

\* The charts are all that a render changes.
LEMMA ChartedFacts ==
    ASSUME NEW v \in View, NEW q \in Queries
    PROVE  LET w == Charted(v, q)
           IN /\ w \in View
              /\ w = [v EXCEPT !.charts = w.charts]
              /\ w.charts = IF Came(q) /\ v.rowsOf # None
                            THEN BuildChartData(v.rowsOf, v.range) ELSE v.charts
  <1>1. CASE Came(q) /\ v.rowsOf # None
    <2> DEFINE c == BuildChartData(v.rowsOf, v.range)
    <2>1. v.rowsOf \in Guilds
        BY <1>1 DEF View
    <2>2. c \in Seq(Nat)
        BY <2>1, ChartProperties
    <2> HIDE DEF c
    <2>3. Charted(v, q) = [v EXCEPT !.charts = c]
        BY <1>1 DEF Charted, c
    <2>4. [v EXCEPT !.charts = c] \in View /\ [v EXCEPT !.charts = c].charts = c
        BY <2>2 DEF View
    <2> QED
        BY <1>1, <2>3, <2>4 DEF c
  <1>2. CASE ~(Came(q) /\ v.rowsOf # None)
    <2>1. Charted(v, q) = v
        BY <1>2 DEF Charted
    <2>2. v = [v EXCEPT !.charts = v.charts]
        BY DEF View
    <2> QED
        BY <1>2, <2>1, <2>2
  <1> QED
      BY <1>1, <1>2

\* The request for missing blocks is that of the guild and the dates, and asks
\* the mainnet only for the top 21.
LEMMA AskedMissingFacts ==
    ASSUME NEW g \in Guilds, NEW v \in View, NEW q \in Queries
    PROVE  \E r \in Request :
             /\ AskedMissing(g, v, q) =
                   [v EXCEPT !.asked = @ \cup {r}, !.current = r, !.passed = FALSE]
             /\ AskedMissing(g, v, q) \in View
             /\ r.guild = g /\ r.range = v.range
             /\ r.top21 <=> q["producers"] = "ok" /\ g \in Top21
  <1> DEFINE b == q["producers"] = "ok" /\ g \in Top21
             r == [guild |-> g, range |-> v.range, top21 |-> b]
  <1>1. v.range \in Ranges /\ v.asked \in SUBSET Request
      BY DEF View
  <1>2. b \in BOOLEAN
      OBVIOUS
  <1>3. r \in Request
    <2> HIDE DEF b
    <2> QED
        BY <1>1, <1>2 DEF Request
  <1>4. r.guild = g /\ r.range = v.range /\ (r.top21 <=> b)
      BY Zenon
  <1>5. AskedMissing(g, v, q) =
            [v EXCEPT !.asked = @ \cup {r}, !.current = r, !.passed = FALSE]
      BY DEF AskedMissing
  <1> HIDE DEF r
  <1>6. v.asked \cup {r} \in SUBSET Request
      BY <1>1, <1>3
  <1>7. AskedMissing(g, v, q) \in View
      BY <1>3, <1>5, <1>6 DEF View
  <1> QED
      BY <1>3, <1>4, <1>5, <1>7

\* Averages that are asked for are not shown.
LEMMA AskedAverageFacts ==
    ASSUME NEW g \in Guilds, NEW v \in View
    PROVE  \E a \in (Guilds \X Ranges) \cup {None} :
             /\ AskedAverage(g, v) =
                   [v EXCEPT !.average = a, !.averageState = "busy"]
             /\ AskedAverage(g, v) \in View
  <1> DEFINE a == IF v.range \in v.seen THEN <<g, v.range>> ELSE v.average
  <1>1. v.range \in Ranges /\ v.average \in (Guilds \X Ranges) \cup {None}
      BY DEF View
  <1>2. a \in (Guilds \X Ranges) \cup {None}
      BY <1>1
  <1>3. AskedAverage(g, v) = [v EXCEPT !.average = a, !.averageState = "busy"]
      BY DEF AskedAverage
  <1> HIDE DEF a
  <1>4. [v EXCEPT !.average = a, !.averageState = "busy"] \in View
      BY <1>2 DEF View
  <1> QED
      BY <1>2, <1>3, <1>4

\* Queries that are made for a page are queries.
LEMMA SubscribeType ==
    ASSUME NEW S, NEW q \in Queries
    PROVE  Subscribe(S, q) \in Queries
  BY DEF Subscribe, Queries

\* The empty blocks that a range of dates asks for.
LEMMA AskedEmptyType ==
    ASSUME NEW e \in Empty
    PROVE  AskedEmpty(e) \in Empty
  <1>1. e.range \in Ranges
      BY DEF Empty
  <1>2. [e EXCEPT !.of = e.range, !.state = "ok"] \in Empty
      BY <1>1 DEF Empty
  <1>3. [e EXCEPT !.state = "busy"] \in Empty
      BY DEF Empty
  <1> QED
      BY <1>2, <1>3 DEF AskedEmpty

\* A guild page that is mounted fits its guild.
LEMMA MountedFacts ==
    ASSUME NEW g \in Guilds, NEW q \in Queries, g \in opened'
    PROVE  LET w == Mounted(g, q)
           IN /\ w \in View /\ ViewFits(w, g, kept', opened')
              /\ SourcesOf(w) /\ w.charts = <<>>
  <1> DEFINE o == IF g \in kept' THEN g ELSE None
             b == g \notin kept'
             v == [FreshView EXCEPT !.rowsOf = o, !.rowsBusy = b]
             a == AskedAverage(g, v)
             w == AskedMissing(g, a, q)
  <1>1. /\ v \in View /\ v.range = Recent /\ v.rowsOf = o
        /\ v.charts = <<>> /\ v.asked = {} /\ v.missing = None
        /\ v.jumped = FALSE
    <2>1. o \in Guilds \cup {None} /\ b \in BOOLEAN
        OBVIOUS
    <2> HIDE DEF o, b
    <2>2. v \in View
        BY <2>1, FreshTypes
    <2> QED
        BY <2>1, <2>2 DEF FreshView
  <1> HIDE DEF o, b, v
  <1>2. /\ a \in View /\ a.range = Recent /\ a.rowsOf = o
        /\ a.charts = <<>> /\ a.asked = {} /\ a.missing = None
        /\ a.jumped = FALSE /\ a.averageState = "busy"
    <2>1. PICK x \in (Guilds \X Ranges) \cup {None} :
             /\ a = [v EXCEPT !.average = x, !.averageState = "busy"]
             /\ a \in View
        BY <1>1, AskedAverageFacts
    <2> HIDE DEF a
    <2> QED
        BY <1>1, <2>1 DEF View
  <1> HIDE DEF a
  <1>3. PICK r \in Request :
             /\ w = [a EXCEPT !.asked = @ \cup {r}, !.current = r, !.passed = FALSE]
             /\ w \in View
             /\ r.guild = g /\ r.range = a.range
             /\ r.top21 <=> q["producers"] = "ok" /\ g \in Top21
    <2>1. a \in View
        BY <1>2
    <2> QED
        BY <2>1, AskedMissingFacts, Zenon
  <1> HIDE DEF w
  <1>4. /\ w.range = Recent /\ w.rowsOf = o /\ w.charts = <<>>
        /\ w.asked = {r} /\ w.current = r /\ w.missing = None
        /\ w.jumped = FALSE /\ w.averageState = "busy"
      BY <1>2, <1>3 DEF View
  <1>5. RowsFit(w, g, kept', opened') /\ AverageFits(w, g)
    <2>1. w.rowsOf = IF g \in kept' THEN g ELSE None
        BY <1>4 DEF o
    <2> QED
        BY <1>4, <2>1 DEF RowsFit, AverageFits
  <1>6. LastAskedFits(w, g)
      BY <1>2, <1>3, <1>4 DEF LastAskedFits
  <1>7. SourcesOf(w)
      BY <1>2, <1>3, <1>4 DEF SourcesOf
  <1>8. w = Mounted(g, q)
      BY DEF w, a, v, o, b, Mounted
  <1> QED
      BY <1>3, <1>4, <1>5, <1>6, <1>7, <1>8 DEF ViewFits

\* What a render leaves: a state that fits with the charts that belong to it,
\* or the error element where the rows of a guild that has none were read.
LEMMA RenderFacts ==
    ASSUME NEW g \in Guilds, NEW v \in View, query' \in Queries, Render(g, v),
           ViewFits(v, g, kept', opened'), SourcesOf(v),
           ~Came(query') \/ v.rowsOf = None => v.charts = <<>>
    PROVE  /\ view' \in View /\ broken' \in BOOLEAN /\ SourcesOf(view')
           /\ ~broken' => ViewFits(view', g, kept', opened') /\ ChartsFit(view', query')
           /\ broken' => /\ g \in Top21 \cup Standby
                         /\ \E h \in opened' \cap Guilds :
                              Table[h] = {} /\ (h = g \/ view'.jumped)
  <1>0. Throws(g, v, query') \in BOOLEAN /\ broken' = Throws(g, v, query')
      BY Zenon DEF Render, Throws
  <1>1. CASE Throws(g, v, query')
    <2>1. broken' = TRUE
        BY <1>0, <1>1, Zenon
    <2>2. view' = [FreshView EXCEPT !.jumped = v.jumped]
        BY <2>1 DEF Render
    <2>3. v.jumped \in BOOLEAN
        BY DEF View
    <2>4. /\ view' \in View /\ view'.asked = {} /\ view'.missing = None
          /\ view'.jumped = v.jumped
      <3>1. view' \in View
          BY <2>2, <2>3, FreshTypes
      <3> QED
          BY <2>2, <3>1 DEF FreshView
    <2>5. SourcesOf(view')
        BY <2>4 DEF SourcesOf
    <2>6. /\ g \in Top21 \cup Standby /\ v.rowsOf \in Guilds
          /\ Truncated[v.rowsOf] = {}
        BY <1>1 DEF Throws, Known, View
    <2>7. /\ v.rowsOf \in opened' \cap Guilds /\ Table[v.rowsOf] = {}
          /\ v.rowsOf = g \/ v.jumped
        BY <2>6, TruncatedProperties, PagesAssumption DEF ViewFits, RowsFit
    <2> QED
        BY <2>1, <2>4, <2>5, <2>6, <2>7
  <1>2. CASE ~Throws(g, v, query')
    <2> DEFINE w == Charted(v, query')
    <2>1. broken' = FALSE
        BY <1>0, <1>2, Zenon
    <2>2. view' = w
        BY <2>1 DEF Render
    <2>3. /\ w \in View /\ w = [v EXCEPT !.charts = w.charts]
          /\ w.charts = IF Came(query') /\ v.rowsOf # None
                        THEN BuildChartData(v.rowsOf, v.range) ELSE v.charts
        BY ChartedFacts
    <2> HIDE DEF w
    <2>4. /\ w.range = v.range /\ w.rowsOf = v.rowsOf /\ w.average = v.average
          /\ w.averageState = v.averageState /\ w.asked = v.asked
          /\ w.current = v.current /\ w.missing = v.missing
          /\ w.passed = v.passed /\ w.jumped = v.jumped
        BY <2>3 DEF View
    <2>5. ViewFits(w, g, kept', opened') /\ SourcesOf(w)
        BY <2>4 DEF ViewFits, RowsFit, AverageFits, LastAskedFits, SourcesOf
    <2>6. ChartsFit(w, query')
        BY <2>3, <2>4 DEF ChartsFit
    <2> QED
        BY <2>1, <2>2, <2>3, <2>5, <2>6
  <1> QED
      BY <1>1, <1>2

\* A page of a guild after a render.
LEMMA RenderKeeps ==
    ASSUME NEW g \in Guilds, NEW v \in View, Render(g, v),
           ViewFits(v, g, kept', opened'), SourcesOf(v),
           ~Came(query') \/ v.rowsOf = None => v.charts = <<>>,
           query' \in Queries, page' = "guild", guild' = g, g \in opened',
           kept' \subseteq opened' \cap Guilds,
           opened' \subseteq Guilds \cup {"home", "empty"}, empty' \in Empty
    PROVE  IInv'
  <1>1. /\ view' \in View /\ broken' \in BOOLEAN /\ SourcesOf(view')
        /\ ~broken' => ViewFits(view', g, kept', opened') /\ ChartsFit(view', query')
        /\ broken' => /\ g \in Top21 \cup Standby
                      /\ \E h \in opened' \cap Guilds :
                           Table[h] = {} /\ (h = g \/ view'.jumped)
      BY RenderFacts
  <1>2. guild' \in Guilds \cup {None} /\ guild' # None
      BY PagesAssumption
  <1>3. TypeOK'
      BY <1>1, <1>2 DEF TypeOK, Queries
  <1>4. PageOpened' /\ PageInv'
      BY <1>1 DEF PageOpened, PageInv, OnGuildPage
  <1>5. SourceFits'
      BY <1>1 DEF SourceFits, SourcesOf
  <1>6. OnlyNoResultsBreak'
      BY <1>1 DEF OnlyNoResultsBreak
  <1> QED
      BY <1>3, <1>4, <1>5, <1>6 DEF IInv

\* A page that is mounted.
LEMMA MountKeeps ==
    ASSUME NEW p \in {"home", "guild", "empty"}, NEW g \in Guilds \cup {None},
           p = "guild" <=> g # None, Mount(p, g), query' \in Queries,
           kept' \subseteq opened' \cap Guilds,
           opened' \subseteq Guilds \cup {"home", "empty"},
           p = "guild" => g \in opened'
    PROVE  IInv'
  <1>1. page' = p /\ guild' = g
      BY DEF Mount
  <1>2. empty' \in Empty
      BY FreshTypes, AskedEmptyType DEF Mount
  <1>3. CASE p = "guild"
    <2> DEFINE w == Mounted(g, query')
    <2>1. g \in Guilds /\ Render(g, w)
        BY <1>3 DEF Mount
    <2>2. /\ w \in View /\ ViewFits(w, g, kept', opened')
          /\ SourcesOf(w) /\ w.charts = <<>>
        BY <1>3, <2>1, MountedFacts
    <2> HIDE DEF w
    <2> QED
        BY <1>1, <1>2, <1>3, <2>1, <2>2, RenderKeeps
  <1>4. CASE p # "guild"
    <2>1. broken' = (p = "home" /\ HomeThrows(query')) /\ view' = FreshView
        BY <1>4 DEF Mount
    <2>6. broken' \in BOOLEAN
        BY <2>1, Zenon
    <2>7. broken' => /\ page' = "home" /\ query'["producers"] = "ok"
                     /\ query'["latest"] = "empty"
        BY <1>1, <2>1 DEF HomeThrows
    <2>2. view' \in View /\ view'.asked = {} /\ view'.missing = None
        BY <2>1, FreshTypes DEF FreshView
    <2>3. TypeOK'
        BY <1>1, <1>2, <1>4, <2>2, <2>6 DEF TypeOK, Queries
    <2>4. PageOpened' /\ PageInv' /\ OnlyNoResultsBreak'
        BY <1>1, <1>4, <2>7 DEF PageOpened, PageInv, OnGuildPage, OnlyNoResultsBreak
    <2>5. SourceFits'
        BY <2>2 DEF SourceFits
    <2> QED
        BY <2>3, <2>4, <2>5 DEF IInv
  <1> QED
      BY <1>3, <1>4

-----------------------------------------------------------------------------
\* The steps

\* What is known of the state.
LEMMA PageFacts ==
    ASSUME IInv
    PROVE  /\ page \in {"home", "guild", "empty"}
           /\ guild \in Guilds \cup {None} /\ (guild # None <=> page = "guild")
           /\ query \in Queries /\ DOMAIN query = {"producers", "latest"}
           /\ kept \subseteq opened \cap Guilds
           /\ opened \subseteq Guilds \cup {"home", "empty"}
           /\ page = "guild" => guild \in opened
           /\ view \in View /\ empty \in Empty /\ broken \in BOOLEAN
           /\ SourcesOf(view)
           /\ OnGuildPage => /\ ViewFits(view, guild, kept, opened)
                             /\ ChartsFit(view, query) /\ guild \in Guilds
  BY DEF IInv, TypeOK, Queries, PageOpened, PageInv, SourceFits, SourcesOf, OnGuildPage

\* The page and what it shows stay, and so do the latest results and those of
\* the guild where its page is shown.
LEMMA PageStays ==
    ASSUME IInv, page' = page, guild' = guild, broken' = broken, view' = view,
           query' \in Queries, OnGuildPage => query' = query,
           broken => query' = query \/ query' = [query EXCEPT !["latest"] = "none"],
           kept' \subseteq kept, OnGuildPage /\ guild \in kept => guild \in kept',
           opened' = opened, empty' \in Empty
    PROVE  IInv'
  <1>1. TypeOK'
      BY DEF IInv, TypeOK, Queries
  <1>2. PageInv'
    <2>1. OnGuildPage' = OnGuildPage
        BY DEF OnGuildPage
    <2>2. CASE OnGuildPage
      <3>1. guild \in kept' <=> guild \in kept
          BY <2>2
      <3>2. ViewFits(view, guild, kept, opened) => ViewFits(view, guild, kept', opened)
          BY <3>1 DEF ViewFits, RowsFit
      <3> QED
          BY <2>1, <2>2, <3>2 DEF IInv, PageInv, ViewFits, ChartsFit, Came
    <2> QED
        BY <2>1, <2>2 DEF PageInv
  <1>3. OnlyNoResultsBreak'
    <2>1. CASE page = "guild"
        BY <2>1 DEF IInv, OnlyNoResultsBreak
    <2>2. CASE page # "guild" /\ broken
      <3>1. query'["producers"] = query["producers"]
            /\ query'["latest"] \in {query["latest"], "none"}
          BY <2>2 DEF IInv, TypeOK
      <3> QED
          BY <2>2, <3>1 DEF IInv, OnlyNoResultsBreak
    <2>3. CASE ~broken
        BY <2>3 DEF OnlyNoResultsBreak
    <2> QED
        BY <2>1, <2>2, <2>3
  <1>4. PageOpened' /\ SourceFits'
      BY DEF IInv, PageOpened, SourceFits
  <1> QED
      BY <1>1, <1>2, <1>3, <1>4 DEF IInv

\* Something else than the charts changes on the page of a guild.
LEMMA ViewChanges ==
    ASSUME IInv, OnGuildPage, page' = page, guild' = guild, broken' = broken,
           query' = query, kept' = kept, opened' = opened, empty' = empty,
           view' \in View, ViewFits(view', guild, kept, opened),
           SourcesOf(view'),
           ChartsFit(view', query)
    PROVE  IInv'
  <1>1. TypeOK'
      BY DEF IInv, TypeOK
  <1>2. PageOpened' /\ PageInv' /\ OnlyNoResultsBreak'
      BY DEF IInv, PageOpened, PageInv, OnGuildPage, OnlyNoResultsBreak
  <1>3. SourceFits'
      BY DEF SourceFits, SourcesOf
  <1> QED
      BY <1>1, <1>2, <1>3 DEF IInv

\* A new document.
LEMMA LoadKeeps ==
    ASSUME IInv, NEW p \in {"home", "guild", "empty"},
           NEW g \in Guilds \cup {None}, p = "guild" <=> g # None, Load(p, g)
    PROVE  IInv'
  <1> DEFINE q == [x \in DOMAIN query |-> "none"]
  <1>1. q \in Queries
      BY PageFacts DEF Queries
  <1> HIDE DEF q
  <1>2. query' \in Queries
      BY <1>1, SubscribeType DEF Load, q
  <1>3. kept' = {} /\ opened' = {Address(p, g)} /\ Mount(p, g)
      BY DEF Load
  <1>4. /\ kept' \subseteq opened' \cap Guilds
        /\ opened' \subseteq Guilds \cup {"home", "empty"}
        /\ p = "guild" => g \in opened'
      BY <1>3 DEF Address
  <1> QED
      BY <1>2, <1>3, <1>4, MountKeeps

\* A link of the header.
LEMMA GoKeeps ==
    ASSUME IInv, NEW p \in {"home", "empty"}, Go(p)
    PROVE  IInv'
  <1>1. query' \in Queries
      BY PageFacts, SubscribeType DEF Go
  <1>2. kept' = kept /\ opened' = opened \cup {p} /\ Mount(p, None)
      BY DEF Go
  <1>3. None \notin Guilds /\ p # "guild"
      BY PagesAssumption
  <1>4. /\ kept' \subseteq opened' \cap Guilds
        /\ opened' \subseteq Guilds \cup {"home", "empty"}
      BY <1>2, PageFacts
  <1> QED
      BY <1>1, <1>2, <1>3, <1>4, MountKeeps

\* A page of the history that is mounted anew.
LEMMA ReturnKeeps ==
    ASSUME IInv, NEW p \in {"home", "guild", "empty"},
           NEW g \in Guilds \cup {None}, p = "guild" <=> g # None, Return(p, g)
    PROVE  IInv'
  <1>1. query' \in Queries
      BY PageFacts, SubscribeType DEF Return
  <1>2. /\ kept' = kept /\ opened' = opened /\ Mount(p, g)
        /\ Address(p, g) \in opened
      BY DEF Return
  <1>3. p = "guild" => g \in opened'
      BY <1>2 DEF Address
  <1> QED
      BY <1>1, <1>2, <1>3, PageFacts, MountKeeps

\* A card of the list of guilds.
LEMMA OpenGuildKeeps ==
    ASSUME IInv, NEW g \in Guilds, OpenGuild(g)
    PROVE  IInv'
  <1>1. /\ query' = query /\ kept' = kept /\ opened' = opened \cup {g}
        /\ Mount("guild", g)
      BY DEF OpenGuild
  <1>2. g # None
      BY PagesAssumption
  <1>3. /\ kept' \subseteq opened' \cap Guilds
        /\ opened' \subseteq Guilds \cup {"home", "empty"}
      BY <1>1, PageFacts
  <1> QED
      BY <1>1, <1>2, <1>3, PageFacts, MountKeeps

\* Another guild page of the history.
LEMMA JumpKeeps ==
    ASSUME IInv, NEW g \in Guilds, Jump(g)
    PROVE  IInv'
  <1> DEFINE o == IF g \in kept THEN g ELSE view.rowsOf
             b == g \notin kept
             w == [view EXCEPT !.rowsOf = o, !.rowsBusy = b,
                               !.averageState = "busy", !.seen = {},
                               !.passed = TRUE, !.jumped = TRUE]
  <1>1. /\ page = "guild" /\ ~broken /\ g \in opened /\ page' = "guild"
        /\ guild' = g /\ query' = query /\ opened' = opened /\ kept' = kept
        /\ empty' = empty /\ Render(g, w)
      BY DEF Jump
  <1>2. query \in Queries /\ view \in View /\ empty \in Empty
      BY PageFacts
  <1>3. OnGuildPage
      BY <1>1 DEF OnGuildPage
  <1>4. /\ ViewFits(view, guild, kept, opened) /\ ChartsFit(view, query)
        /\ SourcesOf(view)
      BY <1>3, PageFacts
  <1>5. /\ o \in (opened \cap Guilds) \cup {None} /\ b \in BOOLEAN
        /\ o = None => view.rowsOf = None
        /\ g \in kept => o = g
      BY <1>1, <1>4, PagesAssumption DEF ViewFits, RowsFit
  <1> HIDE DEF o, b
  <1>6. /\ w \in View /\ w.range = view.range /\ w.rowsOf = o
        /\ w.charts = view.charts /\ w.averageState = "busy"
        /\ w.asked = view.asked /\ w.current = view.current
        /\ w.missing = view.missing /\ w.passed = TRUE
        /\ w.jumped = TRUE
      BY <1>2, <1>5 DEF View
  <1> HIDE DEF w
  <1>7. ViewFits(w, g, kept, opened) /\ SourcesOf(w)
      BY <1>4, <1>5, <1>6
      DEF ViewFits, RowsFit, AverageFits, LastAskedFits, SourcesOf
  <1>8. ~Came(query) \/ w.rowsOf = None => w.charts = <<>>
      BY <1>4, <1>5, <1>6 DEF ChartsFit
  <1> QED
      BY <1>1, <1>2, <1>6, <1>7, <1>8, PageFacts, RenderKeeps

\* The store forgets, and the page of empty blocks changes.
LEMMA OtherKeeps ==
    ASSUME IInv, Expire \/ PickEmpty \/ EmptyAnswered
    PROVE  IInv'
  <1>1. query \in Queries /\ empty \in Empty
      BY PageFacts
  <1>2. CASE Expire
    <2>1. /\ page' = page /\ guild' = guild /\ broken' = broken
          /\ opened' = opened /\ view' = view /\ empty' = empty
        BY <1>2 DEF Expire
    <2>2. CASE /\ page = "empty" \/ broken
               /\ query' = [query EXCEPT !["latest"] = "none"] /\ kept' = kept
      <3>1. query' \in Queries /\ ~OnGuildPage
          BY <1>1, <2>2 DEF Queries, OnGuildPage
      <3> QED
          BY <1>1, <2>1, <2>2, <3>1, PageStays
    <2>3. CASE /\ \E g \in kept : (g = guild => broken) /\ kept' = kept \ {g}
               /\ query' = query
      <3>1. kept' \subseteq kept /\ (OnGuildPage /\ guild \in kept => guild \in kept')
          BY <2>3 DEF OnGuildPage
      <3> QED
          BY <1>1, <2>1, <2>3, <3>1, PageStays
    <2> QED
        BY <1>2, <2>2, <2>3 DEF Expire
  <1>3. CASE PickEmpty
    <2>1. PICK r \in Picks : empty' = AskedEmpty([empty EXCEPT !.range = r])
        BY <1>3 DEF PickEmpty
    <2>2. [empty EXCEPT !.range = r] \in Empty
        BY <1>1, FreshTypes DEF Empty
    <2>3. empty' \in Empty
        BY <2>1, <2>2, AskedEmptyType
    <2>4. /\ page' = page /\ guild' = guild /\ broken' = broken /\ query' = query
          /\ opened' = opened /\ kept' = kept /\ view' = view
        BY <1>3 DEF PickEmpty
    <2> QED
        BY <1>1, <2>3, <2>4, PageStays
  <1>4. CASE EmptyAnswered
    <2>1. empty.range \in Ranges /\ empty.seen \in SUBSET Ranges
        BY <1>1 DEF Empty
    <2>2. empty.seen \cup {empty.range} \in SUBSET Ranges
        BY <2>1
    <2>3. [empty EXCEPT !.of = empty.range, !.state = "ok",
                        !.seen = @ \cup {empty.range}] \in Empty
        BY <1>1, <2>1, <2>2 DEF Empty
    <2>4. [empty EXCEPT !.state = "failed"] \in Empty
        BY <1>1 DEF Empty
    <2>5. empty' \in Empty
        BY <1>4, <2>3, <2>4 DEF EmptyAnswered
    <2>6. /\ page' = page /\ guild' = guild /\ broken' = broken /\ query' = query
          /\ opened' = opened /\ kept' = kept /\ view' = view
        BY <1>4 DEF EmptyAnswered
    <2> QED
        BY <1>1, <2>5, <2>6, PageStays
  <1> QED
      BY <1>2, <1>3, <1>4

\* Dates are picked: averages and missing blocks are asked for anew.
LEMMA PickEndKeeps ==
    ASSUME IInv, NEW r \in Picks, PickEnd(r)
    PROVE  IInv'
  <1> DEFINE v == [view EXCEPT !.range = r]
             a == AskedAverage(guild, v)
             w == AskedMissing(guild, a, query)
  <1>1. /\ page' = page /\ guild' = guild /\ query' = query
        /\ opened' = opened /\ kept' = kept /\ empty' = empty
        /\ PickerShown /\ Render(guild, w)
      BY DEF PickEnd
  <1>2. /\ OnGuildPage /\ page = "guild" /\ query["producers"] = "ok"
      BY <1>1 DEF PickerShown, OnGuildPage, Known
  <1>3. /\ view \in View /\ guild \in Guilds /\ query \in Queries
        /\ empty \in Empty
        /\ ViewFits(view, guild, kept, opened) /\ ChartsFit(view, query) /\ SourcesOf(view)
      BY <1>2, PageFacts
  <1>4. /\ v \in View /\ v.range = r /\ v.rowsOf = view.rowsOf
        /\ v.charts = view.charts /\ v.asked = view.asked
        /\ v.missing = view.missing /\ v.jumped = view.jumped
      BY <1>3, FreshTypes DEF View
  <1> HIDE DEF v
  <1>5. /\ a \in View /\ a.range = r /\ a.rowsOf = view.rowsOf
        /\ a.charts = view.charts /\ a.asked = view.asked
        /\ a.missing = view.missing /\ a.jumped = view.jumped
        /\ a.averageState = "busy"
    <2>1. PICK x \in (Guilds \X Ranges) \cup {None} :
             /\ a = [v EXCEPT !.average = x, !.averageState = "busy"]
             /\ a \in View
        BY <1>3, <1>4, AskedAverageFacts
    <2> HIDE DEF a
    <2> QED
        BY <1>4, <2>1 DEF View
  <1> HIDE DEF a
  <1>6. PICK m \in Request :
             /\ w = [a EXCEPT !.asked = @ \cup {m}, !.current = m, !.passed = FALSE]
             /\ w \in View
             /\ m.guild = guild /\ m.range = a.range
             /\ m.top21 <=> query["producers"] = "ok" /\ guild \in Top21
      BY <1>3, <1>5, AskedMissingFacts, Zenon
  <1> HIDE DEF w
  <1>7. /\ w.range = r /\ w.rowsOf = view.rowsOf /\ w.charts = view.charts
        /\ w.asked = view.asked \cup {m} /\ w.current = m
        /\ w.missing = view.missing /\ w.jumped = view.jumped
        /\ w.averageState = "busy"
      BY <1>5, <1>6 DEF View
  <1>8. ViewFits(w, guild, kept, opened)
    <2>1. RowsFit(w, guild, kept, opened)
        BY <1>3, <1>7 DEF ViewFits, RowsFit
    <2>2. AverageFits(w, guild)
        BY <1>7 DEF AverageFits
    <2>3. LastAskedFits(w, guild)
        BY <1>5, <1>6, <1>7 DEF LastAskedFits
    <2> QED
        BY <2>1, <2>2, <2>3 DEF ViewFits
  <1>9. SourcesOf(w)
      BY <1>2, <1>3, <1>6, <1>7 DEF SourcesOf
  <1>10. ~Came(query) \/ w.rowsOf = None => w.charts = <<>>
      BY <1>3, <1>7 DEF ChartsFit
  <1> QED
      BY <1>1, <1>2, <1>3, <1>6, <1>8, <1>9, <1>10, PageFacts, RenderKeeps

\* The producers or the latest results come, or do not.
LEMMA QueryAnsweredKeeps ==
    ASSUME IInv, NEW x \in DOMAIN query, QueryAnswered(x)
    PROVE  IInv'
  <1>1. PICK s \in {"ok", "empty", "failed"} :
           /\ query' = [query EXCEPT ![x] = s]
           /\ x = "producers" => s # "empty"
    <2>1. PICK s \in Answers(x) : query' = [query EXCEPT ![x] = s]
        BY DEF QueryAnswered
    <2>2. s \in {"ok", "empty", "failed"} /\ (x = "producers" => s # "empty")
        BY DEF Answers
    <2> QED
        BY <2>1, <2>2
  <1>2. /\ query[x] = "pending" /\ page' = page /\ guild' = guild
        /\ opened' = opened /\ kept' = kept /\ empty' = empty
      BY DEF QueryAnswered
  <1>3. /\ query \in Queries /\ x \in {"producers", "latest"}
        /\ view \in View /\ empty \in Empty
        /\ kept \subseteq opened \cap Guilds
        /\ opened \subseteq Guilds \cup {"home", "empty"}
      BY PageFacts
  <1>4. /\ query' \in Queries
        /\ Came(query) => Came(query')
      BY <1>1, <1>2, <1>3 DEF Queries, Came
  <1>5. CASE OnGuildPage
    <2>1. Render(guild, view) /\ page = "guild"
        BY <1>5 DEF QueryAnswered, OnGuildPage
    <2>2. /\ guild \in Guilds /\ guild \in opened /\ ViewFits(view, guild, kept, opened)
          /\ ChartsFit(view, query) /\ SourcesOf(view)
        BY <1>5, <2>1, PageFacts
    <2>3. ~Came(query') \/ view.rowsOf = None => view.charts = <<>>
        BY <1>4, <2>2 DEF ChartsFit
    <2> QED
        BY <1>2, <1>3, <1>4, <2>1, <2>2, <2>3, RenderKeeps
  <1>6. CASE ~OnGuildPage
    <2>1. /\ broken' = (broken \/ (page = "home" /\ HomeThrows(query')))
          /\ view' = view
        BY <1>6, Zenon DEF QueryAnswered
    <2>2. broken' \in BOOLEAN
        BY <2>1, Zenon
    <2>3. TypeOK'
        BY <1>2, <1>3, <1>4, <2>1, <2>2 DEF IInv, TypeOK, Queries
    <2>4. broken => broken'
        BY <2>1
    <2>5. PageOpened' /\ PageInv' /\ SourceFits'
      <3>1. ~OnGuildPage'
          BY <1>2, <1>6, <2>4 DEF OnGuildPage
      <3> QED
          BY <1>2, <2>1, <3>1 DEF IInv, PageOpened, PageInv, SourceFits
    <2>6. OnlyNoResultsBreak'
      <3>1. CASE page = "guild"
        <4>1. broken' => broken
            BY <2>1, <3>1
        <4> QED
            BY <1>2, <2>1, <3>1, <4>1 DEF IInv, OnlyNoResultsBreak
      <3>2. CASE page # "guild" /\ broken
          \* Neither query is under way on a broken home page.
          BY <1>2, <1>3, <3>2 DEF IInv, OnlyNoResultsBreak
      <3>3. CASE page # "guild" /\ ~broken
          BY <1>2, <2>1, <3>3 DEF OnlyNoResultsBreak, HomeThrows
      <3> QED
          BY <3>1, <3>2, <3>3
    <2> QED
        BY <2>3, <2>5, <2>6 DEF IInv
  <1> QED
      BY <1>5, <1>6

\* The results of the guild come, or do not.
LEMMA RowsAnsweredKeeps ==
    ASSUME IInv, RowsAnswered
    PROVE  IInv'
  <1>1. /\ OnGuildPage /\ page = "guild" /\ page' = page /\ guild' = guild
        /\ query' = query /\ opened' = opened /\ empty' = empty
      BY DEF RowsAnswered, OnGuildPage
  <1>2. /\ view \in View /\ guild \in Guilds /\ guild \in opened
        /\ query \in Queries /\ empty \in Empty
        /\ kept \subseteq opened \cap Guilds
        /\ opened \subseteq Guilds \cup {"home", "empty"}
        /\ ViewFits(view, guild, kept, opened) /\ ChartsFit(view, query) /\ SourcesOf(view)
      BY <1>1, PageFacts
  <1>3. guild # None
      BY <1>2, PagesAssumption
  <1>4. CASE /\ kept' = kept \cup {guild}
             /\ Render(guild, [view EXCEPT !.rowsOf = guild, !.rowsBusy = FALSE])
    <2> DEFINE w == [view EXCEPT !.rowsOf = guild, !.rowsBusy = FALSE]
    <2>1. /\ w \in View /\ w.rowsOf = guild /\ w.charts = view.charts
          /\ w.range = view.range /\ w.average = view.average
          /\ w.averageState = view.averageState /\ w.asked = view.asked
          /\ w.current = view.current /\ w.missing = view.missing
          /\ w.passed = view.passed /\ w.jumped = view.jumped
        BY <1>2 DEF View
    <2>2. Render(guild, w)
        BY <1>4
    <2> HIDE DEF w
    <2>3. ViewFits(w, guild, kept', opened) /\ SourcesOf(w)
      <3>1. RowsFit(w, guild, kept', opened)
          BY <1>2, <1>3, <1>4, <2>1 DEF RowsFit
      <3>2. AverageFits(w, guild)
        <4>1. AverageFits(view, guild)
            BY <1>2 DEF ViewFits
        <4> QED
            BY <2>1, <4>1 DEF AverageFits
      <3>3. LastAskedFits(w, guild)
          BY <1>2, <2>1 DEF ViewFits, LastAskedFits
      <3>4. SourcesOf(w)
          BY <1>2, <2>1 DEF SourcesOf
      <3> QED
          BY <3>1, <3>2, <3>3, <3>4 DEF ViewFits
    <2>4. ~Came(query) \/ w.rowsOf = None => w.charts = <<>>
        BY <1>2, <1>3, <2>1 DEF ChartsFit
    <2>5. kept' \subseteq opened \cap Guilds
        BY <1>2, <1>4
    <2> QED
        BY <1>1, <1>2, <2>1, <2>2, <2>3, <2>4, <2>5, RenderKeeps
  <1>5. CASE /\ kept' = kept
             /\ Render(guild, [view EXCEPT !.rowsBusy = FALSE])
    <2> DEFINE w == [view EXCEPT !.rowsBusy = FALSE]
    <2>1. /\ w \in View /\ w.rowsOf = view.rowsOf /\ w.charts = view.charts
          /\ w.range = view.range /\ w.average = view.average
          /\ w.averageState = view.averageState /\ w.asked = view.asked
          /\ w.current = view.current /\ w.missing = view.missing
          /\ w.passed = view.passed /\ w.jumped = view.jumped
        BY <1>2 DEF View
    <2>2. Render(guild, w)
        BY <1>5
    <2> HIDE DEF w
    <2>3. ViewFits(w, guild, kept', opened) /\ SourcesOf(w)
        BY <1>2, <1>5, <2>1
        DEF ViewFits, RowsFit, AverageFits, LastAskedFits, SourcesOf
    <2>4. ~Came(query) \/ w.rowsOf = None => w.charts = <<>>
        BY <1>2, <2>1 DEF ChartsFit
    <2> QED
        BY <1>1, <1>2, <1>5, <2>1, <2>2, <2>3, <2>4, RenderKeeps
  <1> QED
      BY <1>4, <1>5 DEF RowsAnswered

\* The averages come, or do not.
LEMMA AverageAnsweredKeeps ==
    ASSUME IInv, AverageAnswered
    PROVE  IInv'
  <1>1. /\ OnGuildPage /\ page' = page /\ guild' = guild /\ broken' = broken
        /\ query' = query /\ opened' = opened /\ kept' = kept /\ empty' = empty
      BY DEF AverageAnswered
  <1>2. /\ view \in View /\ guild \in Guilds
        /\ ViewFits(view, guild, kept, opened) /\ ChartsFit(view, query) /\ SourcesOf(view)
      BY <1>1, PageFacts
  <1>3. /\ view' \in View /\ view'.range = view.range
        /\ view'.rowsOf = view.rowsOf /\ view'.charts = view.charts
        /\ view'.asked = view.asked /\ view'.current = view.current
        /\ view'.missing = view.missing /\ view'.passed = view.passed
        /\ view'.jumped = view.jumped /\ AverageFits(view', guild)
    <2> DEFINE x == <<guild, view.range>>
               y == view.seen \cup {view.range}
    <2>1. view.range \in Ranges /\ view.seen \in SUBSET Ranges
        BY <1>2 DEF View
    <2>2. x \in (Guilds \X Ranges) \cup {None} /\ y \in SUBSET Ranges
        BY <1>2, <2>1
    <2>3. CASE view' = [view EXCEPT !.average = x, !.averageState = "ok", !.seen = y]
      <3> HIDE DEF x, y
      <3>1. view' \in View /\ view'.average = x /\ view'.range = view.range
          BY <1>2, <2>2, <2>3 DEF View
      <3>2. AverageFits(view', guild)
          BY <3>1 DEF AverageFits, x
      <3> QED
          BY <1>2, <2>3, <3>1, <3>2 DEF View
    <2>4. CASE view' = [view EXCEPT !.averageState = "failed"]
        BY <1>2, <2>4 DEF View, AverageFits
    <2> QED
        BY <2>3, <2>4 DEF AverageAnswered
  <1>4. ViewFits(view', guild, kept, opened) /\ SourcesOf(view') /\ ChartsFit(view', query)
      BY <1>2, <1>3 DEF ViewFits, RowsFit, LastAskedFits, SourcesOf, ChartsFit
  <1> QED
      BY <1>1, <1>3, <1>4, ViewChanges

\* An answer about missing blocks comes, or does not.
LEMMA MissingAnsweredKeeps ==
    ASSUME IInv, NEW r \in view.asked, MissingAnswered(r)
    PROVE  IInv'
  <1>1. /\ OnGuildPage /\ page' = page /\ guild' = guild /\ broken' = broken
        /\ query' = query /\ opened' = opened /\ kept' = kept /\ empty' = empty
      BY DEF MissingAnswered
  <1>2. /\ view \in View /\ guild \in Guilds
        /\ ViewFits(view, guild, kept, opened) /\ ChartsFit(view, query) /\ SourcesOf(view)
      BY <1>1, PageFacts
  <1> DEFINE rest == view.asked \ {r}
             last == view.current \notin rest
             late == view.passed \/ (r # view.current /\ last)
             lost == view.passed \/ r = view.current
  <1>3. /\ rest \in SUBSET Request /\ r \in Request
        /\ late \in BOOLEAN /\ lost \in BOOLEAN
      BY <1>2 DEF View
  <1>4. \/ view' = [view EXCEPT !.asked = rest, !.missing = r, !.passed = late]
        \/ view' = [view EXCEPT !.asked = rest, !.passed = lost]
      BY Zenon DEF MissingAnswered
  <1>5. /\ view' \in View /\ view'.range = view.range
        /\ view'.rowsOf = view.rowsOf /\ view'.charts = view.charts
        /\ view'.average = view.average
        /\ view'.averageState = view.averageState
        /\ view'.current = view.current /\ view'.jumped = view.jumped
        /\ view'.asked = rest
        /\ \/ view'.missing = r /\ view'.passed = late
           \/ view'.missing = view.missing /\ view'.passed = lost
    <2> HIDE DEF rest, late, lost
    <2> QED
        BY <1>2, <1>3, <1>4 DEF View
  <1>6. LastAskedFits(view', guild)
    <2>1. ~view'.passed /\ view.current \notin rest => view'.missing = view.current
        BY <1>2, <1>5 DEF ViewFits, LastAskedFits
    <2> QED
        BY <1>2, <1>5, <2>1 DEF ViewFits, LastAskedFits
  <1>7. SourcesOf(view')
    <2>1. \A m \in view'.asked \cup ({view'.missing} \ {None}) :
             m \in view.asked \cup ({view.missing} \ {None})
        BY <1>5
    <2> QED
        BY <1>2, <2>1 DEF SourcesOf
  <1>8. ViewFits(view', guild, kept, opened) /\ ChartsFit(view', query)
      BY <1>2, <1>5, <1>6 DEF ViewFits, RowsFit, AverageFits, ChartsFit
  <1> QED
      BY <1>1, <1>5, <1>7, <1>8, ViewChanges

\* The home page is mounted first.
LEMMA InitInv ==
    ASSUME Init
    PROVE  IInv
  <1> DEFINE q == [x \in {"producers", "latest"} |-> "none"]
  <1>1. q \in Queries
      BY DEF Queries
  <1> HIDE DEF q
  <1>2. query \in Queries
      BY <1>1, SubscribeType DEF Init, q
  <1>3. /\ page = "home" /\ guild = None /\ broken = FALSE
        /\ opened = {"home"} /\ kept = {} /\ view = FreshView
        /\ empty = FreshEmpty
      BY DEF Init
  <1>4. view \in View /\ view.asked = {} /\ view.missing = None
      BY <1>3, FreshTypes DEF FreshView
  <1>5. TypeOK
      BY <1>2, <1>3, <1>4, FreshTypes DEF TypeOK, Queries
  <1>6. PageOpened /\ PageInv /\ OnlyNoResultsBreak
      BY <1>3 DEF PageOpened, PageInv, OnGuildPage, OnlyNoResultsBreak
  <1>7. SourceFits
      BY <1>4 DEF SourceFits
  <1> QED
      BY <1>5, <1>6, <1>7 DEF IInv

\* Every step.
LEMMA NextKeeps ==
    ASSUME IInv, [Next]_vars
    PROVE  IInv'
  <1>1. None \notin Guilds
      BY PagesAssumption
  <1>2. CASE \E p \in {"home", "empty"} :
               Load(p, None) \/ Go(p) \/ Return(p, None)
      BY <1>2, LoadKeeps, GoKeeps, ReturnKeeps
  <1>3. CASE \E g \in Guilds : \/ Load("guild", g) \/ Return("guild", g)
                              \/ OpenGuild(g) \/ Jump(g)
      BY <1>1, <1>3, LoadKeeps, ReturnKeeps, OpenGuildKeeps, JumpKeeps
  <1>4. CASE Expire \/ PickEmpty \/ EmptyAnswered
      BY <1>4, OtherKeeps
  <1>5. CASE \E r \in Picks : PickEnd(r)
      BY <1>5, PickEndKeeps
  <1>6. CASE \E x \in DOMAIN query : QueryAnswered(x)
      BY <1>6, QueryAnsweredKeeps
  <1>7. CASE RowsAnswered
      BY <1>7, RowsAnsweredKeeps
  <1>8. CASE AverageAnswered
      BY <1>8, AverageAnsweredKeeps
  <1>9. CASE \E r \in view.asked : MissingAnswered(r)
      BY <1>9, MissingAnsweredKeeps
  <1>10. CASE UNCHANGED vars
    <2>1. /\ page' = page /\ guild' = guild /\ broken' = broken /\ query' = query
          /\ opened' = opened /\ kept' = kept /\ view' = view /\ empty' = empty
        BY <1>10, Zenon DEF vars
    <2> QED
        BY <2>1, PageFacts, PageStays
  <1> QED
      BY <1>2, <1>3, <1>4, <1>5, <1>6, <1>7, <1>8, <1>9, <1>10 DEF Next

\* The invariant holds.
LEMMA Invariance == Spec => []IInv
  <1>1. Init => IInv
      BY InitInv
  <1>2. IInv /\ [Next]_vars => IInv'
      BY NextKeeps
  <1> QED
      BY <1>1, <1>2, PTL DEF Spec

-----------------------------------------------------------------------------
\* The theorems

\* Every part of the pages has its type, and the store keeps results only of
\* guilds whose pages were opened.
THEOREM PagesTypeCorrect == Spec => []TypeOK
  <1>1. IInv => TypeOK
      BY DEF IInv
  <1> QED
      BY <1>1, Invariance, PTL

\* From when the results of the page's guild have come the charts show its
\* checks that were sent and lie within the selected dates, oldest first, in
\* whatever order answers, dates and pages follow each other; before that they
\* show nothing, or, only after a jump, those of another guild of the history
\* (GuildDetails.tsx:44, 61-71).
THEOREM ChartsShowTheSelection == Spec => []ChartsFollow
  <1>1. ASSUME IInv, OnGuildPage
        PROVE  /\ ViewFits(view, guild, kept, opened) /\ ChartsFit(view, query)
               /\ guild \in Guilds
      BY <1>1, PageFacts
  <1>2. ASSUME IInv, OnGuildPage, guild \in kept, Came(query)
        PROVE  /\ ToSet(view.charts) =
                    {t \in Truncated[guild] : Within(t, view.range)}
               /\ \A i, j \in DOMAIN view.charts :
                    i < j => view.charts[i] < view.charts[j]
    <2>1. view.rowsOf = guild /\ guild # None
        BY <1>1, <1>2, PagesAssumption DEF ViewFits, RowsFit
    <2>2. view.charts = BuildChartData(guild, view.range)
        BY <1>1, <1>2, <2>1 DEF ChartsFit
    <2> QED
        BY <1>1, <1>2, <2>2, ChartProperties
  <1>3. ASSUME IInv, OnGuildPage, guild \notin kept, view.charts # <<>>
        PROVE  /\ view.jumped
               /\ \E g \in opened \cap Guilds :
                    ToSet(view.charts) = {t \in Truncated[g] : Within(t, view.range)}
    <2>1. /\ view.rowsOf # None
          /\ view.charts = BuildChartData(view.rowsOf, view.range)
        BY <1>1, <1>3 DEF ChartsFit
    <2>2. view.rowsOf \in opened \cap Guilds /\ view.jumped
        BY <1>1, <1>3, <2>1 DEF ViewFits, RowsFit
    <2> QED
        BY <2>1, <2>2, ChartProperties
  <1>4. IInv => ChartsFollow
      BY <1>2, <1>3, Zenon DEF ChartsFollow
  <1> QED
      BY <1>4, Invariance, PTL

\* Averages that are shown, neither asked for nor failed, are those of the guild
\* and the dates of the page and count every check of its charts.  With no
\* request for missing blocks under way those shown are of the guild and the
\* dates if the last request succeeded, its answer was the last to come and no
\* jump followed it.  The mainnet is asked only about the top 21, and about all
\* of them but for the dates that a page begins with
\* (GuildDetails.tsx:47-85, pgquery.js:177-236).
THEOREM AnswersFitThePage == Spec => []AnswersFit
  <1>1. ASSUME IInv
        PROVE  AveragesFit
    <2> SUFFICES ASSUME OnGuildPage, view.averageState = "ok", view.average # None
                 PROVE  /\ view.average = <<guild, view.range>>
                        /\ view.rowsOf = guild =>
                             Len(view.charts) <= TotalCount(guild, view.average[2])
        BY DEF AveragesFit
    <2>1. /\ ViewFits(view, guild, kept, opened) /\ ChartsFit(view, query) /\ guild \in Guilds
        BY <1>1, PageFacts
    <2>2. view.average = <<guild, view.range>>
        BY <2>1 DEF ViewFits, AverageFits
    <2>3. ASSUME view.rowsOf = guild
          PROVE  Len(view.charts) <= TotalCount(guild, view.range)
      <3>1. CASE view.charts = BuildChartData(guild, view.range)
          BY <2>1, <3>1, ChartProperties
      <3>2. CASE view.charts = <<>>
        <4>1. IsFiniteSet({t \in Table[guild] : Within(t, view.range)})
            BY <2>1, TruncatedProperties, FS_Subset
        <4>2. TotalCount(guild, view.range) \in Nat
            BY <4>1, FS_CardinalityType DEF TotalCount
        <4> QED
            BY <3>2, <4>2
      <3> QED
          BY <2>1, <2>3, <3>1, <3>2 DEF ChartsFit
    <2> QED
        BY <2>2, <2>3
  <1>2. ASSUME IInv
        PROVE  MissingFits
    <2> SUFFICES ASSUME OnGuildPage, view.asked = {}, ~view.passed
                 PROVE  /\ view.missing # None
                        /\ view.missing.guild = guild
                        /\ view.missing.range = view.range
        BY DEF MissingFits
    <2>1. ViewFits(view, guild, kept, opened)
        BY <1>2, PageFacts
    <2> QED
        BY <2>1, PagesAssumption DEF ViewFits, LastAskedFits
  <1>3. IInv => AnswersFit
      BY <1>1, <1>2 DEF AnswersFit, IInv
  <1> QED
      BY <1>3, Invariance, PTL

\* A guild page breaks only for a guild without results, its own or, after a
\* jump, one of the history, the home page only if no active guild has any, and
\* the page of empty blocks never: no dates break a page
\* (GuildDetails.tsx:117, 131, GuildsCheckResults.tsx:120).
THEOREM PagesBreakForWantOfResults == Spec => []OnlyNoResultsBreak
  <1>1. IInv => OnlyNoResultsBreak
      BY DEF IInv
  <1> QED
      BY <1>1, Invariance, PTL

-----------------------------------------------------------------------------
\* The list of results, a component of the home page and of the guild page:
\* ResultsList

-----------------------------------------------------------------------------
\* Filtering

Place(P, i) == Cardinality({j \in P : j <= i})

\* A greater number has a later place.
LEMMA PlaceOrder ==
    ASSUME NEW P \in SUBSET Nat, IsFiniteSet(P), NEW i \in P, NEW j \in P, i < j
    PROVE  Place(P, i) < Place(P, j)
  <1> DEFINE I == {k \in P : k <= i}
             J == {k \in P : k <= j}
  <1>1. \A k \in P : k \in Nat
      OBVIOUS
  <1>2. I \in SUBSET J /\ j \in J /\ j \notin I /\ J \in SUBSET P
    <2>1. ASSUME NEW k \in I
          PROVE  k \in J
      <3>1. k \in P /\ k \in Nat /\ k <= i
          BY <1>1
      <3>2. k <= j
          BY <1>1, <3>1
      <3> QED
          BY <3>1, <3>2
    <2>2. j \in J /\ j \notin I
        BY <1>1
    <2> HIDE DEF I
    <2>3. J \subseteq P
        OBVIOUS
    <2> QED
        BY <2>1, <2>2, <2>3
  <1> HIDE DEF I, J
  <1>3. IsFiniteSet(J)
      BY <1>2, FS_Subset
  <1>4. IsFiniteSet(I) /\ Cardinality(I) <= Cardinality(J)
        /\ (Cardinality(J) = Cardinality(I) => J = I)
      BY <1>2, <1>3, FS_Subset
  <1>5. Cardinality(I) \in Nat /\ Cardinality(J) \in Nat
      BY <1>3, <1>4, FS_CardinalityType
  <1>6. Cardinality(I) < Cardinality(J)
      BY <1>2, <1>4, <1>5
  <1> QED
      BY <1>6 DEF Place, I, J

\* There is a number for each place, and a place for each number.
LEMMA PlaceOnto ==
    ASSUME NEW P \in SUBSET Nat, IsFiniteSet(P)
    PROVE  /\ Cardinality(P) \in Nat
           /\ \A i \in P : Place(P, i) \in 1..Cardinality(P)
           /\ \A k \in 1..Cardinality(P) : \E i \in P : Place(P, i) = k
  <1> DEFINE n == Cardinality(P)
             f == [i \in P |-> Place(P, i)]
  <1>1. n \in Nat
      BY FS_CardinalityType
  <1>2. ASSUME NEW i \in P
        PROVE  Place(P, i) \in 1..n
    <2> DEFINE I == {j \in P : j <= i}
    <2>1. I \in SUBSET P /\ i \in I
        OBVIOUS
    <2> HIDE DEF I
    <2>2. IsFiniteSet(I) /\ Cardinality(I) <= n
        BY <2>1, FS_Subset
    <2>3. Cardinality(I) \in Nat /\ (Cardinality(I) = 0 <=> I = {})
        BY <2>2, FS_CardinalityType, FS_EmptySet
    <2>4. Cardinality(I) \in 1..n
        BY <1>1, <2>1, <2>2, <2>3
    <2> QED
        BY <2>4 DEF Place, I
  <1>3. f \in Injection(P, 1..n)
    <2>1. f \in [P -> 1..n]
        BY <1>2
    <2>2. ASSUME NEW i \in P, NEW j \in P, f[i] = f[j]
          PROVE  i = j
      <3>1. Place(P, i) = Place(P, j) /\ Place(P, i) \in Nat
          BY <1>1, <1>2, <2>2
      <3>2. ~(i < j) /\ ~(j < i)
        <4>1. CASE i < j
            BY <3>1, <4>1, PlaceOrder
        <4>2. CASE j < i
            BY <3>1, <4>2, PlaceOrder
        <4> QED
            BY <4>1, <4>2
      <3>3. i \in Nat /\ j \in Nat
          OBVIOUS
      <3> QED
          BY <3>2, <3>3
    <2> QED
        BY <2>1, <2>2 DEF Injection, IsInjective
  <1> HIDE DEF f
  <1>4. IsFiniteSet(1..n) /\ Cardinality(1..n) = n
      BY <1>1, FS_Interval
  <1>5. f \in Surjection(P, 1..n)
      BY <1>3, <1>4, FS_Injection
  <1>6. ASSUME NEW k \in 1..n
        PROVE  \E i \in P : Place(P, i) = k
    <2>1. PICK i \in P : f[i] = k
        BY <1>5 DEF Surjection
    <2> QED
        BY <2>1 DEF f
  <1> QED
      BY <1>1, <1>2, <1>6

\* filter() keeps the elements in the given places and no others.
LEMMA FilterProperties ==
    ASSUME NEW S, NEW s \in Seq(S), NEW P \in SUBSET (DOMAIN s)
    PROVE  /\ Filter(s, P) \in Seq(S)
           /\ \A k \in DOMAIN Filter(s, P) :
                \E i \in P : Filter(s, P)[k] = s[i]
           /\ \A i \in P : \E k \in DOMAIN Filter(s, P) :
                Filter(s, P)[k] = s[i]
           /\ Follows(Filter(s, P), s)
  <1> DEFINE n == Cardinality(P)
             At(k) == CHOOSE i \in P : Place(P, i) = k
             t == Filter(s, P)
  <1>1. Len(s) \in Nat /\ DOMAIN s = 1..Len(s) /\ \A i \in DOMAIN s : s[i] \in S
      OBVIOUS
  <1>2. P \in SUBSET Nat /\ IsFiniteSet(P)
    <2>1. IsFiniteSet(1..Len(s))
        BY <1>1, FS_Interval
    <2>2. IsFiniteSet(P)
        BY <1>1, <2>1, FS_Subset
    <2> QED
        BY <1>1, <2>2
  <1>3. /\ n \in Nat /\ \A i \in P : Place(P, i) \in 1..n
        /\ \A k \in 1..n : \E i \in P : Place(P, i) = k
      BY <1>2, PlaceOnto
  <1>4. \A k \in 1..n : At(k) \in P /\ Place(P, At(k)) = k
      BY <1>3
  <1>5. t = [k \in 1..n |-> s[At(k)]]
    <2>1. InOrder(P) = [k \in 1..n |-> At(k)]
        BY DEF InOrder, Place
    <2> HIDE DEF At
    <2> QED
        BY <2>1 DEF Filter
  <1> HIDE DEF At, t, n
  <1>6. t \in Seq(S) /\ DOMAIN t = 1..n
    <2>1. \A k \in 1..n : s[At(k)] \in S
        BY <1>1, <1>4
    <2>2. t \in [1..n -> S]
        BY <1>5, <2>1
    <2>3. t \in Seq(S)
        BY <1>3, <2>2, MapIsSequence
    <2> QED
        BY <2>2, <2>3
  <1>7. ASSUME NEW i \in P
        PROVE  \E k \in DOMAIN t : t[k] = s[i]
    <2> DEFINE k == Place(P, i)
    <2>1. k \in 1..n
        BY <1>3
    <2> HIDE DEF k
    <2>2. At(k) \in P /\ Place(P, At(k)) = k
        BY <1>4, <2>1
    <2>3. At(k) \in Nat /\ i \in Nat /\ k \in Nat
        BY <1>2, <1>3, <2>1, <2>2
    <2>4. ~(At(k) < i) /\ ~(i < At(k))
      <3>1. CASE At(k) < i
          BY <1>2, <2>2, <2>3, <3>1, PlaceOrder DEF k
      <3>2. CASE i < At(k)
          BY <1>2, <2>2, <2>3, <3>2, PlaceOrder DEF k
      <3> QED
          BY <3>1, <3>2
    <2>5. At(k) = i
        BY <2>3, <2>4
    <2> QED
        BY <1>5, <1>6, <2>1, <2>5
  <1>8. \A k \in DOMAIN t : \E i \in P : t[k] = s[i]
      BY <1>4, <1>5, <1>6
  <1>9. Follows(t, s)
    <2> SUFFICES ASSUME NEW k \in DOMAIN t, NEW l \in DOMAIN t, k < l
                 PROVE  \E i, j \in DOMAIN s : i < j /\ t[k] = s[i] /\ t[l] = s[j]
        BY DEF Follows
    <2>1. /\ At(k) \in P /\ Place(P, At(k)) = k
          /\ At(l) \in P /\ Place(P, At(l)) = l
        BY <1>4, <1>6
    <2>2. At(k) \in Nat /\ At(l) \in Nat /\ k \in Nat /\ l \in Nat
        BY <1>2, <1>3, <1>6, <2>1
    <2>3. ~(At(l) < At(k)) /\ At(l) # At(k)
      <3>1. CASE At(l) < At(k)
          BY <1>2, <2>1, <2>2, <3>1, PlaceOrder
      <3> QED
          BY <2>1, <2>2, <3>1
    <2>4. At(k) < At(l)
        BY <2>2, <2>3
    <2> QED
        BY <1>5, <1>6, <2>1, <2>4
  <1> QED
      BY <1>6, <1>7, <1>8, <1>9 DEF t

\* A filter of a filter keeps the order.
LEMMA FollowsAgain ==
    ASSUME NEW r, NEW s, NEW t, Follows(t, s), Follows(s, r)
    PROVE  Follows(t, r)
  <1> SUFFICES ASSUME NEW k \in DOMAIN t, NEW l \in DOMAIN t, k < l
               PROVE  \E i, j \in DOMAIN r : i < j /\ t[k] = r[i] /\ t[l] = r[j]
      BY DEF Follows
  <1>1. PICK i \in DOMAIN s, j \in DOMAIN s : i < j /\ t[k] = s[i] /\ t[l] = s[j]
      BY DEF Follows
  <1>2. PICK m \in DOMAIN r, n \in DOMAIN r : m < n /\ s[i] = r[m] /\ s[j] = r[n]
      BY <1>1 DEF Follows
  <1> QED
      BY <1>1, <1>2

\* The same for the set of its elements.
LEMMA FilterSet ==
    ASSUME NEW S, NEW s \in Seq(S), NEW P \in SUBSET (DOMAIN s)
    PROVE  ToSet(Filter(s, P)) = {s[i] : i \in P}
  <1> DEFINE t == Filter(s, P)
  <1>1. ToSet(t) = {t[k] : k \in DOMAIN t}
      BY DEF ToSet
  <1>2. /\ \A k \in DOMAIN t : \E i \in P : t[k] = s[i]
        /\ \A i \in P : \E k \in DOMAIN t : t[k] = s[i]
      BY FilterProperties
  <1> HIDE DEF t
  <1>3. {t[k] : k \in DOMAIN t} = {s[i] : i \in P}
      BY <1>2
  <1> QED
      BY <1>1, <1>3 DEF t

-----------------------------------------------------------------------------
\* Pages of the list

\* t is a stretch of s.
Stretch(t, s) ==
    \E k \in 0..Len(s) : \A i \in 1..Len(t) : k + i <= Len(s) /\ t[i] = s[k + i]

\* slice() from any position on, which may be counted from the end, returns
\* successive elements, no more than it is asked for, and from the front on just
\* those.
LEMMA SliceProperties ==
    ASSUME NEW S, NEW s \in Seq(S), NEW from \in Int, NEW n \in Nat \ {0}
    PROVE  /\ Slice(s, from, from + n) \in Seq(S)
           /\ Len(Slice(s, from, from + n)) \in 0..n
           /\ Stretch(Slice(s, from, from + n), s)
           /\ from >= 0 =>
                \A i \in 1..n :
                    IF from + i <= Len(s)
                    THEN /\ i <= Len(Slice(s, from, from + n))
                         /\ Slice(s, from, from + n)[i] = s[from + i]
                    ELSE i > Len(Slice(s, from, from + n))
  <1> DEFINE position(p) == IF p >= 0 THEN p
                            ELSE IF Len(s) + p > 0 THEN Len(s) + p ELSE 0
             to == position(from + n)
             first == position(from)
             last == IF to < Len(s) THEN to ELSE Len(s)
             t == SubSeq(s, first + 1, last)
  <1>1. Slice(s, from, from + n) = t
      BY DEF Slice
  <1>2. Len(s) \in Nat /\ \A i \in 1..Len(s) : s[i] \in S
      OBVIOUS
  <1>3. /\ first \in Nat /\ last \in Int /\ last <= Len(s)
        /\ last - first <= n
        /\ from < 0 => first <= Len(s)
        /\ from >= 0 => /\ first = from
                        /\ last = IF from + n < Len(s) THEN from + n ELSE Len(s)
      BY <1>2
  <1> HIDE DEF first, last, to, position
  <1>4. \A i \in (first + 1)..last : s[i] \in S
      BY <1>2, <1>3
  <1>5. /\ t \in Seq(S)
        /\ Len(t) = IF first + 1 <= last THEN last - first ELSE 0
        /\ \A i \in 1..(last - first) : t[i] = s[first + i]
    <2>1. first + 1 \in Int /\ last \in Int
        BY <1>3
    <2>2. /\ t \in Seq(S)
          /\ Len(t) = IF first + 1 <= last THEN last - (first + 1) + 1 ELSE 0
          /\ \A i \in 1..(last - (first + 1) + 1) : t[i] = s[(first + 1) + i - 1]
        BY <1>4, <2>1, SubSeqProperties
    <2>3. last - (first + 1) + 1 = last - first
        BY <1>3
    <2>4. \A i \in 1..(last - first) : (first + 1) + i - 1 = first + i
        BY <1>3
    <2> HIDE DEF t
    <2> QED
        BY <2>2, <2>3, <2>4
  <1> HIDE DEF t
  <1>6. Len(t) \in 0..n
      BY <1>3, <1>5
  <1>7. ASSUME from >= 0, NEW i \in 1..n
        PROVE  IF from + i <= Len(s) THEN i <= Len(t) /\ t[i] = s[from + i]
               ELSE i > Len(t)
    <2>1. first = from /\ last = IF from + n < Len(s) THEN from + n ELSE Len(s)
        BY <1>3, <1>7
    <2>2. CASE from + i <= Len(s)
      <3>1. i \in 1..(last - first) /\ first + 1 <= last
          BY <1>2, <2>1, <2>2
      <3>2. i <= Len(t) /\ t[i] = s[first + i]
          BY <1>5, <3>1
      <3> QED
          BY <2>1, <2>2, <3>2
    <2>3. CASE from + i > Len(s)
      <3>1. last - first < i
          BY <1>2, <2>1, <2>3
      <3> QED
          BY <1>2, <1>3, <1>5, <2>3, <3>1
    <2> QED
        BY <1>2, <2>2, <2>3
  <1>8. Stretch(t, s)
    <2>1. CASE first <= Len(s)
      <3>1. first \in 0..Len(s)
          BY <1>2, <1>3, <2>1
      <3>2. \A i \in 1..Len(t) : first + i <= Len(s) /\ t[i] = s[first + i]
          BY <1>2, <1>3, <1>5
      <3> QED
          BY <3>1, <3>2 DEF Stretch
    <2>2. CASE first > Len(s)
      <3>1. Len(t) = 0
          BY <1>2, <1>3, <1>5, <2>2
      <3>2. 0 \in 0..Len(s) /\ \A i \in 1..0 : FALSE
          BY <1>2
      <3> QED
          BY <3>1, <3>2 DEF Stretch
    <2> QED
        BY <1>2, <1>3, <2>1, <2>2
  <1> QED
      BY <1>1, <1>5, <1>6, <1>7, <1>8

\* The remainder of JavaScript lies between the ends, and below the divisor it
\* is the dividend.
LEMMA RemainderProperties ==
    ASSUME NEW a \in Int, NEW b \in Nat \ {0}
    PROVE  /\ Remainder(a, b) \in Int
           /\ -b < Remainder(a, b) /\ Remainder(a, b) < b
           /\ 0 <= a /\ a < b => Remainder(a, b) = a
  <1>1. CASE a >= 0
    <2>1. a % b \in 0..(b - 1)
        BY <1>1
    <2>2. a < b => a % b = a
        BY <1>1
    <2> QED
        BY <1>1, <2>1, <2>2 DEF Remainder
  <1>2. CASE a < 0
    <2>1. (-a) % b \in 0..(b - 1)
        BY <1>2
    <2> QED
        BY <1>2, <2>1 DEF Remainder
  <1> QED
      BY <1>1, <1>2

\* A page of the pagination begins within the list.
LEMMA PageWithin ==
    ASSUME NEW t \in Nat, NEW n \in Nat \ {0},
           NEW p \in 0..((t + n - 1) \div n - 1)
    PROVE  p * n \in Nat /\ p * n < t
  <1> DEFINE q == (t + n - 1) \div n
  <1>1. /\ t + n - 1 \in Nat /\ q \in Int
        /\ q * n <= t + n - 1
      OBVIOUS
  <1>2. p \in Nat /\ p + 1 <= q
      BY <1>1
  <1> HIDE DEF q
  <1>3. (p + 1) * n <= q * n
    <2>1. q - (p + 1) \in Nat
        BY <1>1, <1>2
    <2>2. (q - (p + 1)) * n \in Nat
        BY <2>1
    <2>3. (q - (p + 1)) * n = q * n - (p + 1) * n
        BY <1>1, <1>2
    <2>4. q * n \in Int /\ (p + 1) * n \in Int
        BY <1>1, <1>2
    <2> QED
        BY <2>2, <2>3, <2>4
  <1>4. (p + 1) * n = p * n + n /\ p * n \in Nat
      BY <1>2
  <1>5. q * n \in Int
      BY <1>1
  <1> QED
      BY <1>1, <1>3, <1>4, <1>5

-----------------------------------------------------------------------------
\* The inductive invariant of the list

\* The cards of the pagination are those from the offset on.  The offset is what
\* the remainder makes of the highlighted page, also beyond the pages, unless the
\* results have changed beneath it.
PagesInv ==
    /\ paginatedGuilds = Paginated(itemOffset)
    /\ activePage # 0 => ~filterable /\ TotalItems > ItemsPerPage
    /\ ~moved /\ activePage \in 0..(PagesCount - 1) =>
         itemOffset = activePage * ItemsPerPage

ListInv == ListTypeOK /\ PagesInv /\ FilterShown

\* What is shown on pages and by filters are the rows of active guilds.
LEMMA ActiveProperties ==
    ASSUME results \in Seq(Row)
    PROVE  /\ ActiveGuilds \in Seq(Row) /\ TotalItems \in Nat
           /\ ToSet(ActiveGuilds) =
                {row \in ToSet(results) : IsActive(row.owner_name)}
           /\ Follows(ActiveGuilds, results)
  <1> DEFINE P == {i \in DOMAIN results : IsActive(results[i].owner_name)}
  <1>1. P \in SUBSET (DOMAIN results)
      OBVIOUS
  <1>2. ActiveGuilds = Filter(results, P)
      BY DEF ActiveGuilds
  <1>3. ToSet(results) = {results[i] : i \in DOMAIN results}
      BY DEF ToSet
  <1>4. {results[i] : i \in P} =
          {row \in {results[i] : i \in DOMAIN results} :
             IsActive(row.owner_name)}
      OBVIOUS
  <1> HIDE DEF P
  <1>5. ActiveGuilds \in Seq(Row) /\ Follows(ActiveGuilds, results)
      BY <1>1, <1>2, FilterProperties
  <1>6. ToSet(ActiveGuilds) = {results[i] : i \in P}
      BY <1>1, <1>2, FilterSet
  <1> QED
      BY <1>3, <1>4, <1>5, <1>6 DEF TotalItems

\* The toggle and the search field together keep the rows that both let pass.
LEMMA FilteredProperties ==
    ASSUME results \in Seq(Row),
           NEW toggle \in {"all", "top21", "standby"}, NEW term
    PROVE  LET cards == Including(GetGuildsToggle(toggle), term)
           IN /\ cards \in Seq(Row)
              /\ ToSet(cards) =
                   {row \in ToSet(results) :
                      /\ IsActive(row.owner_name)
                      /\ toggle = "top21" => InTop21(row)
                      /\ toggle = "standby" => ~InTop21(row)
                      /\ row.owner_name \in term}
              /\ Follows(cards, results)
  <1> DEFINE a == ActiveGuilds
             Passes(row) == CASE toggle = "top21" -> InTop21(row)
                              [] toggle = "standby" -> ~InTop21(row)
                              [] toggle = "all" -> TRUE
             P == {i \in DOMAIN a : Passes(a[i])}
             b == GetGuildsToggle(toggle)
             Q == {i \in DOMAIN b : b[i].owner_name \in term}
             c == Including(b, term)
  <1>1. /\ a \in Seq(Row)
        /\ ToSet(a) =
             {row \in ToSet(results) : IsActive(row.owner_name)}
        /\ Follows(a, results)
      BY ActiveProperties
  <1>2. b = Filter(a, P) /\ P \in SUBSET (DOMAIN a)
      BY DEF GetGuildsToggle
  <1>3. c = Filter(b, Q) /\ Q \in SUBSET (DOMAIN b)
      BY DEF Including
  <1>4. /\ ToSet(a) = {a[i] : i \in DOMAIN a}
        /\ ToSet(b) = {b[i] : i \in DOMAIN b}
      BY DEF ToSet
  <1>5. {a[i] : i \in P} = {row \in {a[i] : i \in DOMAIN a} : Passes(row)}
    <2> HIDE DEF a, Passes
    <2> QED
        OBVIOUS
  <1>6. {b[i] : i \in Q} = {row \in {b[i] : i \in DOMAIN b} : row.owner_name \in term}
    <2> HIDE DEF b
    <2> QED
        OBVIOUS
  <1>7. \A row : Passes(row) <=> /\ toggle = "top21" => InTop21(row)
                                 /\ toggle = "standby" => ~InTop21(row)
      OBVIOUS
  <1> HIDE DEF a, b, c, P, Q, Passes
  <1>8. b \in Seq(Row) /\ ToSet(b) = {a[i] : i \in P} /\ Follows(b, a)
      BY <1>1, <1>2, FilterProperties, FilterSet
  <1>9. c \in Seq(Row) /\ ToSet(c) = {b[i] : i \in Q} /\ Follows(c, b)
      BY <1>3, <1>8, FilterProperties, FilterSet
  <1>10. ToSet(b) = {row \in ToSet(a) : Passes(row)}
      BY <1>4, <1>5, <1>8
  <1>11. ToSet(c) = {row \in ToSet(b) : row.owner_name \in term}
      BY <1>4, <1>6, <1>9
  <1>12. ToSet(c) = {row \in ToSet(results) :
                            /\ IsActive(row.owner_name)
                            /\ toggle = "top21" => InTop21(row)
                            /\ toggle = "standby" => ~InTop21(row)
                            /\ row.owner_name \in term}
      BY <1>1, <1>7, <1>10, <1>11
  <1>13. Follows(c, results)
      BY <1>1, <1>8, <1>9, FollowsAgain
  <1> QED
      BY <1>9, <1>12, <1>13 DEF b, c

\* Cards from any offset on are at most a page of successive rows.
LEMMA PaginatedProperties ==
    ASSUME results \in Seq(Row), NEW offset \in Int
    PROVE  /\ Paginated(offset) \in Seq(Row)
           /\ Len(Paginated(offset)) \in 0..ItemsPerPage
           /\ Stretch(Paginated(offset), ActiveGuilds)
           /\ offset >= 0 =>
                \A i \in 1..ItemsPerPage :
                    IF offset + i <= TotalItems
                    THEN /\ i <= Len(Paginated(offset))
                         /\ Paginated(offset)[i] = ActiveGuilds[offset + i]
                    ELSE i > Len(Paginated(offset))
  <1>1. ActiveGuilds \in Seq(Row)
      BY ActiveProperties
  <1>2. ItemsPerPage \in Nat \ {0}
      BY ListAssumption
  <1>3. /\ Len(ActiveGuilds) = TotalItems
        /\ Slice(ActiveGuilds, offset, offset + ItemsPerPage) = Paginated(offset)
      BY DEF TotalItems, Paginated
  <1>4. /\ Paginated(offset) \in Seq(Row)
        /\ Len(Paginated(offset)) \in 0..ItemsPerPage
        /\ Stretch(Paginated(offset), ActiveGuilds)
    <2>1. /\ Slice(ActiveGuilds, offset, offset + ItemsPerPage) \in Seq(Row)
          /\ Len(Slice(ActiveGuilds, offset, offset + ItemsPerPage)) \in
               0..ItemsPerPage
          /\ Stretch(Slice(ActiveGuilds, offset, offset + ItemsPerPage),
                     ActiveGuilds)
        BY <1>1, <1>2, SliceProperties, Zenon
    <2> QED
        BY <1>3, <2>1, Zenon
  <1>5. ASSUME offset >= 0, NEW i \in 1..ItemsPerPage
        PROVE  IF offset + i <= TotalItems
               THEN /\ i <= Len(Paginated(offset))
                    /\ Paginated(offset)[i] = ActiveGuilds[offset + i]
               ELSE i > Len(Paginated(offset))
    <2> DEFINE t == Slice(ActiveGuilds, offset, offset + ItemsPerPage)
    <2>1. IF offset + i <= Len(ActiveGuilds)
          THEN i <= Len(t) /\ t[i] = ActiveGuilds[offset + i] ELSE i > Len(t)
        BY <1>1, <1>2, <1>5, SliceProperties, Zenon
    <2> HIDE DEF t
    <2>2. t = Paginated(offset)
        BY <1>3 DEF t
    <2> QED
        BY <1>3, <2>1, <2>2, Zenon
  <1> QED
      BY <1>4, <1>5

-----------------------------------------------------------------------------
\* The list keeps its invariant

\* A sequence of anything whose elements are in S is a sequence of S.
LEMMA SequenceOver ==
    ASSUME NEW S, NEW T, NEW s \in Seq(T), \A i \in 1..Len(s) : s[i] \in S
    PROVE  s \in Seq(S)
  <1>1. Len(s) \in Nat /\ s \in [1..Len(s) -> T]
      OBVIOUS
  <1>2. s \in [1..Len(s) -> S]
      BY <1>1
  <1> QED
      BY <1>1, <1>2, MapIsSequence

\* The rows of one guild.
LEMMA RowsOfType ==
    ASSUME NEW name \in Names, NEW n \in 1..MaxRows
    PROVE  RowsOf(name, n) \in Seq(Row)
  <1>1. MaxRows \in Nat \ {0}
      BY ListAssumption
  <1>2. n \in Nat /\ \A i \in 1..n : i \in 1..MaxRows
      BY <1>1
  <1>3. RowsOf(name, n) \in [1..n -> Row]
      BY <1>2 DEF RowsOf, Row
  <1> QED
      BY <1>2, <1>3, MapIsSequence

\* The rows that the list is mounted with have their type.
LEMMA InitRows ==
    ASSUME ListInit
    PROVE  results \in Seq(Row)
  <1>1. /\ Listed \in Seq(STRING) /\ MaxRows \in Nat \ {0}
        /\ Names = {Listed[i] : i \in DOMAIN Listed}
      BY ListAssumption DEF Names, ToSet
  <1>2. Listed \in Seq(Names)
    <2>1. Len(Listed) \in Nat /\ DOMAIN Listed = 1..Len(Listed)
        BY <1>1
    <2>2. \A i \in 1..Len(Listed) : Listed[i] \in Names
        BY <1>1, <2>1
    <2> QED
        BY <1>1, <2>2, SequenceOver
  <1>3. CASE filterable
    <2>1. PICK S \in (SUBSET Names) \ {{}} :
            LET rows == Filter(Listed, {i \in DOMAIN Listed : Listed[i] \in S})
            IN results = [i \in DOMAIN rows |->
                            [owner_name |-> rows[i], rownum |-> 1]]
        BY <1>3, Zenon DEF ListInit
    <2> DEFINE P == {i \in DOMAIN Listed : Listed[i] \in S}
               rows == Filter(Listed, P)
    <2>2. results = [i \in DOMAIN rows |-> [owner_name |-> rows[i], rownum |-> 1]]
        BY <2>1
    <2>3. rows \in Seq(Names)
      <3>1. P \in SUBSET (DOMAIN Listed)
          OBVIOUS
      <3> HIDE DEF P
      <3> QED
          BY <1>2, <3>1, FilterProperties
    <2> HIDE DEF rows
    <2>4. Len(rows) \in Nat /\ DOMAIN rows = 1..Len(rows)
          /\ \A i \in DOMAIN rows : rows[i] \in Names
        BY <2>3
    <2>5. \A i \in DOMAIN rows : [owner_name |-> rows[i], rownum |-> 1] \in Row
        BY <1>1, <2>4 DEF Row
    <2>6. results \in [1..Len(rows) -> Row]
        BY <2>2, <2>4, <2>5
    <2> QED
        BY <2>4, <2>6, MapIsSequence
  <1>4. CASE ~filterable
      BY <1>4, RowsOfType DEF ListInit
  <1> QED
      BY <1>3, <1>4

\* A list that is mounted is on its first page, without filter and search.
LEMMA ListStarts ==
    ASSUME ListInit
    PROVE  ListInv
  <1>1. results \in Seq(Row)
      BY InitRows
  <1>2. /\ filterable \in BOOLEAN /\ showAll = FALSE
        /\ activePage = 0 /\ itemOffset = 0 /\ moved = FALSE
        /\ paginatedGuilds = Paginated(0)
        /\ activeToggle = "all" /\ searchTerm = Names
        /\ filterableGuilds = ActiveGuilds
        /\ producers \in UNION {[S -> Producer] : S \in SUBSET Names}
      BY Zenon DEF ListInit
  <1>3. /\ DOMAIN producers \subseteq Names
        /\ \A name \in DOMAIN producers : producers[name] \in Producer
    <2>1. PICK S \in SUBSET Names : producers \in [S -> Producer]
        BY <1>2
    <2> QED
        BY <2>1
  <1>4. /\ paginatedGuilds \in Seq(Row)
        /\ Len(paginatedGuilds) <= ItemsPerPage
      BY <1>1, <1>2, PaginatedProperties, ListAssumption
  <1>5. /\ filterableGuilds \in Seq(Row)
        /\ ToSet(filterableGuilds) =
             {row \in ToSet(results) : IsActive(row.owner_name)}
        /\ Follows(filterableGuilds, results)
      BY <1>1, <1>2, ActiveProperties
  <1>6. ListTypeOK
    <2>1. activePage \in Int /\ itemOffset \in Int
        BY <1>2
    <2>2. {filterable, showAll, moved} \subseteq BOOLEAN
        BY <1>2
    <2>3. /\ activeToggle \in {"all", "top21", "standby"}
          /\ searchTerm \in Searches \cup {Names}
        BY <1>2
    <2> QED
        BY <1>1, <1>3, <1>4, <1>5, <2>1, <2>2, <2>3, Zenon DEF ListTypeOK
  <1>7. PagesInv
      BY <1>2, ListAssumption DEF PagesInv
  <1>8. FilterShown
    <2>1. \A row \in ToSet(results) : row.owner_name \in Names
      <3>1. \A i \in DOMAIN results : results[i] \in Row
          BY <1>1
      <3> QED
          BY <3>1 DEF ToSet, Row
    <2> QED
        BY <1>2, <1>5, <2>1 DEF FilterShown, GuildsToDisplay
  <1> QED
      BY <1>6, <1>7, <1>8 DEF ListInv

\* What is computed from the properties stays while they do.
LEMMA PropsStay ==
    ASSUME UNCHANGED props
    PROVE  /\ UNCHANGED <<filterable, results, producers>>
           /\ ActiveGuilds' = ActiveGuilds
           /\ TotalItems' = TotalItems
           /\ \A offset : Paginated(offset)' = Paginated(offset)
  <1>1. UNCHANGED <<filterable, results, producers>>
      BY DEF props
  <1>2. ActiveGuilds' = ActiveGuilds
      BY <1>1 DEF ActiveGuilds, IsActive
  <1>3. TotalItems' = TotalItems
      BY <1>2 DEF TotalItems
  <1>4. \A offset : Paginated(offset)' = Paginated(offset)
      BY <1>2 DEF Paginated
  <1> QED
      BY <1>1, <1>2, <1>3, <1>4

\* A filter keeps what it shows while nothing of it changes.
LEMMA FilterStays ==
    ASSUME FilterShown, UNCHANGED props, UNCHANGED filter
    PROVE  FilterShown'
  BY DEF FilterShown, Follows, GuildsToDisplay, props, filter,
         IsActive, InTop21

\* Page, Previous and Next, wherever they lead (Pagination.tsx:13-65).
LEMMA PageClickKeeps ==
    ASSUME ListInv, NEW index \in Int,
           HandlePageClick(index)
    PROVE  ListInv'
  <1> DEFINE offset == Remainder(index * ItemsPerPage, TotalItems)
  <1>1. /\ ~filterable /\ TotalItems > ItemsPerPage
        /\ activePage' = index /\ itemOffset' = offset
        /\ paginatedGuilds' = Paginated(offset) /\ moved' = FALSE
        /\ UNCHANGED <<props, showAll, filter>>
      BY DEF HandlePageClick
  <1>2. ItemsPerPage \in Nat \ {0}
      BY ListAssumption
  <1>3. results \in Seq(Row) /\ TotalItems \in Nat \ {0}
      BY <1>1, <1>2, ActiveProperties DEF ListInv, ListTypeOK
  <1>4. /\ offset \in Int
        /\ -TotalItems < offset /\ offset < TotalItems
        /\ index = 0 => offset = 0
    <2>1. index * ItemsPerPage \in Int /\ (index = 0 => index * ItemsPerPage = 0)
        BY <1>2
    <2> QED
        BY <1>3, <2>1, RemainderProperties
  <1> HIDE DEF offset
  <1>5. /\ Paginated(offset) \in Seq(Row)
        /\ Len(Paginated(offset)) <= ItemsPerPage
    <2>1. /\ Paginated(offset) \in Seq(Row)
          /\ Len(Paginated(offset)) \in 0..ItemsPerPage
        BY <1>3, <1>4, PaginatedProperties
    <2> QED
        BY <1>2, <2>1
  <1>6. ListTypeOK'
      BY <1>1, <1>4, <1>5
      DEF ListInv, ListTypeOK, props, filter, Row, Names,
          Producer
  <1>7. PagesInv'
    <2>1. /\ UNCHANGED filterable /\ TotalItems' = TotalItems
          /\ Paginated(itemOffset)' = Paginated(offset)
          /\ PagesCount' = PagesCount
        BY <1>1, PropsStay DEF Paginated, PagesCount
    <2>2. ASSUME index \in 0..(PagesCount - 1)
          PROVE  offset = index * ItemsPerPage
      <3>1. index * ItemsPerPage \in Nat /\ index * ItemsPerPage < TotalItems
          BY <1>2, <1>3, <2>2, PageWithin DEF PagesCount
      <3> QED
          BY <1>3, <3>1, RemainderProperties DEF offset
    <2> QED
        BY <1>1, <2>1, <2>2 DEF PagesInv
  <1>8. FilterShown'
      BY <1>1, FilterStays DEF ListInv
  <1> QED
      BY <1>6, <1>7, <1>8 DEF ListInv

\* A search or a toggle, whichever was used before (GuildsCheckResults.tsx:
\* 96-119).
LEMMA FilterKeeps ==
    ASSUME ListInv,
           NEW toggle \in {"all", "top21", "standby"},
           NEW term \in Searches \cup {Names},
           activeToggle' = toggle, searchTerm' = term,
           filterableGuilds' =
               Including(GetGuildsToggle(toggle), term),
           UNCHANGED <<props, pages, showAll>>
    PROVE  ListInv'
  <1>1. /\ UNCHANGED <<filterable, results, producers>>
        /\ UNCHANGED <<activePage, itemOffset, paginatedGuilds, moved, showAll>>
      BY DEF props, pages
  <1>2. /\ filterableGuilds' \in Seq(Row)
        /\ ToSet(filterableGuilds') =
             {row \in ToSet(results) :
                /\ IsActive(row.owner_name)
                /\ toggle = "top21" => InTop21(row)
                /\ toggle = "standby" => ~InTop21(row)
                /\ row.owner_name \in term}
        /\ Follows(filterableGuilds', results)
      BY FilteredProperties DEF ListInv, ListTypeOK
  <1>3. ListTypeOK'
      BY <1>1, <1>2 DEF ListInv, ListTypeOK, Row, Names, Producer
  <1>4. PagesInv'
    <2>1. TotalItems' = TotalItems /\ PagesCount' = PagesCount
        BY PropsStay DEF PagesCount
    <2>2. Paginated(itemOffset)' = Paginated(itemOffset)
        BY <1>1, PropsStay DEF Paginated
    <2> QED
        BY <1>1, <2>1, <2>2 DEF ListInv, PagesInv
  <1>5. FilterShown'
      BY <1>1, <1>2
      DEF FilterShown, Follows, GuildsToDisplay, IsActive, InTop21
  <1> QED
      BY <1>3, <1>4, <1>5 DEF ListInv

\* The results change beneath the list: offset and filter stay, and the page is
\* highlighted if there was one and is one (GuildsCheckResults.tsx:47-55).
LEMMA ResultsChangeKeeps ==
    ASSUME ListInv, NEW name \in Names, NEW n \in 1..MaxRows,
           ResultsChange(name, n)
    PROVE  ListInv'
  <1>1. /\ ~filterable /\ results' = RowsOf(name, n)
        /\ UNCHANGED <<filterable, producers, itemOffset, showAll>>
        /\ UNCHANGED <<activeToggle, searchTerm, filterableGuilds>>
        /\ paginatedGuilds' = Paginated(itemOffset)'
      BY DEF ResultsChange, filter
  <1> DEFINE stays == /\ TotalItems' > ItemsPerPage /\ activePage' = activePage
                      /\ moved' = (moved \/ activePage \notin 0..(PagesCount - 1))
             anew == activePage' = 0 /\ moved' = (itemOffset # 0)
  <1>9. stays \/ anew
      BY Zenon DEF ResultsChange
  <1>2. results' \in Seq(Row)
      BY <1>1, RowsOfType
  <1>3. /\ itemOffset \in Int /\ itemOffset' = itemOffset
        /\ activePage' \in {activePage, 0} /\ activePage \in Int
      BY <1>1, <1>9 DEF ListInv, ListTypeOK
  <1>4. /\ Paginated(itemOffset)' \in Seq(Row)
        /\ Len(Paginated(itemOffset)') <= ItemsPerPage
    <2>1. ActiveGuilds' \in Seq(Row)
      <3> DEFINE P == {i \in DOMAIN results' : IsActive(results[i].owner_name)'}
      <3>1. P \in SUBSET (DOMAIN results') /\ ActiveGuilds' = Filter(results', P)
          BY DEF ActiveGuilds, Filter
      <3> HIDE DEF P
      <3> QED
          BY <1>2, <3>1, FilterProperties
    <2>2. Paginated(itemOffset)' =
             Slice(ActiveGuilds', itemOffset, itemOffset + ItemsPerPage)
        BY <1>3 DEF Paginated, Slice
    <2>3. ItemsPerPage \in Nat \ {0}
        BY ListAssumption
    <2> DEFINE s == ActiveGuilds'
    <2> HIDE DEF s
    <2>4. /\ Slice(s, itemOffset, itemOffset + ItemsPerPage) \in Seq(Row)
          /\ Len(Slice(s, itemOffset, itemOffset + ItemsPerPage)) \in 0..ItemsPerPage
        BY <1>3, <2>1, <2>3, SliceProperties DEF s
    <2> QED
        BY <2>2, <2>3, <2>4 DEF s
  <1>5. ListTypeOK'
    <2>1. moved' \in BOOLEAN
        BY <1>9, Zenon
    <2>2. {filterable', showAll', moved'} \subseteq BOOLEAN
        BY <1>1, <2>1 DEF ListInv, ListTypeOK
    <2>3. activePage' \in Int /\ itemOffset' \in Int
        BY <1>3
    <2> QED
        BY <1>1, <1>2, <1>4, <2>2, <2>3
        DEF ListInv, ListTypeOK, Row, Names, Producer
  <1>6. PagesInv'
    <2>1. activePage' # 0 => ~filterable' /\ TotalItems' > ItemsPerPage
        BY <1>1, <1>9
    <2>2. ~moved' => itemOffset' = activePage' * ItemsPerPage
      <3>1. CASE stays
        <4>1. ~moved' => ~moved /\ activePage \in 0..(PagesCount - 1)
            BY <3>1, Zenon
        <4>2. ~moved /\ activePage \in 0..(PagesCount - 1) =>
                itemOffset = activePage * ItemsPerPage
            BY DEF ListInv, PagesInv
        <4> QED
            BY <1>3, <3>1, <4>1, <4>2, Zenon
      <3>2. CASE anew
        <4>1. ~moved' => itemOffset = 0
            BY <3>2, Zenon
        <4>2. 0 = 0 * ItemsPerPage
            BY ListAssumption
        <4> QED
            BY <1>3, <3>2, <4>1, <4>2, Zenon
      <3> QED
          BY <1>9, <3>1, <3>2
    <2> QED
        BY <1>1, <2>1, <2>2 DEF PagesInv
  <1>7. FilterShown'
      BY <1>1 DEF FilterShown
  <1> QED
      BY <1>5, <1>6, <1>7 DEF ListInv

\* Columns, and steps that concern nothing here.
LEMMA ListStays ==
    ASSUME ListInv, showAll' \in BOOLEAN,
           UNCHANGED <<props, pages, filter>>
    PROVE  ListInv'
  <1>1. /\ UNCHANGED <<filterable, results, producers>>
        /\ UNCHANGED <<activePage, itemOffset, paginatedGuilds, moved>>
        /\ UNCHANGED <<activeToggle, searchTerm, filterableGuilds>>
      BY DEF props, pages, filter
  <1>2. ListTypeOK'
      BY <1>1 DEF ListInv, ListTypeOK, Row, Names, Producer
  <1>3. PagesInv'
    <2>1. TotalItems' = TotalItems /\ PagesCount' = PagesCount
        BY PropsStay DEF PagesCount
    <2>2. Paginated(itemOffset)' = Paginated(itemOffset)
        BY <1>1, PropsStay DEF Paginated
    <2> QED
        BY <1>1, <2>1, <2>2 DEF ListInv, PagesInv
  <1>4. FilterShown'
      BY FilterStays DEF ListInv
  <1> QED
      BY <1>2, <1>3, <1>4 DEF ListInv

\* Every step of the list.
LEMMA ListSteps ==
    ASSUME ListInv, [ListNext]_listVars
    PROVE  ListInv'
  <1>1. /\ activePage \in Int /\ showAll \in BOOLEAN
        /\ activeToggle \in {"all", "top21", "standby"}
        /\ searchTerm \in Searches \cup {Names}
      BY DEF ListInv, ListTypeOK
  <1>2. CASE PageClick
    <2>1. PICK index \in 0..(PagesCount - 1) : HandlePageClick(index)
        BY <1>2 DEF PageClick
    <2> QED
        BY <2>1, PageClickKeeps
  <1>3. CASE Previous \/ NextPage
      BY <1>1, <1>3, PageClickKeeps DEF Previous, NextPage
  <1>4. ASSUME NEW all \in BOOLEAN, OnColumnsSwitch(all)
        PROVE  ListInv'
      BY <1>4, ListStays DEF OnColumnsSwitch
  <1>5. ASSUME NEW toggle \in {"all", "top21", "standby"},
               OnTop21Switch(toggle)
        PROVE  ListInv'
      BY <1>1, <1>5, FilterKeeps DEF OnTop21Switch
  <1>6. ASSUME NEW term \in Searches \cup {Names}, Search(term)
        PROVE  ListInv'
      BY <1>1, <1>6, FilterKeeps DEF Search
  <1>7. CASE UNCHANGED listVars
      BY <1>1, <1>7, ListStays
      DEF listVars, props, pages, filter
  <1>8. CASE \E name \in Names, n \in 1..MaxRows : ResultsChange(name, n)
      BY <1>8, ResultsChangeKeeps
  <1> QED
      BY <1>2, <1>3, <1>4, <1>5, <1>6, <1>7, <1>8 DEF ListNext

\* What holds of every list that has run since it was mounted.
LEMMA ListInvariance == ListSpec => []ListInv
  <1>1. ListInit => ListInv
      BY ListStarts
  <1>2. ListInv /\ [ListNext]_listVars => ListInv'
      BY ListSteps
  <1> QED
      BY <1>1, <1>2, PTL DEF ListSpec

-----------------------------------------------------------------------------
\* What holds of the list

\* Rows, pages and filters have their types, and a page has at most
\* ItemsPerPage cards, also beyond the ends, where a negative offset counts
\* from the end of the list (GuildsCheckResults.tsx:49-63).
THEOREM ListTypeCorrect == ListSpec => []ListTypeOK
  <1>1. ListInv => ListTypeOK
      BY DEF ListInv
  <1> QED
      BY <1>1, ListInvariance, PTL

\* The cards of a highlighted page are the rows of that page.
LEMMA PagesFit ==
    ASSUME ListInv
    PROVE  HighlightedPageShown
  <1> SUFFICES ASSUME ~filterable, ~moved, activePage \in 0..(PagesCount - 1),
                      NEW i \in 1..ItemsPerPage
               PROVE  LET n == activePage * ItemsPerPage + i
                      IN IF n <= TotalItems
                         THEN /\ i <= Len(paginatedGuilds)
                              /\ paginatedGuilds[i] = ActiveGuilds[n]
                         ELSE i > Len(paginatedGuilds)
      BY DEF HighlightedPageShown, GuildsToDisplay
  <1>1. ItemsPerPage \in Nat \ {0}
      BY ListAssumption
  <1>2. results \in Seq(Row) /\ TotalItems \in Nat
      BY ActiveProperties DEF ListInv, ListTypeOK
  <1>3. /\ activePage * ItemsPerPage \in Nat
        /\ activePage * ItemsPerPage < TotalItems
      BY <1>1, <1>2, PageWithin DEF PagesCount
  <1>4. itemOffset = activePage * ItemsPerPage
      BY DEF ListInv, PagesInv
  <1>5. paginatedGuilds = Paginated(itemOffset)
      BY DEF ListInv, PagesInv
  <1> DEFINE offset == activePage * ItemsPerPage
  <1> HIDE DEF offset
  <1>6. offset \in Nat /\ offset < TotalItems
      BY <1>3 DEF offset
  <1>7. /\ offset \in Int /\ offset >= 0
        /\ -TotalItems < offset
      BY <1>2, <1>6
  <1>8. IF offset + i <= TotalItems
        THEN /\ i <= Len(Paginated(offset))
             /\ Paginated(offset)[i] = ActiveGuilds[offset + i]
        ELSE i > Len(Paginated(offset))
      BY <1>2, <1>6, <1>7, PaginatedProperties
  <1> QED
      BY <1>4, <1>5, <1>8 DEF offset

\* The cards of a guild page are successive rows of its results.
LEMMA CardsSuccessive ==
    ASSUME ListInv
    PROVE  CardsOfResults
  <1> SUFFICES ASSUME ~filterable
               PROVE  \E k \in 0..TotalItems :
                          \A i \in DOMAIN paginatedGuilds :
                              /\ k + i <= TotalItems
                              /\ paginatedGuilds[i] = ActiveGuilds[k + i]
      BY DEF CardsOfResults, GuildsToDisplay
  <1>1. /\ results \in Seq(Row) /\ itemOffset \in Int
        /\ paginatedGuilds \in Seq(Row) /\ paginatedGuilds = Paginated(itemOffset)
      BY DEF ListInv, ListTypeOK, PagesInv
  <1>2. DOMAIN paginatedGuilds = 1..Len(paginatedGuilds)
      BY <1>1
  <1>3. Stretch(paginatedGuilds, ActiveGuilds)
      BY <1>1, PaginatedProperties
  <1> QED
      BY <1>2, <1>3 DEF Stretch, TotalItems

\* In whatever order the user pages, toggles, searches, switches columns and
\* goes from guild to guild: the cards are all that pass toggle and search, or,
\* on a guild page, successive rows of its results, and those of the
\* highlighted page unless the history led over a guild whose rows fit on a
\* page and no page was turned to since (GuildsCheckResults.tsx:47-119,
\* Pagination.tsx:13-65).
THEOREM CardsFitTheSelection == ListSpec => []CardsAsSelected
  <1>1. ListInv => CardsAsSelected
      BY PagesFit, CardsSuccessive DEF ListInv, CardsAsSelected
  <1> QED
      BY <1>1, ListInvariance, PTL
=============================================================================
