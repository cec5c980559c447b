--------------------------- MODULE GuildCheckProofs ---------------------------
(***************************************************************************)
(* Theorems about GuildCheck, for every list of services, every behaviour  *)
(* of the nodes and every point system: what ends the run of all guilds,   *)
(* and that a verdict is what the nodes of the guild deserve.              *)
(***************************************************************************)
EXTENDS GuildCheck, FiniteSetTheorems, WellFoundedInduction, TLAPS

-----------------------------------------------------------------------------
\* The inductive invariant

\* The checks that the nodes of the guild decide.
Decided == Api \union Https \union Security \union HyperionChecks
           \union {"full_history", "atomic_api"}

\* A bare TLS connection to the node comes about.
Connects == ~Is("chain-api", {"noSocket"})

\* What check c comes to if it is made now.
Raises(c) ==
    \/ c \in Api /\ ApiRaises(c)
    \/ c \in Https /\ IF c # "https_check" /\ ConnectsAgain
                      THEN SocketRaises(c, Connects) ELSE HttpsRaises
    \/ c = "full_history" /\ HistoryRaises("history-v1")
    \/ c \in HyperionChecks /\ HyperionRaises(HyperionNode(c), Partial(c))

Passes(c) ==
    \/ c \in Api /\ ApiPasses(c)
    \/ c \in Https /\ IF c = "https_check" THEN HttpsPasses
                      ELSE ConnectsAgain /\ SocketPasses(c, Connects)
    \/ c \in Security /\ SecurityPasses
    \/ c = "full_history" /\ HistoryPasses("history-v1")
    \/ c \in HyperionChecks /\ HyperionPasses(HyperionNode(c), Partial(c))
    \/ c = "atomic_api" /\ AtomicPasses

\* Check c has had its turn.
Done(c) == \E i \in 1..(next - 1) : Order[i] = c

\* While nothing changes, each verdict is the one that the check would come to
\* again.
Repeatable ==
    Steady => \A c \in Decided :
                  Done(c) => ~Raises(c) /\ (c \in passed <=> Passes(c))

\* The checks of a silent service, before the score is there, too.
SilentFails ==
    \A s \in Services :
        s \notin Listed \/ (changed = "never" /\ node[s].delay > 20)
            => ChecksOf[s] \intersect passed = {}

\* The second connection goes to a node that took the first one.
Connected == connecting /\ changed # "within" => ConnectsAgain

ScoreOfPassed == phase = "scored" => score = Scored(passed)

IInv == /\ TypeOK /\ OnlyDisorderRaises /\ Repeatable /\ SilentFails
        /\ ScoreOfPassed /\ Connected

-----------------------------------------------------------------------------
\* The checks and their order

\* Every check has one turn, the decided ones among them.
LEMMA Turns ==
    /\ Len(Order) = 19 /\ DOMAIN Order = 1..19
    /\ \A i, j \in 1..19 : Order[i] = Order[j] => i = j
    /\ \A i \in 1..19 : Order[i] \in Checks /\ Order[i] \notin Metadata
    /\ \A c \in Decided : \E i \in 1..19 : Order[i] = c
  <1>1. Len(Order) = 19 /\ DOMAIN Order = 1..19
      BY DEF Order
  <1>2. \A i, j \in 1..19 : Order[i] = Order[j] => i = j
      BY DEF Order
  <1>3. \A i \in 1..19 : Order[i] \in Checks /\ Order[i] \notin Metadata
      BY <1>1 DEF Checks, Metadata, Order
  <1>4. /\ Order[2] = "api_node" /\ Order[3] = "http_check"
        /\ Order[4] = "cors_check" /\ Order[5] = "https_check"
        /\ Order[6] = "tlscheck" /\ Order[7] = "http2_check"
        /\ Order[8] = "producer_apicheck" /\ Order[9] = "net_apicheck"
        /\ Order[10] = "dbsize_apicheck" /\ Order[12] = "full_history"
        /\ Order[13] = "hyperion_v2" /\ Order[14] = "hyperion_v2_full"
        /\ Order[15] = "hyperion_v2_testnet"
        /\ Order[16] = "hyperion_v2_testnet_full" /\ Order[17] = "atomic_api"
      BY DEF Order
  <1>5. \A c \in Decided : \E i \in 1..19 : Order[i] = c
      BY <1>4 DEF Decided, Api, Https, Security, HyperionChecks
  <1> QED
      BY <1>1, <1>2, <1>3, <1>5

\* The checks of a service are decided ones.
LEMMA ServiceChecks ==
    \A s \in Services : ChecksOf[s] \subseteq Decided
  BY DEF ChecksOf, Services, Decided, Api, Https, HyperionChecks

\* A check that raises does so because the guild is not in order
\* (start.py:118-291).
LEMMA RaisesInDisorder ==
    ASSUME NEW c, Raises(c)
    PROVE  ~Orderly
  <1>1. CASE c \in Api /\ ApiRaises(c)
      BY <1>1 DEF ApiRaises, HasUrl, Is, Orderly
  <1>2. CASE c \in Https /\ IF c # "https_check" /\ ConnectsAgain
                              THEN SocketRaises(c, Connects) ELSE HttpsRaises
      BY <1>2 DEF HttpsRaises, ConnectsAgain, SocketRaises, Connects, HasHttps, Is,
                  Orderly
  <1>3. ASSUME NEW s \in {"history-v1", "hyperion-v2"}, HistoryRaises(s)
        PROVE  ~Orderly
      BY <1>3 DEF HistoryRaises, HasUrl, Is, Orderly
  <1>4. CASE c = "full_history" /\ HistoryRaises("history-v1")
      BY <1>3, <1>4
  <1>5. CASE c \in HyperionChecks /\ HyperionRaises(HyperionNode(c), Partial(c))
      BY <1>3, <1>5 DEF HyperionRaises, IndexedRaises, Is, Orderly
  <1> QED
      BY <1>1, <1>2, <1>4, <1>5 DEF Raises

\* A check of a service passes only if the service is listed and its node
\* answers within the longest timeout.
LEMMA PassesIfAnswered ==
    ASSUME TypeOK, NEW s \in Services, NEW c \in ChecksOf[s], Passes(c)
    PROVE  s \in Listed /\ node[s].delay <= 20
  <1>1. \A z \in Listed : node[z].delay \in Nat
      BY GuildAssumption DEF TypeOK
  <1>2. CASE s = "chain-api"
    <2>1. c \in Api \union Https
        BY <1>2 DEF ChecksOf, Services, Api, Https
    <2>2. ApiPasses(c) \/ HttpsPasses \/ ConnectsAgain
        BY <2>1 DEF Passes, Api, Https, Security, HyperionChecks
    <2>3. "chain-api" \in Listed
          /\ (Within("chain-api", 7) \/ Within("chain-api", 20))
        BY <2>2 DEF ApiPasses, HttpsPasses, ConnectsAgain, HttpsAnswered
    <2>4. node["chain-api"].delay <= 7 \/ node["chain-api"].delay <= 20
        BY <2>3 DEF Within
    <2>5. node["chain-api"].delay \in Nat
        BY <1>1, <2>3
    <2> QED
        BY <1>2, <2>3, <2>4, <2>5
  <1>3. CASE s = "history-v1"
    <2>1. c = "full_history"
        BY <1>3 DEF ChecksOf, Services
    <2>2. HistoryPasses("history-v1")
        BY <2>1 DEF Passes, Api, Https, Security, HyperionChecks
    <2> QED
        BY <1>1, <1>3, <2>2 DEF HistoryPasses, Within
  <1>4. CASE s \in Hyperion
    <2>1. c \in HyperionChecks /\ HyperionNode(c) = s
        BY <1>4 DEF ChecksOf, Services, Hyperion, HyperionChecks, HyperionNode
    <2>2. HyperionPasses(s, Partial(c))
        BY <2>1 DEF Passes, Api, Https, Security, HyperionChecks
    <2> QED
        BY <1>1, <2>2 DEF HyperionPasses, ReachesV1, IndexedPasses, Within
  <1>5. CASE s = "atomic-assets-api"
    <2>1. c = "atomic_api"
        BY <1>5 DEF ChecksOf, Services
    <2>2. AtomicPasses
        BY <2>1 DEF Passes, Api, Https, Security, HyperionChecks
    <2> QED
        BY <1>1, <1>5, <2>2 DEF AtomicPasses, Within
  <1> QED
      BY <1>2, <1>3, <1>4, <1>5 DEF Services, Hyperion

\* The quick and the slow delay are delays, and the quick one is less than
\* every timeout.
LEMMA QuickAndSlow ==
    Quick \in Delays /\ Quick <= 7 /\ Max(Delays) \in Delays
  <1>1. Delays \subseteq Nat /\ Delays # {}
      BY GuildAssumption
  <1>2. PICK d \in Delays : \A e \in Delays : ~(<<e, d>> \in OpToRel(<, Nat))
      BY <1>1, NatLessThanWellFounded, WFMin
  <1>3. ASSUME NEW e \in Delays
        PROVE  d <= e
    <2>1. e \in Nat /\ d \in Nat
        BY <1>1
    <2>2. <<e, d>> \in Nat \X Nat
        BY <2>1
    <2>3. ~(<<e, d>>[1] < <<e, d>>[2])
        BY <1>2, <2>2, Zenon DEF OpToRel
    <2> QED
        BY <2>1, <2>3
  <1>4. Quick \in Delays /\ \A e \in Delays : Quick <= e
      BY <1>3 DEF Quick, Min
  <1>5. Quick <= 7
      BY <1>1, <1>4, GuildAssumption
  <1>6. Max(Delays) \in Delays
    <2>1. \E x \in Delays : \A y \in Delays : x >= y
        BY <1>1, GuildAssumption
    <2> QED
        BY <2>1 DEF Max
  <1> QED
      BY <1>4, <1>5, <1>6

-----------------------------------------------------------------------------
\* Sums over functions, which the score is

\* The element that the library's fold takes out of a set.
One(s) == CHOOSE x \in s : TRUE

\* One step of that fold: the value of one element is added to the
\* sum of the others.
OneMore(w, D, f) ==
    [s \in SUBSET D |-> IF s = {} THEN 0
                        ELSE w[One(s)]
                             + f[s \ {One(s)}]]

\* The smallest number of a set of numbers, where there is any.
LEMMA SmallestNumber ==
    ASSUME NEW S, S \subseteq Nat, S # {}
    PROVE  \E m \in S : \A n \in S : m <= n
  <1>1. PICK m \in S : \A n \in S : ~(<<n, m>> \in OpToRel(<, Nat))
      BY NatLessThanWellFounded, WFMin
  <1>2. ASSUME NEW n \in S
        PROVE  m <= n
    <2>1. m \in Nat /\ n \in Nat
        OBVIOUS
    <2>2. <<n, m>> \in Nat \X Nat
        BY <2>1
    <2>3. ~(<<n, m>>[1] < <<n, m>>[2])
        BY <1>1, <2>2, Zenon DEF OpToRel
    <2> QED
        BY <2>1, <2>3
  <1> QED
      BY <1>2

\* What is left when an element is taken is a smaller set.
LEMMA TakeOne ==
    ASSUME NEW D, IsFiniteSet(D), NEW s \in SUBSET D, s # {}
    PROVE  /\ One(s) \in D
           /\ s \ {One(s)} \in SUBSET D
           /\ Cardinality(s) \in Nat /\ Cardinality(s) > 0
           /\ Cardinality(s \ {One(s)}) = Cardinality(s) - 1
  <1> DEFINE x == One(s)
  <1>1. x \in s
      BY DEF One
  <1>2. IsFiniteSet(s)
      BY FS_Subset
  <1>3. Cardinality(s) \in Nat /\ Cardinality(s) # 0
      BY <1>2, FS_CardinalityType, FS_EmptySet
  <1>4. Cardinality(s \ {x}) = Cardinality(s) - 1
      BY <1>1, <1>2, FS_RemoveElement
  <1> QED
      BY <1>1, <1>3, <1>4

\* The recursion of the sum has a solution.
LEMMA SumExists ==
    ASSUME NEW D, IsFiniteSet(D), NEW w \in [D -> Int]
    PROVE  \E f : f = OneMore(w, D, f)
  <1> DEFINE B(f, s) == IF s = {} THEN 0
                        ELSE w[One(s)]
                             + f[s \ {One(s)}]
             UpTo(f, n) == \A s \in SUBSET D :
                             Cardinality(s) <= n => f[s] = B(f, s)
             Bad == {n \in Nat : ~\E f : UpTo(f, n)}
  <1>1. Bad = {}
    <2> SUFFICES ASSUME Bad # {}
                 PROVE  FALSE
        OBVIOUS
    <2>1. PICK m \in Bad : \A n \in Bad : m <= n
        BY SmallestNumber
    <2>2. m \in Nat /\ ~\E f : UpTo(f, m)
        OBVIOUS
    <2>3. CASE m = 0
      <3> DEFINE z == [s \in SUBSET D |-> 0]
      <3>1. ASSUME NEW s \in SUBSET D, Cardinality(s) <= 0
            PROVE  z[s] = B(z, s)
        <4>1. s # {} => Cardinality(s) \in Nat /\ Cardinality(s) > 0
            BY TakeOne, Zenon
        <4>2. s = {}
            BY <3>1, <4>1
        <4> QED
            BY <4>2
      <3>2. UpTo(z, m)
          BY <2>3, <3>1
      <3> QED
          BY <2>2, <3>2
    <2>4. CASE m # 0
      <3>1. m - 1 \in Nat /\ ~(m <= m - 1)
          BY <2>2, <2>4
      <3>2. m - 1 \notin Bad
          BY <2>1, <3>1
      <3>3. \E g : UpTo(g, m - 1)
        <4> HIDE DEF UpTo
        <4> QED
            BY <3>1, <3>2
      <3>4. PICK g : UpTo(g, m - 1)
          BY <3>3
      <3> DEFINE h == [s \in SUBSET D |->
                         IF Cardinality(s) = m THEN B(g, s) ELSE g[s]]
      <3>5. ASSUME NEW s \in SUBSET D, Cardinality(s) <= m
            PROVE  h[s] = B(h, s)
        <4>1. CASE s = {}
          <5>1. Cardinality(s) = 0
              BY <4>1, FS_EmptySet
          <5>2. Cardinality(s) <= m - 1
              BY <3>1, <5>1
          <5>3. g[s] = B(g, s)
              BY <3>4, <5>2
          <5> QED
              BY <2>4, <4>1, <5>1, <5>3
        <4>2. CASE s # {}
          <5> DEFINE x == One(s)
          <5>1. /\ s \ {x} \in SUBSET D /\ Cardinality(s) \in Nat
                /\ Cardinality(s) > 0
                /\ Cardinality(s \ {x}) = Cardinality(s) - 1
              BY <4>2, TakeOne
          <5>2. h[s \ {x}] = g[s \ {x}]
              BY <2>2, <3>5, <5>1
          <5>3. h[s] = w[x] + g[s \ {x}]
            <6>1. CASE Cardinality(s) = m
                BY <4>2, <6>1
            <6>2. CASE Cardinality(s) # m
              <7>1. Cardinality(s) <= m - 1
                  BY <2>2, <3>5, <5>1, <6>2
              <7>2. g[s] = B(g, s)
                  BY <3>4, <7>1
              <7> QED
                  BY <4>2, <6>2, <7>2
            <6> QED
                BY <6>1, <6>2
          <5> QED
              BY <4>2, <5>2, <5>3
        <4> QED
            BY <4>1, <4>2
      <3>6. UpTo(h, m)
          BY <3>5
      <3> QED
          BY <2>2, <3>6
    <2> QED
        BY <2>3, <2>4
  <1>2. Cardinality(D) \in Nat
      BY FS_CardinalityType
  <1>3. \E f : UpTo(f, Cardinality(D))
    <2> HIDE DEF UpTo
    <2> QED
        BY <1>1, <1>2
  <1>4. PICK f : UpTo(f, Cardinality(D))
      BY <1>3
  <1>5. ASSUME NEW s \in SUBSET D
        PROVE  f[s] = B(f, s)
    <2>1. Cardinality(s) <= Cardinality(D)
        BY FS_Subset
    <2> QED
        BY <1>4, <2>1
  <1> DEFINE r == [s \in SUBSET D |-> f[s]]
  <1>6. ASSUME NEW s \in SUBSET D
        PROVE  B(f, s) = B(r, s)
    <2>1. CASE s # {}
      <3>1. s \ {One(s)} \in SUBSET D
          OBVIOUS
      <3> QED
          BY <3>1
    <2> QED
        BY <2>1
  <1>7. r = OneMore(w, D, r)
    <2>1. OneMore(w, D, r) = [s \in SUBSET D |-> B(r, s)]
        BY DEF OneMore
    <2>2. \A s \in SUBSET D : f[s] = B(r, s)
        BY <1>5, <1>6
    <2> HIDE DEF B
    <2> QED
        BY <2>1, <2>2
  <1> QED
      BY <1>7

\* SumFunction as the solution of its recursion.
SumOn(w, D) == CHOOSE f : f = OneMore(w, D, f)

LEMMA SumIsFold ==
    ASSUME NEW D, IsFiniteSet(D), NEW w \in [D -> Int]
    PROVE  /\ SumFunction(w) = SumOn(w, D)[D]
           /\ SumOn(w, D)[{}] = 0
           /\ \A s \in SUBSET D : s # {} =>
                SumOn(w, D)[s] = w[One(s)]
                                 + SumOn(w, D)[s \ {One(s)}]
  <1>1. SumFunction(w) = SumOn(w, D)[D]
      BY DEF SumFunction, SumFunctionOnSet, FoldFunctionOnSet, MapThenFoldSet,
             SumOn, OneMore, One
  <1>2. SumOn(w, D) = OneMore(w, D, SumOn(w, D))
      BY SumExists DEF SumOn
  <1> DEFINE f == SumOn(w, D)
  <1>3. f = OneMore(w, D, f)
      BY <1>2
  <1> HIDE DEF f
  <1>4. f = [s \in SUBSET D |-> IF s = {} THEN 0
                        ELSE w[One(s)]
                             + f[s \ {One(s)}]]
      BY <1>3 DEF OneMore
  <1>5. \A s \in SUBSET D : f[s] = IF s = {} THEN 0
                        ELSE w[One(s)]
                             + f[s \ {One(s)}]
      BY <1>4
  <1>6. f[{}] = 0
      BY <1>5
  <1> QED
      BY <1>1, <1>5, <1>6 DEF f

\* A sum of integers is an integer.
LEMMA SumType ==
    ASSUME NEW D, IsFiniteSet(D), NEW w \in [D -> Int]
    PROVE  SumFunction(w) \in Int
  <1> DEFINE f == SumOn(w, D)
             Bad == {n \in Nat : \E s \in SUBSET D :
                                   Cardinality(s) = n /\ f[s] \notin Int}
  <1> HIDE DEF f
  <1>1. Bad = {}
    <2> SUFFICES ASSUME Bad # {}
                 PROVE  FALSE
        OBVIOUS
    <2>1. PICK m \in Bad : \A n \in Bad : m <= n
        BY SmallestNumber
    <2>2. PICK s \in SUBSET D : Cardinality(s) = m /\ f[s] \notin Int
        BY <2>1
    <2>3. f[{}] = 0
        BY SumIsFold, Zenon DEF f
    <2>4. s # {}
        BY <2>2, <2>3
    <2> DEFINE x == One(s)
    <2>5. /\ x \in D /\ s \ {x} \in SUBSET D
          /\ m \in Nat /\ m > 0 /\ Cardinality(s \ {x}) = m - 1
        BY <2>2, <2>4, TakeOne
    <2>6. f[s] = w[x] + f[s \ {x}]
        BY <2>4, SumIsFold DEF f
    <2>7. m - 1 \notin Bad
        BY <2>1, <2>5
    <2>8. f[s \ {x}] \in Int
        BY <2>5, <2>7
    <2>9. w[x] \in Int
        BY <2>5
    <2> QED
        BY <2>2, <2>6, <2>8, <2>9
  <1>2. Cardinality(D) \in Nat
      BY FS_CardinalityType
  <1>3. f[D] \in Int
      BY <1>1, <1>2
  <1> QED
      BY <1>3, SumIsFold DEF f

\* Where no value is greater, the sum is not.
LEMMA SumMonotone ==
    ASSUME NEW D, IsFiniteSet(D),
           NEW u \in [D -> Int], NEW v \in [D -> Int],
           \A x \in D : u[x] <= v[x]
    PROVE  SumFunction(u) <= SumFunction(v)
  <1> DEFINE f == SumOn(u, D)
             g == SumOn(v, D)
             Bad == {n \in Nat : \E s \in SUBSET D :
                       /\ Cardinality(s) = n
                       /\ ~(f[s] \in Int /\ g[s] \in Int /\ f[s] <= g[s])}
  <1> HIDE DEF f, g
  <1>1. Bad = {}
    <2> SUFFICES ASSUME Bad # {}
                 PROVE  FALSE
        OBVIOUS
    <2>1. PICK m \in Bad : \A n \in Bad : m <= n
        BY SmallestNumber
    <2>2. PICK s \in SUBSET D :
            /\ Cardinality(s) = m
            /\ ~(f[s] \in Int /\ g[s] \in Int /\ f[s] <= g[s])
        BY <2>1
    <2>3. f[{}] = 0 /\ g[{}] = 0
      <3>1. f[{}] = 0
          BY SumIsFold, Zenon DEF f
      <3>2. g[{}] = 0
          BY SumIsFold, Zenon DEF g
      <3> QED
          BY <3>1, <3>2
    <2>4. ASSUME s = {}
          PROVE  FALSE
      <3>1. f[s] = 0 /\ g[s] = 0
          BY <2>3, <2>4
      <3>2. f[s] \in Int /\ g[s] \in Int /\ f[s] <= g[s]
          BY <3>1
      <3> QED
          BY <2>2, <3>2
    <2> DEFINE x == One(s)
    <2>5. /\ x \in D /\ s \ {x} \in SUBSET D
          /\ m \in Nat /\ m > 0 /\ Cardinality(s \ {x}) = m - 1
        BY <2>2, <2>4, TakeOne
    <2>6. f[s] = u[x] + f[s \ {x}]
      <3>1. \A z \in SUBSET D : z # {} =>
               f[z] = u[One(z)] + f[z \ {One(z)}]
          BY SumIsFold, Zenon DEF f
      <3> QED
          BY <2>4, <3>1
    <2>7. g[s] = v[x] + g[s \ {x}]
      <3>1. \A z \in SUBSET D : z # {} =>
               g[z] = v[One(z)] + g[z \ {One(z)}]
          BY SumIsFold, Zenon DEF g
      <3> QED
          BY <2>4, <3>1
    <2>8. m - 1 \notin Bad
        BY <2>1, <2>5
    <2>9. /\ f[s \ {x}] \in Int /\ g[s \ {x}] \in Int
          /\ f[s \ {x}] <= g[s \ {x}]
        BY <2>5, <2>8
    <2>10. u[x] \in Int /\ v[x] \in Int /\ u[x] <= v[x]
        BY <2>5
    <2> QED
        BY <2>2, <2>6, <2>7, <2>9, <2>10
  <1>2. Cardinality(D) \in Nat
      BY FS_CardinalityType
  <1>3. f[D] <= g[D]
      BY <1>1, <1>2
  <1> QED
      BY <1>3, SumIsFold DEF f, g

\* What a name of the point system adds is an integer.
LEMMA WorthType ==
    ASSUME NEW ps
    PROVE  Worth(ps) \in [DOMAIN Points -> Int]
  <1>1. Availability \in Int
        /\ \A c \in DOMAIN Points : Points[c] \in Nat /\ Deduction[c] \in Nat
      BY GuildAssumption
  <1>2. ASSUME NEW c \in DOMAIN Points
        PROVE  Worth(ps)[c] \in Int
    <2>1. Points[c] \in Int /\ -Deduction[c] \in Int
        BY <1>1
    <2>2. CASE c = "rounds_availability"
        BY <1>1, <2>2 DEF Worth
    <2>3. CASE c # "rounds_availability" /\ c \in ps
        BY <2>1, <2>3 DEF Worth
    <2>4. CASE c # "rounds_availability" /\ c \in Checks \ ps
        BY <2>1, <2>4 DEF Worth
    <2>5. CASE c \notin Checks \union ps \union {"rounds_availability"}
        BY <2>5 DEF Worth
    <2> QED
        BY <2>2, <2>3, <2>4, <2>5
  <1> QED
      BY <1>2 DEF Worth

\* A score is an integer, and more checks passed are not less of it (score.py).
LEMMA ScoreFacts ==
    ASSUME NEW ps, ps \subseteq Checks
    PROVE  /\ Scored(ps) \in Int
           /\ \A qs : ps \subseteq qs /\ qs \subseteq Checks => Scored(ps) <= Scored(qs)
  <1> DEFINE D == DOMAIN Points
  <1>1. /\ IsFiniteSet(D)
        /\ \A c \in D : Points[c] \in Nat /\ Deduction[c] \in Nat
      BY GuildAssumption
  <1>2. \A qs : Worth(qs) \in [D -> Int]
      BY WorthType
  <1>3. ASSUME NEW qs, ps \subseteq qs, qs \subseteq Checks, NEW c \in D
        PROVE  Worth(ps)[c] <= Worth(qs)[c]
    <2>1. Points[c] \in Nat /\ Deduction[c] \in Nat
        BY <1>1
    <2>2. CASE c = "rounds_availability"
        BY <2>2, GuildAssumption DEF Worth
    <2>3. CASE c # "rounds_availability" /\ c \in ps
      <3>1. Worth(ps)[c] = Points[c] /\ Worth(qs)[c] = Points[c]
          BY <1>3, <2>3 DEF Worth
      <3> QED
          BY <2>1, <3>1
    <2>4. CASE c # "rounds_availability" /\ c \in Checks \ ps
      <3>1. /\ Worth(ps)[c] = -Deduction[c]
            /\ Worth(qs)[c] = Points[c] \/ Worth(qs)[c] = -Deduction[c]
          BY <1>3, <2>4 DEF Worth
      <3> QED
          BY <2>1, <3>1
    <2>5. CASE c \notin Checks \union {"rounds_availability"}
      <3>1. Worth(ps)[c] = 0 /\ Worth(qs)[c] = 0
          BY <1>3, <2>5 DEF Worth
      <3> QED
          BY <3>1
    <2> QED
        BY <2>2, <2>3, <2>4, <2>5
  <1> HIDE DEF D
  <1>4. SumFunction(Worth(ps)) \in Int
      BY <1>1, <1>2, SumType
  <1>5. ASSUME NEW qs, ps \subseteq qs, qs \subseteq Checks
        PROVE  SumFunction(Worth(ps)) <= SumFunction(Worth(qs))
    <2>1. \A c \in D : Worth(ps)[c] <= Worth(qs)[c]
        BY <1>3, <1>5
    <2>2. Worth(ps) \in [D -> Int] /\ Worth(qs) \in [D -> Int]
        BY <1>2
    <2> HIDE DEF Worth
    <2> QED
        BY <1>1, <2>1, <2>2, SumMonotone
  <1> QED
      BY <1>4, <1>5 DEF Scored

-----------------------------------------------------------------------------
\* The steps

\* Check c is made: it raises or not, passes or not. What it raises, the guild
\* or an outage is to blame for; what it passes, the node has answered; and
\* while nothing changes it comes to what it would come to now.
Made(c, R, P) ==
    /\ Verdict(c, R, P)
    /\ connecting' = FALSE
    /\ outage' = outage \/ outage' = TRUE
    /\ R => ~Orderly \/ outage' \/ changed = "within"
    /\ \A s \in Services : c \in ChecksOf[s] /\ P =>
          s \in Listed /\ (changed = "never" => node[s].delay <= 20)
    /\ changed = "never" /\ ~outage' /\ c \in Decided =>
          (R <=> Raises(c)) /\ (P <=> Passes(c))

\* A check that is one step and comes to what the nodes decide.
LEMMA DecidedMade ==
    ASSUME TypeOK, NEW c \in Decided, NEW R \in BOOLEAN, NEW P \in BOOLEAN,
           Step(c, R, P), R <=> Raises(c), P <=> Passes(c)
    PROVE  Made(c, R, P)
  <1>1. Verdict(c, R, P) /\ connecting' = FALSE /\ outage' = outage
      BY DEF Step, TypeOK
  <1>2. R => ~Orderly
      BY RaisesInDisorder
  <1>3. ASSUME NEW s \in Services, c \in ChecksOf[s], P
        PROVE  s \in Listed /\ node[s].delay <= 20
      BY <1>3, PassesIfAnswered
  <1> QED
      BY <1>1, <1>2, <1>3 DEF Made

\* A check that the nodes do not decide, and no service's own.
LEMMA OtherMade ==
    ASSUME NEW c, c \notin Decided, NEW R \in BOOLEAN, NEW P \in BOOLEAN,
           Verdict(c, R, P), connecting' = FALSE, outage' = outage \/ outage' = TRUE,
           R => ~Orderly \/ outage'
    PROVE  Made(c, R, P)
  BY ServiceChecks DEF Made

\* The checks that the nodes decide, but for the second connection.
LEMMA DecidedSteps ==
    ASSUME TypeOK,
           \/ CheckApi \/ CheckHttps \/ ApiSecurity \/ CheckHistory
           \/ CheckHyperion \/ CheckAtomicAssets
    PROVE  \E c \in Decided, R, P \in BOOLEAN : Made(c, R, P)
  <1> USE DEF Decided, Api, Https, Security, HyperionChecks
  <1>1. CASE CheckApi
    <2>1. PICK c \in Api : Step(c, ApiRaises(c), ApiPasses(c))
        BY <1>1 DEF CheckApi
    <2>2. /\ (ApiRaises(c) <=> Raises(c)) /\ (ApiPasses(c) <=> Passes(c))
          /\ ApiRaises(c) \in BOOLEAN /\ ApiPasses(c) \in BOOLEAN
        BY DEF Raises, Passes, ApiRaises, ApiPasses
    <2> QED
        BY <2>1, <2>2, DecidedMade
  <1>2. CASE CheckHttps
    <2> DEFINE c == "https_check"
    <2>1. Step(c, HttpsRaises, HttpsPasses)
        BY <1>2 DEF CheckHttps
    <2>2. /\ (HttpsRaises <=> Raises(c)) /\ (HttpsPasses <=> Passes(c))
          /\ HttpsRaises \in BOOLEAN /\ HttpsPasses \in BOOLEAN
        BY DEF Raises, Passes, HttpsRaises, HttpsPasses
    <2> QED
        BY <2>1, <2>2, DecidedMade
  <1>3. CASE ApiSecurity
    <2>1. PICK c \in Security : Step(c, FALSE, SecurityPasses)
        BY <1>3 DEF ApiSecurity
    <2>2. /\ (FALSE <=> Raises(c)) /\ (SecurityPasses <=> Passes(c))
          /\ SecurityPasses \in BOOLEAN
        BY DEF Raises, Passes, SecurityPasses
    <2> QED
        BY <2>1, <2>2, DecidedMade
  <1>4. CASE CheckHistory
    <2> DEFINE c == "full_history"
    <2>1. Step(c, HistoryRaises("history-v1"), HistoryPasses("history-v1"))
        BY <1>4 DEF CheckHistory
    <2>2. /\ HistoryRaises("history-v1") <=> Raises(c)
          /\ HistoryPasses("history-v1") <=> Passes(c)
          /\ HistoryRaises("history-v1") \in BOOLEAN
          /\ HistoryPasses("history-v1") \in BOOLEAN
        BY DEF Raises, Passes, HistoryRaises, HistoryPasses
    <2> QED
        BY <2>1, <2>2, DecidedMade
  <1>5. CASE CheckHyperion
    <2>1. PICK c \in HyperionChecks :
            Step(c, HyperionRaises(HyperionNode(c), Partial(c)),
                    HyperionPasses(HyperionNode(c), Partial(c)))
        BY <1>5 DEF CheckHyperion
    <2>2. /\ HyperionRaises(HyperionNode(c), Partial(c)) <=> Raises(c)
          /\ HyperionPasses(HyperionNode(c), Partial(c)) <=> Passes(c)
          /\ HyperionRaises(HyperionNode(c), Partial(c)) \in BOOLEAN
          /\ HyperionPasses(HyperionNode(c), Partial(c)) \in BOOLEAN
        BY DEF Raises, Passes, HyperionRaises, HyperionPasses
    <2> QED
        BY <2>1, <2>2, DecidedMade
  <1>6. CASE CheckAtomicAssets
    <2> DEFINE c == "atomic_api"
    <2>1. Step(c, FALSE, AtomicPasses)
        BY <1>6 DEF CheckAtomicAssets
    <2>2. /\ (FALSE <=> Raises(c)) /\ (AtomicPasses <=> Passes(c))
          /\ AtomicPasses \in BOOLEAN
        BY DEF Raises, Passes, AtomicPasses
    <2> QED
        BY <2>1, <2>2, DecidedMade
  <1> QED
      BY <1>1, <1>2, <1>3, <1>4, <1>5, <1>6

\* The first connection of check_tls and check_http2 is the only one.
LEMMA AskedOnce ==
    ASSUME TypeOK, NEW c \in Https \ {"https_check"}, ~ConnectsAgain,
           Step(c, HttpsRaises, FALSE)
    PROVE  \E d, R, P : R \in BOOLEAN /\ P \in BOOLEAN /\ Made(d, R, P)
  <1>1. /\ (HttpsRaises <=> Raises(c)) /\ (FALSE <=> Passes(c))
        /\ HttpsRaises \in BOOLEAN /\ c \in Decided
      BY DEF Raises, Passes, HttpsRaises, Decided, Api, Https, Security,
             HyperionChecks
  <1>2. Made(c, HttpsRaises, FALSE)
      BY <1>1, DecidedMade
  <1> QED
      BY <1>1, <1>2

\* The second connection.
LEMMA ConnectMade ==
    ASSUME TypeOK, Connected, ConnectSocket
    PROVE  \E c, R, P : R \in BOOLEAN /\ P \in BOOLEAN /\ Made(c, R, P)
  <1>1. PICK c \in Https \ {"https_check"}, connects \in BOOLEAN :
          /\ connecting
          /\ connects => ~Is("chain-api", {"noSocket"})
          /\ ~connects => Is("chain-api", {"noSocket"}) \/ changed = "within"
          /\ Verdict(c, SocketRaises(c, connects), SocketPasses(c, connects))
          /\ connecting' = FALSE
          /\ UNCHANGED outage
      BY DEF ConnectSocket
  <1> DEFINE R == SocketRaises(c, connects)
             P == SocketPasses(c, connects)
  <1>2. R \in BOOLEAN /\ P \in BOOLEAN
      BY DEF SocketRaises, SocketPasses
  <1>3. "chain-api" \in Listed
      BY <1>1 DEF TypeOK
  <1>4. R => ~Orderly \/ changed = "within"
      BY <1>1, <1>3 DEF SocketRaises, Orderly, Is
  <1>5. changed = "never" => ConnectsAgain
      BY <1>1 DEF Connected
  <1>6. ASSUME NEW s \in Services, c \in ChecksOf[s]
        PROVE  s = "chain-api"
      BY <1>1, <1>6 DEF ChecksOf, Services, Https
  <1>7. changed = "never" => node["chain-api"].delay <= 20
      BY <1>5 DEF ConnectsAgain, HttpsAnswered, Within
  <1>8. changed = "never" => (R <=> Raises(c)) /\ (P <=> Passes(c))
    <2> SUFFICES ASSUME changed = "never"
                 PROVE  (R <=> Raises(c)) /\ (P <=> Passes(c))
        OBVIOUS
    <2>1. connects <=> Connects
        BY <1>1 DEF Connects
    <2>2. /\ c \in Https /\ c # "https_check" /\ c \notin Api \union Security
          /\ c \notin HyperionChecks \union {"full_history", "atomic_api"}
        BY DEF Https, Api, Security, HyperionChecks
    <2>3. /\ Raises(c) <=> SocketRaises(c, Connects)
          /\ Passes(c) <=> SocketPasses(c, Connects)
        BY <1>5, <2>2 DEF Raises, Passes
    <2> QED
        BY <2>1, <2>3 DEF SocketRaises, SocketPasses
  <1>9. Made(c, R, P)
    <2> HIDE DEF R, P
    <2>1. Verdict(c, R, P) /\ connecting' = FALSE /\ outage' = outage
        BY <1>1 DEF R, P
    <2> QED
        BY <1>3, <1>4, <1>6, <1>7, <1>8, <2>1 DEF Made
  <1> QED
      BY <1>2, <1>9

\* The checks that no node of a service decides.
LEMMA OtherSteps ==
    ASSUME TypeOK,
           CheckNetwork \/ CheckCpu \/ CheckSeedNode \/ HeadBlockUnknown
    PROVE  \E c, R, P : R \in BOOLEAN /\ P \in BOOLEAN /\ Made(c, R, P)
  <1>1. \A c \in {"oracle_feed", "wwwjson", "cpu_time", "seed_node"} : c \notin Decided
      BY DEF Decided, Api, Https, Security, HyperionChecks
  <1>2. ASSUME NEW c \in {"oracle_feed", "wwwjson", "cpu_time", "seed_node"},
               NEW R \in BOOLEAN, NEW P \in BOOLEAN, Step(c, R, P), R => ~Orderly
        PROVE  \E d, Q, V : Q \in BOOLEAN /\ V \in BOOLEAN /\ Made(d, Q, V)
    <2>1. Verdict(c, R, P) /\ connecting' = FALSE /\ outage' = outage
        BY <1>2 DEF Step, TypeOK
    <2>2. Made(c, R, P)
        BY <1>1, <1>2, <2>1, OtherMade
    <2> QED
        BY <2>2
  <1>3. CASE CheckNetwork
    <2>1. PICK ok \in BOOLEAN : \/ Step("oracle_feed", FALSE, ok)
                              \/ Step("wwwjson", FALSE, ok /\ known)
        BY <1>3 DEF CheckNetwork
    <2>2. CASE Step("oracle_feed", FALSE, ok)
        BY <1>2, <2>2
    <2>3. CASE Step("wwwjson", FALSE, ok /\ known)
      <3>1. (ok /\ known) \in BOOLEAN
          OBVIOUS
      <3> QED
          BY <1>2, <2>3, <3>1
    <2> QED
        BY <2>1, <2>2, <2>3
  <1>4. CASE CheckCpu
    <2>1. PICK ok \in BOOLEAN : Step("cpu_time", ~known, ok)
        BY <1>4 DEF CheckCpu
    <2>2. (~known) \in BOOLEAN /\ (~known => ~Orderly)
        BY DEF Orderly
    <2> QED
        BY <1>2, <2>1, <2>2
  <1>5. CASE CheckSeedNode
    <2>1. (endpoint = "malformed") \in BOOLEAN
          /\ (endpoint = "malformed" => ~Orderly)
        BY DEF Orderly
    <2>2. CASE Step("seed_node", endpoint = "malformed", FALSE)
        BY <1>2, <2>1, <2>2
    <2>3. CASE Step("seed_node", FALSE, TRUE)
        BY <1>2, <2>3
    <2> QED
        BY <1>5, <2>2, <2>3 DEF CheckSeedNode
  <1>6. CASE HeadBlockUnknown
    <2>1. PICK raises \in BOOLEAN : Verdict("seed_node", raises, FALSE)
        BY <1>6 DEF HeadBlockUnknown
    <2>2. connecting' = FALSE /\ outage' = TRUE
        BY <1>6 DEF HeadBlockUnknown, TypeOK
    <2>3. Made("seed_node", raises, FALSE)
        BY <1>1, <2>1, <2>2, OtherMade
    <2> QED
        BY <2>3
  <1> QED
      BY <1>3, <1>4, <1>5, <1>6

\* A check whose query the database fails.
LEMMA DatabaseMade ==
    ASSUME TypeOK, DatabaseFails
    PROVE  \E c, R, P : R \in BOOLEAN /\ P \in BOOLEAN /\ Made(c, R, P)
  <1>1. PICK c : Unreachable(c) \/ QueryFails(c) \/ SecondQueryFails(c)
      BY DEF DatabaseFails
  <1>2. connecting' = FALSE /\ outage' = TRUE
      BY DEF DatabaseFails, TypeOK
  <1>3. ASSUME NEW R \in BOOLEAN, NEW P \in BOOLEAN, Verdict(c, R, P),
               \A s \in Services : c \in ChecksOf[s] /\ P =>
                   s \in Listed /\ node[s].delay <= 20
        PROVE  Made(c, R, P)
      BY <1>2, <1>3 DEF Made
  <1>4. CASE Unreachable(c)
    <2> DEFINE R == c \in Api \union Https \union Security
                          \union {"cpu_time", "seed_node"}
    <2>1. Verdict(c, R, FALSE)
        BY <1>4, Zenon DEF Unreachable
    <2>2. R \in BOOLEAN
        OBVIOUS
    <2> HIDE DEF R
    <2>3. Made(c, R, FALSE)
        BY <1>3, <2>1, <2>2
    <2> QED
        BY <2>2, <2>3
  <1>5. CASE QueryFails(c)
    <2> DEFINE R == c = "cpu_time"
               P == c \in Security
    <2>1. R \in BOOLEAN /\ P \in BOOLEAN /\ Verdict(c, R, P)
        BY <1>5 DEF QueryFails
    <2>2. \A s \in Services : c \in ChecksOf[s] => ~P
        BY DEF ChecksOf, Services, Security, Api, Https
    <2> HIDE DEF R, P
    <2>3. Made(c, R, P)
        BY <1>3, <2>1, <2>2
    <2> QED
        BY <2>1, <2>3
  <1>6. CASE SecondQueryFails(c)
    <2> DEFINE n == HyperionNode(c)
               P == HyperionPasses(n, Partial(c))
    <2>1. c \in HyperionChecks /\ Verdict(c, FALSE, P)
        BY <1>6 DEF SecondQueryFails
    <2>2. P \in BOOLEAN
        BY DEF HyperionPasses
    <2>3. ASSUME NEW s \in Services, c \in ChecksOf[s], P
          PROVE  s \in Listed /\ node[s].delay <= 20
      <3>1. Passes(c)
          BY <2>1, <2>3 DEF Passes
      <3> QED
          BY <2>3, <3>1, PassesIfAnswered
    <2> HIDE DEF P
    <2>4. Made(c, FALSE, P)
        BY <1>3, <2>1, <2>2, <2>3
    <2> QED
        BY <2>2, <2>4
  <1> QED
      BY <1>1, <1>4, <1>5, <1>6

\* check_tls and check_http2 have the answer to their GET.
Asks ==
    /\ ConnectsAgain /\ ~connecting
    /\ phase = "checks" /\ next \in DOMAIN Order
    /\ Order[next] \in Https \ {"https_check"}
    /\ connecting' = TRUE
    /\ UNCHANGED <<guild, outage, next, passed, score, phase>>

\* As long as the nodes behave in the same way, a check comes to the same.
LEMMA SameNodes ==
    ASSUME UNCHANGED guild
    PROVE  /\ \A c : (Raises(c)' <=> Raises(c)) /\ (Passes(c)' <=> Passes(c))
           /\ (Orderly' <=> Orderly) /\ (ConnectsAgain' <=> ConnectsAgain)
           /\ Listed' = Listed
  <1> USE DEF guild
  <1>1. \A s, x : /\ HasUrl(s)' <=> HasUrl(s)
                  /\ HasHttps(s)' <=> HasHttps(s)
                  /\ Within(s, x)' <=> Within(s, x)
                  /\ Is(s, x)' <=> Is(s, x)
      BY DEF HasUrl, HasHttps, Within, Is
  <1>2. \A c : ApiRaises(c)' <=> ApiRaises(c)
      BY <1>1 DEF ApiRaises, Listed
  <1>3. \A c : ApiPasses(c)' <=> ApiPasses(c)
      BY <1>1 DEF ApiPasses, Listed
  <1>4. HttpsAnswered' <=> HttpsAnswered
      BY <1>1 DEF HttpsAnswered
  <1>5. /\ HttpsRaises' <=> HttpsRaises
        /\ ConnectsAgain' <=> ConnectsAgain
        /\ HttpsPasses' <=> HttpsPasses
        /\ Connects' <=> Connects
      BY <1>1, <1>4 DEF HttpsRaises, HttpsPasses, ConnectsAgain, Connects, Listed
  <1>6. row' = row /\ \A x : Is("chain-api", x)' <=> Is("chain-api", x)
      BY <1>1
  <1>7. SecurityPasses' <=> SecurityPasses
      BY <1>1 DEF SecurityPasses, Listed
  <1>8. \A s : /\ HistoryRaises(s)' <=> HistoryRaises(s)
               /\ HistoryPasses(s)' <=> HistoryPasses(s)
      BY <1>1 DEF HistoryRaises, HistoryPasses, Listed
  <1>9. \A s : /\ IndexedRaises(s)' <=> IndexedRaises(s)
               /\ IndexedPasses(s)' <=> IndexedPasses(s)
      BY <1>1 DEF IndexedRaises, IndexedPasses
  <1>10. \A s : \A p : ReachesV1(s, p)' <=> ReachesV1(s, p)
      BY <1>1, <1>9 DEF ReachesV1
  <1>11. \A s : \A p : HyperionRaises(s, p)' <=> HyperionRaises(s, p)
      BY <1>8, <1>9, <1>10 DEF HyperionRaises, Listed
  <1>12. \A s : \A p : HyperionPasses(s, p)' <=> HyperionPasses(s, p)
      BY <1>1, <1>10 DEF HyperionPasses, Listed
  <1>13. AtomicPasses' <=> AtomicPasses
      BY <1>1 DEF AtomicPasses, Listed
  <1>14. ASSUME NEW c
         PROVE  Raises(c)' <=> Raises(c)
    <2>1. CASE c # "https_check" /\ ConnectsAgain
        BY <1>2, <1>5, <1>6, <1>8, <1>11, <2>1, Zenon DEF Raises, SocketRaises
    <2>2. CASE ~(c # "https_check" /\ ConnectsAgain)
        BY <1>2, <1>5, <1>8, <1>11, <2>2, Zenon DEF Raises
    <2> QED
        BY <2>1, <2>2
  <1>15. ASSUME NEW c
         PROVE  Passes(c)' <=> Passes(c)
    <2>1. CASE c = "https_check"
        BY <1>3, <1>5, <1>7, <1>8, <1>12, <1>13, <2>1, Zenon DEF Passes
    <2>2. CASE c # "https_check"
        BY <1>3, <1>5, <1>6, <1>7, <1>8, <1>12, <1>13, <2>2, Zenon
        DEF Passes, SocketPasses
    <2> QED
        BY <2>1, <2>2
  <1>16. Orderly' <=> Orderly
      BY <1>1 DEF Orderly, Listed
  <1> QED
      BY <1>5, <1>14, <1>15, <1>16 DEF Listed

\* The check that is due has not had its turn before.
LEMMA DueCheck ==
    ASSUME TypeOK, next \in DOMAIN Order
    PROVE  /\ Order[next] \notin passed /\ ~Done(Order[next])
           /\ next' = next + 1 =>
                \A d : Done(d)' <=> (Done(d) \/ d = Order[next])
           /\ passed \subseteq Checks
  <1>1. next \in 1..19 /\ next \in Nat
      BY Turns
  <1>2. \A i \in 1..(next - 1) : i \in 1..19 /\ i # next
      BY <1>1
  <1>3. \A i \in 1..(next - 1) : Order[i] # Order[next]
      BY <1>1, <1>2, Turns
  <1>4. Order[next] \notin Metadata
      BY <1>1, Turns
  <1>5. Order[next] \notin passed
      BY <1>3, <1>4 DEF TypeOK
  <1>6. ~Done(Order[next])
      BY <1>3 DEF Done
  <1>7. ASSUME next' = next + 1, NEW d
        PROVE  Done(d)' <=> (Done(d) \/ d = Order[next])
    <2>1. \A i : i \in 1..(next' - 1) <=> (i \in 1..(next - 1) \/ i = next)
        BY <1>1, <1>7
    <2> QED
        BY <2>1 DEF Done
  <1>8. passed \subseteq Checks
      BY <1>2, Turns DEF TypeOK, Checks
  <1> QED
      BY <1>5, <1>6, <1>7, <1>8

-----------------------------------------------------------------------------
\* The invariant

\* What a check that is made changes.
LEMMA VerdictChanges ==
    ASSUME NEW c, NEW R \in BOOLEAN, NEW P \in BOOLEAN, Verdict(c, R, P)
    PROVE  /\ phase = "checks" /\ next \in DOMAIN Order /\ c = Order[next]
           /\ UNCHANGED guild /\ score' = score
           /\ R => phase' = "raised" /\ next' = next /\ passed' = passed
           /\ ~R => /\ phase' = phase /\ next' = next + 1
                    /\ passed' = IF P THEN passed \union {c} ELSE passed
  BY DEF Verdict

\* Either the check that is due is made, or one of the other steps.
LEMMA Steps ==
    ASSUME TypeOK, Connected, Next
    PROVE  \/ \E c, R, P : R \in BOOLEAN /\ P \in BOOLEAN /\ Made(c, R, P)
           \/ Asks \/ PointsResults \/ NodeChanges \/ Over
  <1>1. CASE \/ CheckApi \/ CheckHttps \/ ApiSecurity \/ CheckHistory
             \/ CheckHyperion \/ CheckAtomicAssets
    <2>1. PICK c \in Decided, R, P \in BOOLEAN : Made(c, R, P)
        BY <1>1, DecidedSteps
    <2> QED
        BY <2>1
  <1>2. CASE AskHttps
    <2>1. PICK c \in Https \ {"https_check"} :
            \/ ~ConnectsAgain /\ Step(c, HttpsRaises, FALSE)
            \/ /\ ConnectsAgain /\ ~connecting
               /\ phase = "checks" /\ next \in DOMAIN Order /\ Order[next] = c
               /\ connecting' = TRUE
               /\ UNCHANGED <<guild, outage, next, passed, score, phase>>
        BY <1>2 DEF AskHttps
    <2> QED
        BY <2>1, AskedOnce DEF Asks
  <1>3. CASE ConnectSocket
      BY <1>3, ConnectMade
  <1>4. CASE CheckNetwork \/ CheckCpu \/ CheckSeedNode \/ HeadBlockUnknown
      BY <1>4, OtherSteps
  <1>5. CASE DatabaseFails
      BY <1>5, DatabaseMade
  <1> QED
      BY <1>1, <1>2, <1>3, <1>4, <1>5 DEF Next

\* The first state has its types: every listed service has a node that answers
\* in one of the ways it may.
LEMMA InitType ==
    ASSUME Init
    PROVE  TypeOK
  <1>1. PICK listing \in Listings : \E troubled \in SUBSET listing :
         /\ \E url \in [troubled -> Urls], full \in SUBSET (listing \intersect Hyperion) :
              row = [s \in listing |->
                        [url |-> IF s \in troubled THEN url[s] ELSE "https",
                         full |-> s \in full]]
         /\ \E n \in [troubled -> [answers : UNION Range(Kinds), delay : Delays]] :
              /\ \A s \in troubled : n[s].answers \in Kinds[s]
              /\ node = [s \in listing |-> IF s \in troubled THEN n[s] ELSE Good]
      BY DEF Init
  <1>2. PICK troubled \in SUBSET listing :
         /\ \E url \in [troubled -> Urls], full \in SUBSET (listing \intersect Hyperion) :
              row = [s \in listing |->
                        [url |-> IF s \in troubled THEN url[s] ELSE "https",
                         full |-> s \in full]]
         /\ \E n \in [troubled -> [answers : UNION Range(Kinds), delay : Delays]] :
              /\ \A s \in troubled : n[s].answers \in Kinds[s]
              /\ node = [s \in listing |-> IF s \in troubled THEN n[s] ELSE Good]
      BY <1>1
  <1>3. PICK url \in [troubled -> Urls], full \in SUBSET (listing \intersect Hyperion) :
              row = [s \in listing |->
                        [url |-> IF s \in troubled THEN url[s] ELSE "https",
                         full |-> s \in full]]
      BY <1>2
  <1>4. PICK n \in [troubled -> [answers : UNION Range(Kinds), delay : Delays]] :
              /\ \A s \in troubled : n[s].answers \in Kinds[s]
              /\ node = [s \in listing |-> IF s \in troubled THEN n[s] ELSE Good]
      BY <1>2
  <1>5. Listed = listing /\ DOMAIN node = listing /\ listing \subseteq Services
      BY <1>3, <1>4, GuildAssumption DEF Listed
  <1>6. ASSUME NEW s \in listing
        PROVE  row[s] \in Row
    <2>1. (IF s \in troubled THEN url[s] ELSE "https") \in Urls
        BY DEF Urls
    <2> QED
        BY <1>3, <2>1 DEF Row
  <1>7. ASSUME NEW s \in listing
        PROVE  node[s].answers \in Kinds[s] /\ node[s].delay \in Delays
    <2>1. CASE s \in troubled
      <3>1. n[s] \in [answers : UNION Range(Kinds), delay : Delays]
          BY <2>1
      <3> QED
          BY <1>4, <2>1, <3>1
    <2>2. CASE s \notin troubled
      <3>1. s \in Services
          BY GuildAssumption
      <3>2. "ok" \in Kinds[s]
          BY <3>1 DEF Kinds
      <3> QED
          BY <1>4, <2>2, <3>2, QuickAndSlow DEF Good
    <2> QED
        BY <2>1, <2>2
  <1>8. row \in [listing -> Row]
      BY <1>3, <1>6
  <1>9. /\ endpoint \in {"absent", "malformed", "host:port"} /\ known \in BOOLEAN
        /\ changed = "never" /\ connecting = FALSE /\ outage = FALSE
        /\ next = 1 /\ passed = Metadata /\ score = 0
        /\ phase = "checks"
      BY DEF Init
  <1>10. 1 \in 1..(Len(Order) + 1)
      BY Turns
  <1>11. /\ passed \subseteq Metadata \union {Order[i] : i \in 1..(next - 1)}
         /\ next \in 1..(Len(Order) + 1) /\ score \in Int
      BY <1>9, <1>10
  <1>12. /\ Listed \subseteq Services /\ row \in [Listed -> Row]
         /\ DOMAIN node = Listed
         /\ \A s \in Listed : node[s].answers \in Kinds[s] /\ node[s].delay \in Delays
      BY <1>5, <1>7, <1>8
  <1> QED
      BY <1>9, <1>11, <1>12 DEF TypeOK

\* What is true of the first state.
LEMMA InitInv ==
    ASSUME Init
    PROVE  IInv
  <1>1. next = 1 /\ passed = Metadata /\ phase = "checks" /\ connecting = FALSE
      BY DEF Init
  <1>2. \A c : ~Done(c)
      BY <1>1 DEF Done
  <1>3. ASSUME NEW s \in Services
        PROVE  ChecksOf[s] \intersect Metadata = {}
      BY ServiceChecks, Turns DEF Decided
  <1>4. SilentFails
      BY <1>1, <1>3 DEF SilentFails
  <1> QED
      BY <1>1, <1>2, <1>4, InitType
      DEF IInv, OnlyDisorderRaises, Repeatable, ScoreOfPassed, Connected

\* The types after a step.
LEMMA NextType ==
    ASSUME TypeOK, Connected, Next
    PROVE  TypeOK'
  <1>1. ASSUME NEW c, NEW R \in BOOLEAN, NEW P \in BOOLEAN, Made(c, R, P)
        PROVE  TypeOK'
    <2>1. /\ phase = "checks" /\ next \in DOMAIN Order /\ c = Order[next]
          /\ UNCHANGED guild /\ score' = score
          /\ R => phase' = "raised" /\ next' = next /\ passed' = passed
          /\ ~R => /\ phase' = phase /\ next' = next + 1
                   /\ passed' = IF P THEN passed \union {c} ELSE passed
        BY <1>1, VerdictChanges, Zenon DEF Made
    <2>2. connecting' = FALSE /\ outage' \in BOOLEAN
        BY <1>1 DEF Made, TypeOK
    <2>3. next \in 1..19
        BY <2>1, Turns
    <2>4. CASE R
        BY <2>1, <2>2, <2>4 DEF TypeOK, Listed, guild
    <2>5. CASE ~R
      <3>1. next' \in 1..(Len(Order) + 1)
          BY <2>1, <2>3, <2>5, Turns
      <3>2. c \in {Order[i] : i \in 1..(next' - 1)}
          BY <2>1, <2>3, <2>5
      <3>3. 1..(next - 1) \subseteq 1..(next' - 1)
          BY <2>1, <2>3, <2>5
      <3>4. passed' \subseteq Metadata \union {Order[i] : i \in 1..(next' - 1)}
          BY <2>1, <2>5, <3>2, <3>3 DEF TypeOK
      <3> QED
          BY <2>1, <2>2, <2>5, <3>1, <3>4 DEF TypeOK, Listed, guild
    <2> QED
        BY <2>4, <2>5
  <1>2. CASE Asks
      BY <1>2 DEF Asks, ConnectsAgain, TypeOK, guild, Listed
  <1>3. CASE PointsResults
    <2>1. passed \subseteq Checks
      <3>1. \A i \in 1..(next - 1) : i \in 1..19
          BY Turns DEF TypeOK
      <3> QED
          BY <3>1, Turns DEF TypeOK, Checks
    <2>2. score' \in Int
        BY <1>3, <2>1, ScoreFacts DEF PointsResults
    <2> QED
        BY <1>3, <2>2 DEF PointsResults, TypeOK, guild, Listed
  <1>4. CASE NodeChanges
    <2>1. PICK s \in Listed, d \in {Quick, Max(Delays)} :
            node' = [node EXCEPT ![s].delay = d]
        BY <1>4 DEF NodeChanges
    <2>2. d \in Delays
        BY QuickAndSlow
    <2>3. DOMAIN node' = Listed
        BY <2>1 DEF TypeOK
    <2>4. ASSUME NEW z \in Listed
          PROVE  node'[z].answers \in Kinds[z] /\ node'[z].delay \in Delays
      <3>1. node[z].answers \in Kinds[z] /\ node[z].delay \in Delays
          BY DEF TypeOK
      <3> QED
          BY <2>1, <2>2, <3>1 DEF TypeOK
    <2>5. /\ row' = row /\ changed' \in {"between", "within"} /\ next' = next
          /\ passed' = passed /\ score' = score /\ phase' = phase
          /\ endpoint' = endpoint /\ known' = known /\ connecting' = connecting
          /\ outage' = outage
        BY <1>4 DEF NodeChanges
    <2>6. Listed' = Listed
        BY <2>5 DEF Listed
    <2> QED
        BY <2>3, <2>4, <2>5, <2>6 DEF TypeOK
  <1>5. CASE Over
      BY <1>5 DEF Over, vars, guild, TypeOK, Listed
  <1> QED
      BY <1>1, <1>2, <1>3, <1>4, <1>5, Steps

\* A check that is made keeps the other parts.
LEMMA CheckKeeps ==
    ASSUME IInv, NEW c, NEW R \in BOOLEAN, NEW P \in BOOLEAN, Made(c, R, P)
    PROVE  /\ OnlyDisorderRaises' /\ Repeatable' /\ SilentFails'
           /\ ScoreOfPassed' /\ Connected'
  <1>1. /\ phase = "checks" /\ next \in DOMAIN Order /\ c = Order[next]
        /\ UNCHANGED guild /\ score' = score
        /\ R => phase' = "raised" /\ next' = next /\ passed' = passed
        /\ ~R => /\ phase' = phase /\ next' = next + 1
                 /\ passed' = IF P THEN passed \union {c} ELSE passed
      BY VerdictChanges, Zenon DEF Made
  <1>2. /\ \A d : (Raises(d)' <=> Raises(d)) /\ (Passes(d)' <=> Passes(d))
        /\ Orderly' <=> Orderly
        /\ Listed' = Listed
      BY <1>1, SameNodes
  <1>3. c \notin passed /\ ~Done(c)
      BY <1>1, DueCheck DEF IInv
  <1>4. changed' = changed /\ node' = node
      BY <1>1 DEF guild
  <1>5. OnlyDisorderRaises'
      BY <1>1, <1>2, <1>4 DEF OnlyDisorderRaises, Made
  <1>6. ScoreOfPassed' /\ Connected'
      BY <1>1 DEF ScoreOfPassed, Connected, Made
  <1>7. Steady' => Steady /\ changed = "never" /\ ~outage'
      BY <1>4 DEF Steady, Made
  <1>8. CASE R
    <2>1. \A d : Done(d)' <=> Done(d)
        BY <1>1, <1>8 DEF Done
    <2>2. Repeatable'
        BY <1>1, <1>2, <1>7, <1>8, <2>1 DEF IInv, Repeatable
    <2>3. SilentFails'
        BY <1>1, <1>2, <1>4, <1>8 DEF IInv, SilentFails
    <2> QED
        BY <1>5, <1>6, <2>2, <2>3
  <1>9. CASE ~R
    <2>1. \A d : Done(d)' <=> (Done(d) \/ d = c)
        BY <1>1, <1>9, DueCheck DEF IInv
    <2>2. passed' = IF P THEN passed \union {c} ELSE passed
        BY <1>1, <1>9
    <2>3. Repeatable'
      <3> SUFFICES ASSUME Steady', NEW d \in Decided, Done(d)'
                   PROVE  ~Raises(d)' /\ (d \in passed' <=> Passes(d)')
          BY DEF Repeatable
      <3>1. CASE d = c
        <4>1. (R <=> Raises(c)) /\ (P <=> Passes(c))
            BY <1>7, <3>1 DEF Made
        <4> QED
            BY <1>2, <1>3, <1>9, <2>2, <3>1, <4>1
      <3>2. CASE d # c
        <4>1. Done(d) /\ Steady
            BY <1>7, <2>1, <3>2
        <4>2. ~Raises(d) /\ (d \in passed <=> Passes(d))
            BY <4>1 DEF IInv, Repeatable
        <4> QED
            BY <1>2, <2>2, <3>2, <4>2
      <3> QED
          BY <3>1, <3>2
    <2>4. SilentFails'
      <3> SUFFICES ASSUME NEW s \in Services,
                          s \notin Listed
                          \/ (changed = "never" /\ node[s].delay > 20)
                   PROVE  ChecksOf[s] \intersect passed' = {}
          BY <1>2, <1>4 DEF SilentFails
      <3>1. ChecksOf[s] \intersect passed = {}
          BY DEF IInv, SilentFails
      <3>2. ASSUME c \in ChecksOf[s], P
            PROVE  FALSE
        <4>1. s \in Listed /\ (changed = "never" => node[s].delay <= 20)
            BY <3>2 DEF Made
        <4>2. node[s].delay \in Nat
            BY <4>1, GuildAssumption DEF IInv, TypeOK
        <4> QED
            BY <4>1, <4>2
      <3> QED
          BY <2>2, <3>1, <3>2
    <2> QED
        BY <1>5, <1>6, <2>3, <2>4
  <1> QED
      BY <1>8, <1>9

\* A step that changes nothing keeps the invariant.
LEMMA StutterInv ==
    ASSUME IInv, UNCHANGED vars
    PROVE  IInv'
  <1>1. /\ UNCHANGED guild /\ connecting' = connecting /\ outage' = outage
        /\ next' = next /\ passed' = passed /\ phase' = phase /\ score' = score
      BY DEF vars
  <1>2. /\ \A d : (Raises(d)' <=> Raises(d)) /\ (Passes(d)' <=> Passes(d))
        /\ \A d : Done(d)' <=> Done(d)
        /\ (Orderly' <=> Orderly) /\ (ConnectsAgain' <=> ConnectsAgain)
        /\ Listed' = Listed
      BY <1>1, SameNodes DEF Done
  <1>3. changed' = changed /\ (Steady' <=> Steady)
      BY <1>1 DEF Steady, guild
  <1>4. Repeatable'
      BY <1>1, <1>2, <1>3 DEF IInv, Repeatable
  <1>5. SilentFails'
      BY <1>1, <1>2 DEF IInv, SilentFails, guild
  <1>6. OnlyDisorderRaises'
      BY <1>1, <1>2, <1>3 DEF IInv, OnlyDisorderRaises
  <1>7. ScoreOfPassed' /\ Connected'
      BY <1>1, <1>2, <1>3 DEF IInv, ScoreOfPassed, Connected
  <1>8. TypeOK'
      BY <1>1 DEF IInv, TypeOK, Listed, guild
  <1> QED
      BY <1>4, <1>5, <1>6, <1>7, <1>8 DEF IInv

\* The invariant after a step.
LEMMA NextInv ==
    ASSUME IInv, Next
    PROVE  IInv'
  <1>1. TypeOK'
      BY NextType DEF IInv
  <1>2. ASSUME NEW c, NEW R \in BOOLEAN, NEW P \in BOOLEAN, Made(c, R, P)
        PROVE  IInv'
      BY <1>1, <1>2, CheckKeeps DEF IInv
  <1>3. CASE Asks
    <2>1. /\ UNCHANGED guild /\ connecting' = TRUE /\ outage' = outage
          /\ next' = next /\ passed' = passed /\ phase' = "checks"
          /\ phase = "checks" /\ ConnectsAgain
        BY <1>3 DEF Asks
    <2>2. /\ \A d : (Raises(d)' <=> Raises(d)) /\ (Passes(d)' <=> Passes(d))
          /\ \A d : Done(d)' <=> Done(d)
          /\ Listed' = Listed /\ ConnectsAgain'
        BY <2>1, SameNodes DEF Done
    <2>3. Steady' <=> Steady
        BY <2>1 DEF Steady, guild
    <2>4. Repeatable'
        BY <2>1, <2>2, <2>3 DEF IInv, Repeatable
    <2>5. SilentFails'
        BY <2>1, <2>2 DEF IInv, SilentFails, guild
    <2>6. OnlyDisorderRaises' /\ ScoreOfPassed' /\ Connected'
        BY <2>1, <2>2 DEF OnlyDisorderRaises, ScoreOfPassed, Connected
    <2> QED
        BY <1>1, <2>4, <2>5, <2>6 DEF IInv
  <1>4. CASE PointsResults
    <2>1. /\ UNCHANGED guild /\ connecting' = connecting /\ outage' = outage
          /\ next' = next /\ passed' = passed /\ phase' = "scored"
          /\ score' = Scored(passed)
        BY <1>4 DEF PointsResults
    <2>2. /\ \A d : (Raises(d)' <=> Raises(d)) /\ (Passes(d)' <=> Passes(d))
          /\ \A d : Done(d)' <=> Done(d)
          /\ Listed' = Listed /\ (ConnectsAgain' <=> ConnectsAgain)
        BY <2>1, SameNodes DEF Done
    <2>3. changed' = changed /\ (Steady' <=> Steady)
        BY <2>1 DEF Steady, guild
    <2>4. Repeatable'
        BY <2>1, <2>2, <2>3 DEF IInv, Repeatable
    <2>5. SilentFails'
        BY <2>1, <2>2 DEF IInv, SilentFails, guild
    <2>6. OnlyDisorderRaises' /\ Connected'
        BY <2>1, <2>2, <2>3 DEF IInv, OnlyDisorderRaises, Connected
    <2>7. Scored(passed)' = Scored(passed)
        BY <2>1 DEF Scored, Worth
    <2>8. ScoreOfPassed'
        BY <2>1, <2>7 DEF ScoreOfPassed
    <2> QED
        BY <1>1, <2>4, <2>5, <2>6, <2>8 DEF IInv
  <1>5. CASE NodeChanges
    <2>1. /\ row' = row /\ phase' = "checks" /\ connecting' = connecting
          /\ changed' = IF connecting THEN "within" ELSE "between"
          /\ passed' = passed /\ Listed' = Listed
        BY <1>5 DEF NodeChanges, Listed
    <2>2. changed' # "never" /\ ~Steady'
        BY <2>1 DEF Steady
    <2>3. SilentFails'
      <3> SUFFICES ASSUME NEW s \in Services, s \notin Listed
                   PROVE  ChecksOf[s] \intersect passed = {}
          BY <2>1, <2>2 DEF SilentFails
      <3> QED
          BY DEF IInv, SilentFails
    <2> QED
        BY <1>1, <2>1, <2>2, <2>3
        DEF IInv, Repeatable, OnlyDisorderRaises, ScoreOfPassed, Connected
  <1>6. CASE Over
      BY <1>6, StutterInv DEF Over
  <1> QED
      BY <1>2, <1>3, <1>4, <1>5, <1>6, Steps DEF IInv

\* The invariant holds in every state of every behaviour.
THEOREM Inductive == Spec => []IInv
  <1>1. IInv /\ [Next]_vars => IInv'
      BY NextInv, StutterInv
  <1> QED
      BY InitInv, <1>1, PTL DEF Spec

-----------------------------------------------------------------------------
\* The properties

\* The state of a guild's checks has its types: the checks that passed had
\* their turn, a second connection belongs to a check that makes one, and there
\* is a score when all checks had their turn (start.py:93-330).
THEOREM GuildTypeCorrect == Spec => []TypeOK
  <1>1. IInv => TypeOK
      BY DEF IInv
  <1> QED
      BY <1>1, Inductive, PTL

\* What ends the run of all guilds (finalresults in start.py catches nothing
\* around its checks): a guild whose listing or answers are not in order, an
\* outage of the portal's own database or node of the chain, or a node that
\* changes between the two connections of one check. Nothing else does.
THEOREM DisorderEndsTheRun == Spec => []OnlyDisorderRaises
  <1>1. IInv => OnlyDisorderRaises
      BY DEF IInv
  <1> QED
      BY <1>1, Inductive, PTL

\* When the guild is scored every check has had its turn.
LEMMA AllDone ==
    ASSUME TypeOK, phase = "scored"
    PROVE  \A c \in Decided : Done(c)
  <1>1. next - 1 = 19
      BY Turns DEF TypeOK
  <1> QED
      BY <1>1, Turns DEF Done

\* While nothing changes, what passed is what would pass again.
LEMMA PassedIfPasses ==
    ASSUME IInv, phase = "scored", Steady, NEW c \in Decided
    PROVE  ~Raises(c) /\ (c \in passed <=> Passes(c))
  <1>1. Done(c)
      BY AllDone DEF IInv
  <1> QED
      BY <1>1 DEF IInv, Repeatable

\* A healthy guild passes, check by check.
LEMMA HealthyPasses ==
    ASSUME IInv, phase = "scored", Steady, \A s \in Listed : InGoodOrder(s)
    PROVE  /\ Security \subseteq passed
           /\ \A s \in Listed : \A c \in ChecksOf[s] :
                c \in passed \/ (~row[s].full
                                /\ c \in {"hyperion_v2_full", "hyperion_v2_testnet_full"})
  <1>1. Quick \in Nat /\ Quick <= 7
      BY QuickAndSlow, GuildAssumption
  <1>2. ASSUME NEW s \in Listed
        PROVE  /\ HasUrl(s) /\ HasHttps(s) /\ row[s].url # "tail"
               /\ Within(s, 7) /\ Within(s, 10) /\ Within(s, 15) /\ Within(s, 20)
               /\ \A kinds : Is(s, kinds) <=> "ok" \in kinds
    <2>1. row[s].url = "https" /\ node[s].answers = "ok" /\ node[s].delay = Quick
        BY DEF InGoodOrder, Good
    <2> QED
        BY <1>1, <2>1 DEF HasUrl, HasHttps, Within, Is
  <1>3. Security \subseteq passed
    <2>1. SecurityPasses
        BY <1>2 DEF SecurityPasses
    <2>2. \A c \in Security : Passes(c) /\ c \in Decided
        BY <2>1 DEF Passes, Decided
    <2> QED
        BY <2>2, PassedIfPasses
  <1>4. ASSUME NEW s \in Listed, NEW c \in ChecksOf[s]
        PROVE  c \in passed \/ (~row[s].full
                     /\ c \in {"hyperion_v2_full", "hyperion_v2_testnet_full"})
    <2>1. s \in Services
        BY DEF IInv, TypeOK
    <2>2. CASE s = "chain-api"
      <3>1. c \in Api \union Https
          BY <2>2 DEF ChecksOf, Services, Api, Https
      <3>2. HttpsAnswered
          BY <1>2, <2>2 DEF HttpsAnswered, Refusing
      <3>3. ApiPasses(c)
          BY <1>2, <2>2 DEF ApiPasses, Refusing
      <3>4. /\ HttpsPasses /\ ConnectsAgain
            /\ SocketPasses(c, Connects)
          BY <1>2, <2>2, <3>2
          DEF HttpsPasses, ConnectsAgain, SocketPasses, Connects
      <3>5. Passes(c) /\ c \in Decided
          BY <3>1, <3>3, <3>4 DEF Passes, Decided
      <3> QED
          BY <3>5, PassedIfPasses
    <2>3. CASE s = "history-v1"
      <3>1. c = "full_history"
          BY <2>3 DEF ChecksOf, Services
      <3>2. HistoryPasses("history-v1")
          BY <1>2, <2>3 DEF HistoryPasses
      <3>3. Passes(c) /\ c \in Decided
          BY <3>1, <3>2 DEF Passes, Decided
      <3> QED
          BY <3>3, PassedIfPasses
    <2>4. CASE s \in Hyperion /\ (Partial(c) => row[s].full)
      <3>1. c \in HyperionChecks /\ HyperionNode(c) = s
          BY <2>4 DEF ChecksOf, Services, Hyperion, HyperionChecks, HyperionNode
      <3>2. IndexedPasses(s)
          BY <1>2 DEF IndexedPasses, Refusing
      <3>3. ReachesV1(s, Partial(c))
          BY <1>2, <2>4, <3>2 DEF ReachesV1
      <3>4. HyperionPasses(s, Partial(c))
        <4>1. ~Is(s, {IF Partial(c) THEN "noOld" ELSE "noRecent"})
            BY <1>2
        <4> QED
            BY <3>3, <4>1 DEF HyperionPasses
      <3>5. Passes(c) /\ c \in Decided
          BY <3>1, <3>4 DEF Passes, Decided
      <3> QED
          BY <3>5, PassedIfPasses
    <2>5. CASE s = "atomic-assets-api"
      <3>1. c = "atomic_api"
          BY <2>5 DEF ChecksOf, Services
      <3>2. AtomicPasses
          BY <1>2, <2>5 DEF AtomicPasses
      <3>3. Passes(c) /\ c \in Decided
          BY <3>1, <3>2 DEF Passes, Decided
      <3> QED
          BY <3>3, PassedIfPasses
    <2>6. CASE Partial(c) /\ ~row[s].full
        BY <2>6 DEF Partial
    <2> QED
        BY <2>1, <2>2, <2>3, <2>4, <2>5, <2>6 DEF Services, Hyperion
  <1> QED
      BY <1>3, <1>4

\* What passes the API check passes the HTTPS check, too, unless its
\* certificate is not valid.
LEMMA ApiPassesHttps ==
    ASSUME IInv, phase = "scored", Steady, "api_node" \in passed,
           ~Is("chain-api", {"noCert"})
    PROVE  "https_check" \in passed
  <1>1. "api_node" \in Decided /\ "https_check" \in Decided
      BY DEF Decided, Api, Https
  <1>2. Passes("api_node") /\ ~Raises("api_node")
      BY <1>1, PassedIfPasses
  <1>3. ApiPasses("api_node") /\ ~ApiRaises("api_node")
      BY <1>2 DEF Passes, Raises, Api, Https, Security, HyperionChecks
  <1>4. /\ "chain-api" \in Listed /\ Within("chain-api", 7)
        /\ ~Is("chain-api", Refusing)
        /\ ~Is("chain-api", {"page", "otherChain"})
        /\ ~Is("chain-api", {"list"})
      BY <1>3 DEF ApiPasses, ApiRaises
  <1>5. Within("chain-api", 20)
    <2>1. node["chain-api"].delay \in Nat
        BY <1>4, GuildAssumption DEF IInv, TypeOK
    <2> QED
        BY <1>4, <2>1 DEF Within
  <1>6. HttpsAnswered
      BY <1>4, <1>5 DEF HttpsAnswered, Is
  <1>7. HttpsPasses
      BY <1>4, <1>6 DEF HttpsPasses, Is
  <1>8. Passes("https_check")
      BY <1>7 DEF Passes, Https
  <1> QED
      BY <1>1, <1>8, PassedIfPasses

\* A service whose node is silent earns nothing: the guild has no more points
\* than one that passes all checks but those of the service.
LEMMA SilentScore ==
    ASSUME IInv, phase = "scored", NEW s \in Services,
           ChecksOf[s] \intersect passed = {}
    PROVE  score <= Scored(Checks \ ChecksOf[s])
  <1>1. \A i \in 1..(next - 1) : i \in 1..19
      BY Turns DEF IInv, TypeOK
  <1>2. passed \subseteq Checks
      BY <1>1, Turns DEF IInv, TypeOK, Checks
  <1>3. passed \subseteq Checks \ ChecksOf[s]
      BY <1>2
  <1>4. Scored(passed) <= Scored(Checks \ ChecksOf[s])
      BY <1>2, <1>3, ScoreFacts
  <1> QED
      BY <1>4 DEF IInv, ScoreOfPassed

\* The verdicts fit what the nodes did: where nothing changes, a healthy guild
\* passes and the API and the HTTPS check agree; and a silent service passes
\* and earns nothing, whatever the database does (start.py:93-330, score.py).
THEOREM VerdictsFitTheNodes == Spec => []VerdictsDeserved
  <1>1. ASSUME IInv
        PROVE  VerdictsDeserved
    <2>1. HealthyGuildPasses
        BY <1>1, HealthyPasses, Zenon DEF HealthyGuildPasses
    <2>2. SilentServiceFails
      <3> SUFFICES ASSUME phase = "scored", NEW s \in Services,
                          s \notin Listed
                          \/ (changed = "never" /\ node[s].delay > 20)
                   PROVE  /\ ChecksOf[s] \intersect passed = {}
                          /\ score <= Scored(Checks \ ChecksOf[s])
          BY DEF SilentServiceFails
      <3>1. ChecksOf[s] \intersect passed = {}
          BY <1>1 DEF IInv, SilentFails
      <3> QED
          BY <1>1, <3>1, SilentScore
    <2>3. ApiThenHttps
        BY <1>1, ApiPassesHttps DEF ApiThenHttps
    <2> QED
        BY <2>1, <2>2, <2>3 DEF VerdictsDeserved
  <1> QED
      BY <1>1, Inductive, PTL
=============================================================================
