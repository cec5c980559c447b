------------------------- MODULE PortalServerProofs -------------------------
(***************************************************************************)
(* Theorems about PortalServer, for every finite number of calls, retries, *)
(* outages and producers: however many requests share the one connection   *)
(* to the database, each handler gets its own answers.                     *)
(***************************************************************************)
EXTENDS PortalServer, FunctionTheorems, FiniteSetTheorems, TLAPS

-----------------------------------------------------------------------------
\* Counting in a sequence

Places(q, e) == {i \in DOMAIN q : q[i] = e}
Count(q, e) == Cardinality(Places(q, e))

\* The places of an element are finitely many, and none where it is missing.
LEMMA CountType ==
    ASSUME NEW S, NEW q \in Seq(S), NEW e
    PROVE  /\ IsFiniteSet(Places(q, e))
           /\ Count(q, e) \in Nat
           /\ Count(q, e) = 0 <=> \A i \in DOMAIN q : q[i] # e
  <1>1. DOMAIN q = 1..Len(q) /\ Len(q) \in Nat
      OBVIOUS
  <1>2. IsFiniteSet(DOMAIN q)
      BY <1>1, FS_Interval
  <1>3. IsFiniteSet(Places(q, e))
      BY <1>2, FS_Subset DEF Places
  <1>4. Count(q, e) \in Nat
      BY <1>3, FS_CardinalityType DEF Count
  <1>5. Count(q, e) = 0 <=> Places(q, e) = {}
      BY <1>3, FS_EmptySet DEF Count
  <1> QED
      BY <1>3, <1>4, <1>5 DEF Places

\* n copies of x, as a handler that awaits n answers adds them.
Copies(x, n) == [i \in 1..n |-> x]

\* Appending n copies of x adds n to the count of x and nothing to the others.
LEMMA CountCopies ==
    ASSUME NEW S, NEW q \in Seq(S), NEW x \in S, NEW n \in Nat, NEW e
    PROVE  /\ q \o Copies(x, n) \in Seq(S)
           /\ Count(q \o Copies(x, n), e)
                  = Count(q, e) + (IF x = e THEN n ELSE 0)
  <1> DEFINE r == q \o Copies(x, n)
             new == (Len(q) + 1)..(Len(q) + n)
  <1> SUFFICES r \in Seq(S) /\ Count(r, e) = Count(q, e) + (IF x = e THEN n ELSE 0)
      OBVIOUS
  <1>1. Copies(x, n) \in Seq(S) /\ Len(Copies(x, n)) = n
      BY DEF Copies
  <1>2. /\ r \in Seq(S) /\ Len(r) = Len(q) + n /\ Len(q) \in Nat
        /\ DOMAIN r = 1..(Len(q) + n) /\ DOMAIN q = 1..Len(q)
        /\ \A i \in 1..Len(q) : r[i] = q[i]
        /\ \A i \in new : r[i] = x
      BY <1>1 DEF Copies
  <1> HIDE DEF r, new
  <1>3. CASE x = e
    <2>1. Places(r, e) = Places(q, e) \cup new
        BY <1>2, <1>3 DEF Places, new
    <2>2. Places(q, e) \cap new = {}
      <3>1. \A i \in Places(q, e) : i <= Len(q)
          BY <1>2 DEF Places
      <3> QED
          BY <3>1, <1>2 DEF new
    <2>3. IsFiniteSet(new) /\ Cardinality(new) = n
      <3> USE DEF new
      <3>1. Len(q) + 1 \in Int /\ Len(q) + n \in Int
          BY <1>2
      <3>2. Cardinality(new) = IF Len(q) + 1 > Len(q) + n THEN 0
                               ELSE (Len(q) + n) - (Len(q) + 1) + 1
          BY <3>1, FS_Interval
      <3> QED
          BY <3>1, <3>2, <1>2, FS_Interval
    <2>4. Cardinality(Places(q, e) \cup new)
              = Cardinality(Places(q, e)) + n - Cardinality({})
        BY <2>2, <2>3, CountType, FS_Union
    <2>5. Cardinality({}) = 0
        BY FS_EmptySet
    <2>6. Count(q, e) \in Nat
        BY CountType
    <2>7. Count(r, e) = Count(q, e) + n
        BY <2>1, <2>4, <2>5, <2>6 DEF Count
    <2> QED
        BY <2>7, <1>2, <1>3
  <1>4. CASE x # e
    <2>1. Places(r, e) = Places(q, e)
        BY <1>2, <1>4 DEF Places, new
    <2> QED
        BY <2>1, <1>2, <1>4, CountType DEF Count
  <1> QED
      BY <1>3, <1>4

\* Taking the head off takes one off its count and nothing off the others.
LEMMA CountTail ==
    ASSUME NEW S, NEW q \in Seq(S), q # <<>>, NEW e
    PROVE  /\ Tail(q) \in Seq(S)
           /\ Count(q, e) = Count(Tail(q), e) + (IF Head(q) = e THEN 1 ELSE 0)
  <1> DEFINE later == Places(q, e) \ {1}
             f == [i \in Places(Tail(q), e) |-> i + 1]
  <1>1. /\ Tail(q) \in Seq(S) /\ Head(q) = q[1]
        /\ Len(q) \in Nat \ {0} /\ DOMAIN q = 1..Len(q)
        /\ DOMAIN Tail(q) = 1..(Len(q) - 1)
        /\ \A i \in 1..(Len(q) - 1) : Tail(q)[i] = q[i + 1]
      OBVIOUS
  <1>2. f \in [Places(Tail(q), e) -> later]
      BY <1>1 DEF Places
  <1>3. \A a, b \in Places(Tail(q), e) : f[a] = f[b] => a = b
      BY <1>1 DEF Places
  <1>4. \A t \in later : \E s \in Places(Tail(q), e) : f[s] = t
    <2> SUFFICES ASSUME NEW t \in later
                 PROVE  t - 1 \in Places(Tail(q), e) /\ f[t - 1] = t
        OBVIOUS
    <2>1. t \in 2..Len(q) /\ q[t] = e
        BY <1>1 DEF Places
    <2>2. t - 1 \in 1..(Len(q) - 1) /\ (t - 1) + 1 = t
        BY <2>1, <1>1
    <2> QED
        BY <2>1, <2>2, <1>1 DEF Places
  <1>5. ExistsBijection(Places(Tail(q), e), later)
      BY <1>2, <1>3, <1>4, Fun_IsBij DEF ExistsBijection
  <1>6. Cardinality(later) = Count(Tail(q), e)
      BY <1>1, <1>5, CountType, FS_Bijection DEF Count
  <1>7. 1 \in Places(q, e) <=> Head(q) = e
      BY <1>1 DEF Places
  <1>8. Cardinality(later) = IF 1 \in Places(q, e) THEN Count(q, e) - 1
                                                   ELSE Count(q, e)
      BY CountType, FS_RemoveElement DEF Count
  <1> QED
      BY <1>1, <1>6, <1>7, <1>8, CountType

-----------------------------------------------------------------------------
\* The inductive invariant

\* The query that the handler of c makes in attempt t.
Entry(c, t, ask) == [call |-> c, try |-> t, ask |-> ask]

\* There is no query of the current attempt of c in q.
NoneOf(q, c) == \A i \in DOMAIN q : ~(q[i].call = c /\ q[i].try = tries[c])

\* What calls a handler that waits for something belongs to.
KindOf(what) ==
    CASE what \in {"name", "missing"}        -> "missing"
      [] what \in {"key", "logo"}            -> "login"
      [] what \in {"logos", "blocks"}        -> "blocks"
      [] what \in {"table", "dates", "nodes", "scan"} -> what

\* A call has been sent once it is no longer idle, only a call that was
\* received has a handler, and a page that got what it asked for has none.
CallInv ==
    \A c \in Calls :
        /\ state[c] = "idle" <=> tries[c] = 0
        /\ at[c] # "none" => /\ state[c] \in {"served", "done"}
                             /\ kind[c] = KindOf(at[c])
        /\ result[c] # "none" => state[c] = "done"
        /\ result[c] \notin {"none", "failed"} => at[c] = "none"

\* Queries bear the number of the attempt that made them.  Those of a call that
\* waits to be received are all of earlier attempts, and those of a handler
\* that runs are for what it waits for.
QueueInv ==
    \A i \in DOMAIN queue :
        LET q == queue[i]
        IN /\ q.try \in 1..tries[q.call]
           /\ q.try = tries[q.call] => /\ state[q.call] # "sent"
                                       /\ at[q.call] \in {"none", q.ask}

\* What the backend may have queued for a call so far: one re-scan for each
\* attempt of got in each attempt of ky.
Attempts(c) ==
    IF state[c] = "idle" THEN 0
    ELSE (tries[c] - 1) * (1 + GotRetries)
         + IF at[c] = "scan" THEN again[c]
           ELSE IF state[c] = "sent" THEN 0 ELSE 1 + GotRetries

BudgetInv == \A c \in Calls : accepted[c] <= Attempts(c)

IInv == /\ TypeOK /\ CallInv /\ QueueInv /\ NobodyWaitsInVain
        /\ AnswersTrue /\ BudgetInv

-----------------------------------------------------------------------------
\* Taking queries from the queue and adding some

\* What the inductive invariant says of one handler that waits.
LEMMA WaitingCount ==
    ASSUME IInv, NEW c \in Calls, at[c] \in Asks
    PROVE  Count(queue, Entry(c, tries[c], at[c]))
               = IF at[c] = "logos" THEN left[c] ELSE 1
  BY DEF IInv, NobodyWaitsInVain, Waiting, Count, Places, Entry

\* To show NobodyWaitsInVain of the next state, count in its queue.
LEMMA WaitingCounted ==
    ASSUME \A c \in Calls : at'[c] \in Asks =>
               Count(queue', Entry(c, tries'[c], at'[c]))
                   = IF at'[c] = "logos" THEN left'[c] ELSE 1
    PROVE  NobodyWaitsInVain'
  BY DEF NobodyWaitsInVain, Waiting, Count, Places, Entry

\* Queries of different calls or attempts are different.
LEMMA EntriesDiffer ==
    ASSUME NEW c, NEW d, NEW t, NEW u, NEW a, NEW b
    PROVE  Entry(c, t, a) = Entry(d, u, b) <=> c = d /\ t = u /\ a = b
  BY DEF Entry

\* The queries behind the head are those of the queue, one place further on.
LEMMA TailEntries ==
    ASSUME TypeOK, queue # <<>>
    PROVE  /\ Tail(queue) \in Seq(Query) /\ Head(queue) \in Query
           /\ \A i \in DOMAIN Tail(queue) :
                i + 1 \in DOMAIN queue /\ Tail(queue)[i] = queue[i + 1]
           /\ Head(queue) = queue[1] /\ 1 \in DOMAIN queue
  BY DEF TypeOK

\* A handler that waits for one answer, or for the last one, has no other query in the queue.
LEMMA AnswerLeavesNone ==
    ASSUME IInv, NEW c \in Calls, NEW ask \in Asks, Answers(c, ask),
           ask = "logos" => left[c] = 1
    PROVE  NoneOf(Tail(queue), c)
  <1>1. /\ queue # <<>> /\ at[c] = ask /\ TypeOK /\ queue \in Seq(Query)
        /\ Head(queue) = Entry(c, tries[c], ask)
      BY DEF Answers, Entry, IInv, TypeOK
  <1>2. Count(queue, Entry(c, tries[c], ask)) = 1
      BY <1>1, WaitingCount
  <1>3. Count(Tail(queue), Entry(c, tries[c], ask)) = 0
    <2>1. /\ Tail(queue) \in Seq(Query)
          /\ Count(queue, Entry(c, tries[c], ask))
                 = Count(Tail(queue), Entry(c, tries[c], ask)) + 1
        BY <1>1, CountTail
    <2>2. Count(Tail(queue), Entry(c, tries[c], ask)) \in Nat
        BY <2>1, CountType
    <2> QED
        BY <2>1, <2>2, <1>2
  <1>4. \A i \in DOMAIN Tail(queue) : Tail(queue)[i] # Entry(c, tries[c], ask)
    <2>1. Tail(queue) \in Seq(Query)
        BY <1>1
    <2> QED
        BY <2>1, <1>3, CountType
  <1> SUFFICES ASSUME NEW i \in DOMAIN Tail(queue), Tail(queue)[i].call = c,
                      Tail(queue)[i].try = tries[c]
               PROVE  FALSE
      BY DEF NoneOf
  <1>5. Tail(queue)[i].ask = ask /\ Tail(queue)[i] \in Query
    <2>1. i + 1 \in DOMAIN queue /\ Tail(queue)[i] = queue[i + 1]
        BY <1>1, TailEntries
    <2>2. at[c] \in {"none", queue[i + 1].ask} /\ queue[i + 1] \in Query
        BY <2>1, <1>1 DEF IInv, QueueInv
    <2> QED
        BY <2>1, <2>2, <1>1 DEF Asks
  <1> QED
      BY <1>4, <1>5 DEF Query, Entry

\* QueueInv holds of what is left when the head has been taken.
LEMMA TailKeepsEntries ==
    ASSUME IInv, queue # <<>>
    PROVE  \A i \in DOMAIN Tail(queue) :
             LET q == Tail(queue)[i]
             IN /\ q \in Query
                /\ q.try \in 1..tries[q.call]
                /\ q.try = tries[q.call] =>
                     state[q.call] # "sent" /\ at[q.call] \in {"none", q.ask}
  BY TailEntries DEF IInv, TypeOK, QueueInv

\* A handler that has just been called, or that waits for another service, has
\* no query of its attempt in the queue.
LEMMA FreshHandler ==
    ASSUME IInv, NEW c \in Calls, state[c] = "sent" \/ at[c] \in Remote
    PROVE  NoneOf(queue, c)
  <1> SUFFICES ASSUME NEW i \in DOMAIN queue, queue[i].call = c,
                      queue[i].try = tries[c]
               PROVE  FALSE
      BY DEF NoneOf
  <1>1. queue[i].ask \in Asks
    <2>1. queue[i] \in Query
        BY DEF IInv, TypeOK
    <2> QED
        BY <2>1 DEF Query
  <1>2. state[c] # "sent" /\ at[c] \in {"none", queue[i].ask}
      BY DEF IInv, QueueInv
  <1> QED
      BY <1>1, <1>2 DEF Asks, Remote

\* Without queries of the attempt, none is counted.
LEMMA NoneCounted ==
    ASSUME NEW q \in Seq(Query), NEW c \in Calls, NoneOf(q, c), NEW ask
    PROVE  Count(q, Entry(c, tries[c], ask)) = 0
  <1>1. \A i \in DOMAIN q : q[i] # Entry(c, tries[c], ask)
      BY DEF NoneOf, Entry
  <1> QED
      BY <1>1, CountType

-----------------------------------------------------------------------------
\* The steps that end an attempt

\* What a call that hears the outcome r of an attempt does (Hear): it is over,
\* or it is sent once more; no other call notices.
LEMMA HeardOnce ==
    ASSUME IInv, NEW c \in Calls, NEW r \in Results \ {"none"},
           Hear({c}, r), state[c] # "idle"
    PROVE  /\ state' \in [Calls -> {"idle", "sent", "served", "done"}]
           /\ tries' \in [Calls -> 0..(KyRetries + 1)]
           /\ result' \in [Calls -> Results]
           /\ \A d \in Calls \ {c} : /\ state'[d] = state[d]
                                     /\ tries'[d] = tries[d]
                                     /\ result'[d] = result[d]
           /\ \/ /\ r = "failed" /\ state'[c] = "sent"
                 /\ tries'[c] = tries[c] + 1 /\ result'[c] = "none"
              \/ /\ state'[c] = "done" /\ tries'[c] = tries[c]
                 /\ result'[c] \in {r, result[c]}
  <1>1. /\ TypeOK /\ KyRetries \in Nat
        /\ state[c] \in {"sent", "served"} => result[c] = "none"
      BY BoundsAssumption DEF IInv, TypeOK, CallInv, Results
  <1>2. tries[c] \in 0..(KyRetries + 1) /\ state[c] \in {"sent", "served", "done"}
      BY <1>1 DEF TypeOK
  <1> QED
      BY <1>1, <1>2 DEF TypeOK, Hear, AsksAgain

\* The queue after the step is the queue before it, with or without the head.
\* Either way its entries were there, ...
LEMMA EntriesKept ==
    ASSUME IInv, queue' \in {queue, Tail(queue)}, queue' # queue => queue # <<>>
    PROVE  /\ queue' \in Seq(Query)
           /\ \A i \in DOMAIN queue' :
                /\ queue'[i] \in Query
                /\ \E j \in DOMAIN queue : queue'[i] = queue[j]
  <1>1. queue \in Seq(Query) /\ TypeOK
      BY DEF IInv, TypeOK
  <1>2. CASE queue' = queue
      BY <1>1, <1>2
  <1>3. CASE queue' = Tail(queue) /\ queue # <<>>
      BY <1>1, <1>3, TailEntries, TailKeepsEntries
  <1> QED
      BY <1>2, <1>3

\* ... and as many of them as before are equal to one that was not the head.
LEMMA CountKept ==
    ASSUME IInv, queue' \in {queue, Tail(queue)}, queue' # queue => queue # <<>>,
           NEW e, queue' # queue => Head(queue) # e
    PROVE  Count(queue', e) = Count(queue, e)
  <1>1. queue \in Seq(Query)
      BY DEF IInv, TypeOK
  <1>2. CASE queue' = Tail(queue) /\ queue # <<>> /\ Head(queue) # e
    <2>1. /\ Tail(queue) \in Seq(Query)
          /\ Count(queue, e) = Count(Tail(queue), e) + 0
        BY <1>1, <1>2, CountTail
    <2>2. Count(Tail(queue), e) \in Nat
        BY <2>1, CountType
    <2> QED
        BY <2>1, <2>2, <1>2
  <1> QED
      BY <1>2

\* An attempt of c that ends: its handler, if there is one, waits for nothing
\* any more, the head of the queue may have been its own, and c hears of r,
\* which is true.
LEMMA EndKeeps ==
    ASSUME IInv, NEW c \in Calls, NEW r \in Results \ {"none"},
           Hear({c}, r), state[c] # "idle",
           UNCHANGED <<server, database, outages, client, got, kind, guild>>,
           at' = [at EXCEPT ![c] = "none"],
           left' = [left EXCEPT ![c] = left'[c]], left'[c] \in {0, left[c]},
           again' = [again EXCEPT ![c] = again'[c]], again'[c] \in {0, again[c]},
           queue' \in {queue, Tail(queue)},
           queue' # queue => queue # <<>> /\ Head(queue).call = c,
           \/ accepted' = accepted
           \/ /\ at[c] = "scan"
              /\ accepted' = [accepted EXCEPT ![c] = @ + 1],
           r = "ok" /\ kind[c] = "blocks" => NoneOf(queue', c),
           r = "token" => guild[c],
           r = "scanned" => accepted'[c] > 0
    PROVE  IInv'
  <1>1. /\ TypeOK /\ CallInv /\ QueueInv /\ AnswersTrue /\ BudgetInv
        /\ queue \in Seq(Query)
      BY DEF IInv, TypeOK
  <1>2. /\ state' \in [Calls -> {"idle", "sent", "served", "done"}]
        /\ tries' \in [Calls -> 0..(KyRetries + 1)]
        /\ result' \in [Calls -> Results]
        /\ \A d \in Calls \ {c} : /\ state'[d] = state[d]
                                  /\ tries'[d] = tries[d]
                                  /\ result'[d] = result[d]
        /\ \/ /\ r = "failed" /\ state'[c] = "sent"
              /\ tries'[c] = tries[c] + 1 /\ result'[c] = "none"
           \/ /\ state'[c] = "done" /\ tries'[c] = tries[c]
              /\ result'[c] \in {r, result[c]}
      BY HeardOnce
  <1>3. queue' # queue => queue # <<>>
      OBVIOUS
  <1>4. /\ queue' \in Seq(Query)
        /\ \A i \in DOMAIN queue' :
             /\ queue'[i] \in Query
             /\ \E j \in DOMAIN queue : queue'[i] = queue[j]
      BY <1>3, EntriesKept
  <1>11. /\ at' \in [Calls -> Asks \cup Remote \cup {"none"}]
         /\ at'[c] = "none" /\ \A d \in Calls \ {c} : at'[d] = at[d]
      BY <1>1 DEF TypeOK
  <1>12. /\ left' \in [Calls -> 0..MaxProducers]
         /\ again' \in [Calls -> 0..GotRetries]
         /\ \A d \in Calls \ {c} : left'[d] = left[d] /\ again'[d] = again[d]
    <2>1. 0 \in 0..MaxProducers /\ 0 \in 0..GotRetries
        BY BoundsAssumption
    <2> QED
        BY <2>1, <1>1 DEF TypeOK
  <1>13. /\ accepted' \in [Calls -> Nat]
         /\ \A d \in Calls \ {c} : accepted'[d] = accepted[d]
         /\ \/ accepted'[c] = accepted[c]
            \/ at[c] = "scan" /\ accepted'[c] = accepted[c] + 1
    <2>1. accepted \in [Calls -> Nat]
        BY <1>1 DEF TypeOK
    <2>2. CASE accepted' = accepted
        BY <2>1, <2>2
    <2>3. CASE /\ at[c] = "scan"
               /\ accepted' = [accepted EXCEPT ![c] = @ + 1]
        BY <2>1, <2>3
    <2> QED
        BY <2>2, <2>3
  <1>5. TypeOK'
      BY <1>1, <1>2, <1>4, <1>11, <1>12, <1>13 DEF TypeOK
  <1>6. CallInv'
    <2> SUFFICES ASSUME NEW d \in Calls
                 PROVE  /\ state'[d] = "idle" <=> tries'[d] = 0
                        /\ at'[d] # "none" => /\ state'[d] \in {"served", "done"}
                                              /\ kind[d] = KindOf(at'[d])
                        /\ result'[d] # "none" => state'[d] = "done"
                        /\ result'[d] \notin {"none", "failed"} => at'[d] = "none"
        BY DEF CallInv, KindOf
    <2>1. CASE d = c
      <3>1. tries[c] \in Nat \ {0} /\ (result[c] # "none" => state[c] = "done")
          BY <1>1 DEF TypeOK, CallInv
      <3> QED
          BY <3>1, <2>1, <1>2, <1>11
    <2>2. CASE d # c
      <3>1. /\ state'[d] = state[d] /\ tries'[d] = tries[d]
            /\ at'[d] = at[d] /\ result'[d] = result[d]
          BY <2>2, <1>2, <1>11
      <3>2. /\ state[d] = "idle" <=> tries[d] = 0
            /\ at[d] # "none" => /\ state[d] \in {"served", "done"}
                                 /\ kind[d] = KindOf(at[d])
            /\ result[d] # "none" => state[d] = "done"
            /\ result[d] \notin {"none", "failed"} => at[d] = "none"
          BY <1>1 DEF CallInv
      <3> QED
          BY <3>1, <3>2
    <2> QED
        BY <2>1, <2>2
  <1>7. QueueInv'
    <2> SUFFICES ASSUME NEW i \in DOMAIN queue'
                 PROVE  LET q == queue'[i]
                        IN /\ q.try \in 1..tries'[q.call]
                           /\ q.try = tries'[q.call] =>
                                /\ state'[q.call] # "sent"
                                /\ at'[q.call] \in {"none", q.ask}
        BY DEF QueueInv
    <2>1. PICK j \in DOMAIN queue : queue'[i] = queue[j]
        BY <1>4
    <2>2. /\ queue[j] \in Query /\ queue[j].call \in Calls
          /\ queue[j].try \in 1..tries[queue[j].call]
          /\ queue[j].try = tries[queue[j].call] =>
                /\ state[queue[j].call] # "sent"
                /\ at[queue[j].call] \in {"none", queue[j].ask}
        BY <1>1, <1>4, <2>1 DEF QueueInv, Query
    <2>3. tries[c] \in Nat
        BY <1>1 DEF TypeOK
    <2> QED
        BY <1>2, <1>11, <2>1, <2>2, <2>3
  <1>8. NobodyWaitsInVain'
    <2> SUFFICES ASSUME NEW d \in Calls, at'[d] \in Asks
                 PROVE  Count(queue', Entry(d, tries'[d], at'[d]))
                            = IF at'[d] = "logos" THEN left'[d] ELSE 1
        BY WaitingCounted
    <2>1. /\ d # c /\ at'[d] = at[d] /\ left'[d] = left[d]
          /\ tries'[d] = tries[d]
        BY <1>2, <1>11, <1>12 DEF Asks
    <2>2. queue' # queue => Head(queue) # Entry(d, tries[d], at[d])
        BY <2>1 DEF Entry
    <2> QED
        BY <2>1, <2>2, <1>3, CountKept, WaitingCount
  <1>9. AnswersTrue'
    <2>1. BlocksComplete'
      <3> SUFFICES ASSUME NEW d \in Calls, kind[d] = "blocks", result'[d] = "ok"
                   PROVE  \A i \in DOMAIN queue' :
                              queue'[i] # Entry(d, tries'[d], "logos")
          BY DEF BlocksComplete, Waiting, Entry
      <3>1. CASE result'[d] = result[d] /\ tries'[d] = tries[d]
        <4>1. \A j \in DOMAIN queue : queue[j] # Entry(d, tries[d], "logos")
            BY <1>1, <3>1 DEF AnswersTrue, BlocksComplete, Waiting, Entry
        <4> QED
            BY <4>1, <3>1, <1>4
      <3>2. CASE d = c /\ r = "ok" /\ tries'[c] = tries[c]
          BY <3>2 DEF NoneOf, Entry
      <3> QED
          BY <3>1, <3>2, <1>2
    <2>2. TokensForGuilds'
        BY <1>1, <1>2 DEF AnswersTrue, TokensForGuilds
    <2>3. SuccessMeansQueued'
      <3> SUFFICES ASSUME NEW d \in Calls, result'[d] = "scanned"
                   PROVE  accepted'[d] > 0
          BY DEF SuccessMeansQueued
      <3>1. accepted[d] \in Nat /\ accepted'[d] >= accepted[d]
          BY <1>13, <1>1 DEF TypeOK
      <3>2. result[d] = "scanned" => accepted[d] > 0
          BY <1>1 DEF AnswersTrue, SuccessMeansQueued
      <3> QED
          BY <3>1, <3>2, <1>2, <1>13
    <2> QED
        BY <2>1, <2>2, <2>3 DEF AnswersTrue
  <1>10. BudgetInv'
    <2> SUFFICES ASSUME NEW d \in Calls PROVE accepted'[d] <= Attempts(d)'
        BY DEF BudgetInv
    <2> DEFINE G == 1 + GotRetries
    <2>1. /\ G \in Nat /\ accepted[d] \in Nat /\ tries[d] \in Nat
          /\ again[d] \in 0..GotRetries /\ accepted[d] <= Attempts(d)
        BY <1>1, BoundsAssumption DEF TypeOK, BudgetInv
    <2>2. CASE d # c
        BY <1>2, <1>11, <1>12, <1>13, <2>1, <2>2 DEF Attempts
    <2>3. CASE d = c
      <3>1. /\ state[c] # "idle" /\ tries[c] \in Nat \ {0}
            /\ at[c] = "scan" => state[c] # "sent"
          BY <1>1, <2>1, <2>3 DEF CallInv
      <3>2. tries[c] * G = (tries[c] - 1) * G + G
          BY <3>1, <2>1
      <3>3. accepted'[c] <= tries[c] * G
        <4>1. CASE at[c] = "scan"
          <5>1. accepted[c] <= (tries[c] - 1) * G + again[c]
              BY <4>1, <3>1, <2>1, <2>3 DEF Attempts
          <5>2. /\ accepted[c] \in Nat /\ again[c] \in Nat
                /\ again[c] + 1 <= G /\ G \in Nat
              BY <2>1, <2>3, BoundsAssumption
          <5>3. accepted'[c] <= accepted[c] + 1
              BY <1>13, <5>2
          <5>4. accepted'[c] \in Nat
              BY <1>13
          <5> DEFINE before == (tries[c] - 1) * G
          <5>5. before \in Nat /\ tries[c] * G = before + G
              BY <3>1, <3>2, <5>2
          <5>6. accepted[c] <= before + again[c]
              BY <5>1
          <5> HIDE DEF G, before
          <5> QED
              BY <5>2, <5>3, <5>4, <5>5, <5>6
        <4>2. CASE at[c] # "scan"
          <5>1. accepted[c] <= (tries[c] - 1) * G + G
              BY <4>2, <3>1, <2>1, <2>3 DEF Attempts
          <5> QED
              BY <4>2, <5>1, <3>2, <1>13
        <4> QED
            BY <4>1, <4>2
      <3>4. (tries[c] + 1) - 1 = tries[c]
          BY <3>1
      <3>5. Attempts(c)' = tries[c] * G
        <4>1. CASE state'[c] = "sent" /\ tries'[c] = tries[c] + 1
          <5>1. Attempts(c)' = (tries'[c] - 1) * G + 0
              BY <4>1, <1>11 DEF Attempts
          <5> QED
              BY <5>1, <4>1, <3>1, <3>4, <2>1
        <4>2. CASE state'[c] = "done" /\ tries'[c] = tries[c]
            BY <4>2, <1>11, <3>2 DEF Attempts
        <4> QED
            BY <4>1, <4>2, <1>2
      <3> QED
          BY <2>3, <3>3, <3>5
    <2> QED
        BY <2>2, <2>3
  <1> QED
      BY <1>5, <1>6, <1>7, <1>8, <1>9, <1>10 DEF IInv

-----------------------------------------------------------------------------
\* The steps after which a handler waits for something else

\* The handler of c goes on to wait for what: for n answers of the database,
\* to queries it adds to the queue, or for another service.  Of its attempt
\* the queue held at most the query whose answer brought it here.
LEMMA MoveKeeps ==
    ASSUME IInv, NEW c \in Calls, NEW what \in Asks \cup Remote, NEW n \in Nat,
           NEW base \in {queue, Tail(queue)}, base # queue => queue # <<>>,
           base # queue => Head(queue).call = c, NoneOf(base, c),
           \/ what \in Remote /\ queue' = base
           \/ /\ what \in Asks
              /\ queue' = base \o Copies(Entry(c, tries[c], what), n),
           IF what = "logos" THEN n \in 1..MaxProducers ELSE n = 1,
           kind[c] = KindOf(what), what = "scan" => state[c] = "sent",
           state' = [state EXCEPT ![c] = state'[c]],
           \/ state[c] = "sent" /\ state'[c] = "served"
           \/ at[c] # "none" /\ state'[c] = state[c],
           at' = [at EXCEPT ![c] = what],
           left' = [left EXCEPT ![c] = IF what = "logos" THEN n ELSE @],
           UNCHANGED <<process, request, again, tries, result, accepted>>
    PROVE  IInv'
  <1> DEFINE e == Entry(c, tries[c], what)
  <1>1. /\ TypeOK /\ CallInv /\ QueueInv /\ AnswersTrue /\ BudgetInv
        /\ queue \in Seq(Query)
      BY DEF IInv, TypeOK
  <1>2. /\ state' \in [Calls -> {"idle", "sent", "served", "done"}]
        /\ state[c] \in {"sent", "served", "done"}
        /\ state'[c] \in {"served", "done"}
        /\ \A d \in Calls \ {c} : state'[d] = state[d]
    <2>1. state[c] \in {"sent", "served", "done"}
        BY <1>1 DEF CallInv
    <2>2. state'[c] \in {"served", "done"}
        BY <1>1 DEF CallInv
    <2> QED
        BY <1>1, <2>1, <2>2 DEF TypeOK
  <1>3. result[c] \in {"none", "failed"}
      BY <1>1 DEF CallInv
  <1>4. /\ at' \in [Calls -> Asks \cup Remote \cup {"none"}]
        /\ at'[c] = what /\ \A d \in Calls \ {c} : at'[d] = at[d]
      BY <1>1 DEF TypeOK
  <1>5. /\ left' \in [Calls -> 0..MaxProducers]
        /\ what = "logos" => left'[c] = n
        /\ \A d \in Calls \ {c} : left'[d] = left[d]
      BY <1>1, BoundsAssumption DEF TypeOK
  <1>6. base \in Seq(Query)
      BY <1>1, TailEntries
  <1>7. what \in Asks => e \in Query
      BY <1>1 DEF Entry, Query, TypeOK
  <1>8. \A i \in DOMAIN base :
           /\ base[i] \in Query
           /\ \E j \in DOMAIN queue : base[i] = queue[j]
    <2>1. CASE base = queue
        BY <1>1, <2>1
    <2>2. CASE base = Tail(queue) /\ queue # <<>>
        BY <1>1, <2>2, TailEntries, TailKeepsEntries
    <2> QED
        BY <2>1, <2>2
  <1>9. /\ queue' \in Seq(Query)
        /\ \A i \in DOMAIN queue' : \/ \E j \in DOMAIN base : queue'[i] = base[j]
                                    \/ what \in Asks /\ queue'[i] = e
    <2>1. CASE what \in Remote /\ queue' = base
        BY <1>6, <2>1
    <2>2. CASE /\ what \in Asks
               /\ queue' = base \o Copies(e, n)
      <3>1. Copies(e, n) \in Seq(Query)
          BY <1>7, <2>2 DEF Copies
      <3> HIDE DEF e
      <3> QED
          BY <1>6, <2>2, <3>1 DEF Copies
    <2> QED
        BY <2>1, <2>2
  <1>10. TypeOK'
      BY <1>1, <1>2, <1>4, <1>5, <1>9 DEF TypeOK, process, request
  <1>11. CallInv'
    <2> SUFFICES ASSUME NEW d \in Calls
                 PROVE  /\ state'[d] = "idle" <=> tries[d] = 0
                        /\ at'[d] # "none" => /\ state'[d] \in {"served", "done"}
                                              /\ kind[d] = KindOf(at'[d])
                        /\ result[d] # "none" => state'[d] = "done"
                        /\ result[d] \notin {"none", "failed"} => at'[d] = "none"
        BY DEF CallInv, KindOf, process, request
    <2>1. /\ state[d] = "idle" <=> tries[d] = 0
          /\ at[d] # "none" => /\ state[d] \in {"served", "done"}
                               /\ kind[d] = KindOf(at[d])
          /\ result[d] # "none" => state[d] = "done"
          /\ result[d] \notin {"none", "failed"} => at[d] = "none"
        BY <1>1 DEF CallInv
    <2>2. CASE d = c
        BY <2>1, <2>2, <1>2, <1>3, <1>4
    <2>3. CASE d # c
        BY <2>1, <2>3, <1>2, <1>4
    <2> QED
        BY <2>2, <2>3
  <1>12. QueueInv'
    <2> SUFFICES ASSUME NEW i \in DOMAIN queue'
                 PROVE  LET q == queue'[i]
                        IN /\ q.try \in 1..tries[q.call]
                           /\ q.try = tries[q.call] =>
                                /\ state'[q.call] # "sent"
                                /\ at'[q.call] \in {"none", q.ask}
        BY DEF QueueInv
    <2>1. CASE what \in Asks /\ queue'[i] = e
      <3>1. tries[c] \in 1..tries[c]
          BY <1>1, <1>2 DEF TypeOK, CallInv
      <3> QED
          BY <2>1, <3>1, <1>2, <1>4 DEF Entry
    <2>2. CASE \E j \in DOMAIN base : queue'[i] = base[j]
      <3>1. PICK j \in DOMAIN base : queue'[i] = base[j]
          BY <2>2
      <3>2. PICK k \in DOMAIN queue : base[j] = queue[k]
          BY <1>8
      <3>3. /\ base[j].call \in Calls
            /\ base[j].try \in 1..tries[base[j].call]
            /\ base[j].try = tries[base[j].call] =>
                  /\ state[base[j].call] # "sent"
                  /\ at[base[j].call] \in {"none", base[j].ask}
          BY <1>1, <1>8, <3>2 DEF QueueInv, Query
      <3>4. base[j].try = tries[base[j].call] => base[j].call # c
          BY DEF NoneOf
      <3> QED
          BY <3>1, <3>3, <3>4, <1>2, <1>4
    <2> QED
        BY <1>9, <2>1, <2>2
  <1>13. NobodyWaitsInVain'
    <2> SUFFICES ASSUME NEW d \in Calls, at'[d] \in Asks
                 PROVE  Count(queue', Entry(d, tries[d], at'[d]))
                            = IF at'[d] = "logos" THEN left'[d] ELSE 1
        BY WaitingCounted
    <2>1. CASE d = c
      <3>1. /\ what \in Asks /\ what \notin Remote
            /\ queue' = base \o Copies(e, n)
          BY <2>1, <1>4 DEF Asks, Remote
      <3>2. Count(base, e) = 0
          BY <1>6, NoneCounted
      <3>3. Count(queue', e) = Count(base, e) + n
        <4> HIDE DEF e
        <4> QED
            BY <1>6, <1>7, <3>1, CountCopies
      <3> QED
          BY <2>1, <3>2, <3>3, <1>4, <1>5
    <2>2. CASE d # c
      <3> DEFINE f == Entry(d, tries[d], at[d])
      <3>1. /\ at'[d] = at[d] /\ left'[d] = left[d] /\ f # e
            /\ base # queue => Head(queue) # f
          BY <2>2, <1>4, <1>5 DEF Entry
      <3>2. Count(queue', f) = Count(base, f)
        <4>1. CASE what \in Remote /\ queue' = base
            BY <4>1
        <4>2. CASE /\ what \in Asks
                   /\ queue' = base \o Copies(e, n)
          <5> HIDE DEF e, f
          <5>1. Count(queue', f) = Count(base, f) + 0
              BY <4>2, <3>1, <1>6, <1>7, CountCopies
          <5>2. Count(base, f) \in Nat
              BY <1>6, CountType
          <5> QED
              BY <5>1, <5>2
        <4> QED
            BY <4>1, <4>2
      <3>3. Count(base, f) = Count(queue, f)
        <4>1. CASE base = queue
            BY <4>1
        <4>2. CASE base = Tail(queue) /\ queue # <<>> /\ Head(queue) # f
          <5>1. /\ Tail(queue) \in Seq(Query)
                /\ Count(queue, f) = Count(Tail(queue), f) + 0
              BY <1>1, <4>2, CountTail
          <5>2. Count(Tail(queue), f) \in Nat
              BY <5>1, CountType
          <5> QED
              BY <4>2, <5>1, <5>2
        <4> QED
            BY <4>1, <4>2, <3>1
      <3> QED
          BY <3>1, <3>2, <3>3, WaitingCount
    <2> QED
        BY <2>1, <2>2
  <1>14. AnswersTrue'
    <2>1. BlocksComplete'
      <3> SUFFICES ASSUME NEW d \in Calls, kind[d] = "blocks", result[d] = "ok",
                          NEW i \in DOMAIN queue',
                          queue'[i] = Entry(d, tries[d], "logos")
                   PROVE  FALSE
          BY DEF BlocksComplete, Waiting, Entry, request
      <3>1. \A k \in DOMAIN queue : queue[k] # Entry(d, tries[d], "logos")
          BY <1>1 DEF AnswersTrue, BlocksComplete, Waiting, Entry
      <3>2. d # c
          BY <1>3
      <3>3. queue'[i] # e
          BY <3>2 DEF Entry
      <3> QED
          BY <3>1, <3>3, <1>8, <1>9
    <2> QED
        BY <2>1, <1>1 DEF AnswersTrue, TokensForGuilds, SuccessMeansQueued,
                          request
  <1>15. BudgetInv'
    <2> SUFFICES ASSUME NEW d \in Calls PROVE accepted[d] <= Attempts(d)'
        BY DEF BudgetInv
    <2> DEFINE G == 1 + GotRetries
               before == (tries[d] - 1) * G
    <2>1. /\ G \in Nat /\ accepted[d] \in Nat /\ tries[d] \in Nat
          /\ again[d] \in 0..GotRetries /\ accepted[d] <= Attempts(d)
          /\ again[d] <= G /\ GotRetries \in Nat
        BY <1>1, BoundsAssumption DEF TypeOK, BudgetInv
    <2>2. before \in Int
        BY <2>1
    <2>3. Attempts(d) = IF state[d] = "idle" THEN 0
                        ELSE before + IF at[d] = "scan" THEN again[d]
                                      ELSE IF state[d] = "sent" THEN 0 ELSE G
        BY DEF Attempts
    <2>4. Attempts(d)' = IF state'[d] = "idle" THEN 0
                         ELSE before + IF at'[d] = "scan" THEN again[d]
                                       ELSE IF state'[d] = "sent" THEN 0 ELSE G
        BY DEF Attempts
    <2> HIDE DEF before, G
    <2>5. CASE d # c
        BY <1>2, <1>4, <2>1, <2>3, <2>4, <2>5
    <2>6. CASE d = c
      <3>1. state[c] = "sent" => at[c] # "scan"
          BY <1>1 DEF CallInv
      <3>2. at[c] # "scan" => state[c] = "sent" \/ what # "scan"
          OBVIOUS
      <3>3. accepted[d] <= before + IF at[d] = "scan" THEN again[d]
                                    ELSE IF state[d] = "sent" THEN 0 ELSE G
          BY <2>1, <2>3, <2>6, <1>2
      <3>4. Attempts(d)' = before + IF what = "scan" THEN again[d] ELSE G
          BY <2>4, <2>6, <1>2, <1>4
      <3> QED
          BY <2>1, <2>2, <2>6, <3>1, <3>2, <3>3, <3>4
    <2> QED
        BY <2>5, <2>6
  <1> QED
      BY <1>10, <1>11, <1>12, <1>13, <1>14, <1>15 DEF IInv

-----------------------------------------------------------------------------
\* The other steps

\* An answer that leaves its handler where it is: nobody waits for it, or it is
\* a logo and others are still to come.
LEMMA PopKeeps ==
    ASSUME IInv, queue # <<>>, Pop, left' \in [Calls -> 0..MaxProducers],
           NobodyWaitsInVain',
           UNCHANGED <<process, request, at, again, state, tries, result, accepted>>
    PROVE  IInv'
  <1>1. /\ TypeOK /\ CallInv /\ QueueInv /\ AnswersTrue /\ BudgetInv
        /\ queue \in Seq(Query)
      BY DEF IInv, TypeOK
  <1>2. /\ queue' \in Seq(Query)
        /\ \A i \in DOMAIN queue' :
             /\ queue'[i] \in Query
             /\ \E j \in DOMAIN queue : queue'[i] = queue[j]
      BY EntriesKept DEF Pop
  <1>3. TypeOK'
      BY <1>1, <1>2 DEF TypeOK, process, request
  <1>4. CallInv'
      BY <1>1 DEF CallInv, process, request
  <1>5. QueueInv'
    <2> SUFFICES ASSUME NEW i \in DOMAIN queue'
                 PROVE  LET q == queue'[i]
                        IN /\ q.try \in 1..tries[q.call]
                           /\ q.try = tries[q.call] =>
                                /\ state[q.call] # "sent"
                                /\ at[q.call] \in {"none", q.ask}
        BY DEF QueueInv
    <2> QED
        BY <1>1, <1>2 DEF QueueInv
  <1>6. AnswersTrue'
    <2>1. BlocksComplete'
      <3> SUFFICES ASSUME NEW d \in Calls, kind[d] = "blocks", result[d] = "ok",
                          NEW i \in DOMAIN queue',
                          queue'[i] = Entry(d, tries[d], "logos")
                   PROVE  FALSE
          BY DEF BlocksComplete, Waiting, Entry, request
      <3>1. \A k \in DOMAIN queue : queue[k] # Entry(d, tries[d], "logos")
          BY <1>1 DEF AnswersTrue, BlocksComplete, Waiting, Entry
      <3> QED
          BY <3>1, <1>2
    <2> QED
        BY <2>1, <1>1 DEF AnswersTrue, TokensForGuilds, SuccessMeansQueued,
                          request
  <1>7. BudgetInv'
      BY <1>1 DEF BudgetInv, Attempts
  <1> QED
      BY <1>3, <1>4, <1>5, <1>6, <1>7 DEF IInv

\* An answer that nobody waits for is thrown away.
LEMMA UnusedAnswerKeeps ==
    ASSUME IInv, UnusedAnswer
    PROVE  IInv'
  <1>1. NobodyWaitsInVain'
    <2> SUFFICES ASSUME NEW d \in Calls, at[d] \in Asks
                 PROVE  Count(queue', Entry(d, tries[d], at[d]))
                            = IF at[d] = "logos" THEN left[d] ELSE 1
        BY WaitingCounted DEF UnusedAnswer
    <2>1. Head(queue) # Entry(d, tries[d], at[d])
        BY DEF UnusedAnswer, Entry
    <2>2. queue' \in {queue, Tail(queue)} /\ queue # <<>>
        BY DEF UnusedAnswer, Pop
    <2>3. Count(queue', Entry(d, tries[d], at[d]))
              = Count(queue, Entry(d, tries[d], at[d]))
        BY <2>1, <2>2, CountKept
    <2> QED
        BY <2>3, WaitingCount
  <1> QED
      BY <1>1, PopKeeps DEF UnusedAnswer, IInv, TypeOK

\* One of several logos: one query less, and one answer less to wait for.
LEMMA LogoKeeps ==
    ASSUME IInv, NEW c \in Calls, Answers(c, "logos"), Pop, left[c] > 1,
           left' = [left EXCEPT ![c] = @ - 1],
           UNCHANGED <<process, request, at, again, state, tries, result, accepted>>
    PROVE  IInv'
  <1>1. /\ queue # <<>> /\ at[c] = "logos" /\ TypeOK /\ queue \in Seq(Query)
        /\ Head(queue) = Entry(c, tries[c], "logos")
      BY DEF Answers, Entry, IInv, TypeOK
  <1>2. /\ left' \in [Calls -> 0..MaxProducers] /\ left'[c] = left[c] - 1
        /\ \A d \in Calls \ {c} : left'[d] = left[d]
    <2>1. left \in [Calls -> 0..MaxProducers] /\ MaxProducers \in Nat
        BY <1>1, BoundsAssumption DEF TypeOK
    <2>2. left[c] \in 0..MaxProducers /\ left[c] - 1 \in 0..MaxProducers
        BY <2>1
    <2> QED
        BY <2>1, <2>2
  <1>3. NobodyWaitsInVain'
    <2> SUFFICES ASSUME NEW d \in Calls, at[d] \in Asks
                 PROVE  Count(queue', Entry(d, tries[d], at[d]))
                            = IF at[d] = "logos" THEN left'[d] ELSE 1
        BY WaitingCounted
    <2>1. CASE d = c
      <3> DEFINE e == Entry(c, tries[c], "logos")
      <3>1. Count(queue, e) = left[c]
          BY <1>1, WaitingCount DEF Asks
      <3> HIDE DEF e
      <3>2. /\ Tail(queue) \in Seq(Query)
            /\ Count(queue, e) = Count(Tail(queue), e) + 1
          BY <1>1, CountTail DEF e
      <3>3. Count(Tail(queue), e) \in Nat
          BY <3>2, CountType
      <3>4. Count(queue', e) = left'[c]
          BY <3>1, <3>2, <3>3, <1>2 DEF Pop
      <3> QED
          BY <3>4, <2>1, <1>1 DEF e
    <2>2. CASE d # c
      <3>1. Head(queue) # Entry(d, tries[d], at[d])
          BY <1>1, <2>2 DEF Entry
      <3>2. queue' \in {queue, Tail(queue)}
          BY DEF Pop
      <3>3. Count(queue', Entry(d, tries[d], at[d]))
                = Count(queue, Entry(d, tries[d], at[d]))
          BY <3>1, <3>2, <1>1, CountKept
      <3> QED
          BY <3>3, <2>2, <1>2, WaitingCount
    <2> QED
        BY <2>1, <2>2
  <1> QED
      BY <1>1, <1>2, <1>3, PopKeeps

\* got asks the re-scan service once more, whether or not the last request was
\* queued.
LEMMA AgainKeeps ==
    ASSUME IInv, NEW c \in Calls, at[c] = "scan", again[c] < GotRetries,
           NEW queued \in BOOLEAN,
           accepted' = [accepted EXCEPT ![c] = IF queued THEN @ + 1 ELSE @],
           again' = [again EXCEPT ![c] = @ + 1],
           UNCHANGED <<process, request, queue, at, left, state, tries, result>>
    PROVE  IInv'
  <1>1. /\ TypeOK /\ CallInv /\ QueueInv /\ AnswersTrue /\ BudgetInv
        /\ NobodyWaitsInVain
      BY DEF IInv
  <1>2. /\ again' \in [Calls -> 0..GotRetries] /\ again'[c] = again[c] + 1
        /\ \A d \in Calls \ {c} : again'[d] = again[d]
    <2>1. again \in [Calls -> 0..GotRetries] /\ GotRetries \in Nat
        BY <1>1, BoundsAssumption DEF TypeOK
    <2> QED
        BY <2>1
  <1>3. /\ accepted' \in [Calls -> Nat] /\ accepted[c] \in Nat
        /\ accepted'[c] \in {accepted[c], accepted[c] + 1}
        /\ \A d \in Calls \ {c} : accepted'[d] = accepted[d]
      BY <1>1 DEF TypeOK
  <1>4. TypeOK'
      BY <1>1, <1>2, <1>3 DEF TypeOK, process, request
  <1>5. CallInv' /\ QueueInv' /\ NobodyWaitsInVain'
      BY <1>1 DEF CallInv, QueueInv, NobodyWaitsInVain, Waiting, process, request
  <1>6. AnswersTrue'
      BY <1>1, <1>3 DEF AnswersTrue, BlocksComplete, TokensForGuilds,
                        SuccessMeansQueued, Waiting, request
  <1>7. BudgetInv'
    <2> SUFFICES ASSUME NEW d \in Calls PROVE accepted'[d] <= Attempts(d)'
        BY DEF BudgetInv
    <2> DEFINE before == (tries[d] - 1) * (1 + GotRetries)
    <2>1. before \in Int
        BY <1>1, BoundsAssumption DEF TypeOK
    <2>2. accepted[d] <= Attempts(d)
        BY <1>1 DEF BudgetInv
    <2>3. CASE d = c
      <3>1. state[c] # "idle"
          BY <1>1 DEF CallInv
      <3>2. Attempts(c) = before + again[c] /\ Attempts(c)' = before + again'[c]
          BY <2>3, <3>1 DEF Attempts
      <3>3. again[c] \in Nat
          BY <1>1, BoundsAssumption DEF TypeOK
      <3> HIDE DEF before
      <3> QED
          BY <2>1, <2>2, <2>3, <3>2, <3>3, <1>2, <1>3
    <2>4. CASE d # c
        BY <2>2, <2>4, <1>2, <1>3 DEF Attempts
    <2> QED
        BY <2>3, <2>4
  <1> QED
      BY <1>4, <1>5, <1>6, <1>7 DEF IInv

\* Steps of the process and of the database that no handler notices.
LEMMA ProcessKeeps ==
    ASSUME IInv, Restart \/ Connect \/ ImportGot \/ DatabaseFails \/ DatabaseReturns
    PROVE  IInv'
  <1>1. /\ TypeOK /\ CallInv /\ QueueInv /\ AnswersTrue /\ BudgetInv
        /\ NobodyWaitsInVain
      BY DEF IInv
  <1>2. UNCHANGED <<request, queue, at, left, again, state, tries, result, accepted>>
      BY DEF Restart, Connect, ImportGot, DatabaseFails, DatabaseReturns
  <1>3. TypeOK'
    <2>1. outages' \in 0..MaxOutages
        BY <1>1, BoundsAssumption
           DEF TypeOK, Restart, Connect, ImportGot, DatabaseFails, DatabaseReturns
    <2> QED
        BY <2>1, <1>1, <1>2
           DEF TypeOK, request, Restart, Connect, ImportGot, DatabaseFails,
               DatabaseReturns
  <1>4. CallInv' /\ QueueInv' /\ NobodyWaitsInVain'
      BY <1>1, <1>2 DEF CallInv, QueueInv, NobodyWaitsInVain, Waiting, request
  <1>5. AnswersTrue' /\ BudgetInv'
      BY <1>1, <1>2 DEF AnswersTrue, BlocksComplete, TokensForGuilds, Attempts,
                        SuccessMeansQueued, Waiting, BudgetInv, request
  <1> QED
      BY <1>3, <1>4, <1>5 DEF IInv

\* A page makes a call.
LEMMA SendKeeps ==
    ASSUME IInv, NEW c \in Calls, Send(c)
    PROVE  IInv'
  <1>1. /\ TypeOK /\ CallInv /\ QueueInv /\ AnswersTrue /\ BudgetInv
        /\ NobodyWaitsInVain
      BY DEF IInv
  <1>2. /\ state[c] = "idle" /\ tries[c] = 0 /\ at[c] = "none"
        /\ result[c] = "none"
      BY <1>1 DEF CallInv, Send
  <1>3. /\ state' \in [Calls -> {"idle", "sent", "served", "done"}]
        /\ state'[c] = "sent" /\ \A d \in Calls \ {c} : state'[d] = state[d]
      BY <1>1 DEF Send, TypeOK
  <1>4. /\ tries' \in [Calls -> 0..(KyRetries + 1)]
        /\ tries'[c] = 1 /\ \A d \in Calls \ {c} : tries'[d] = tries[d]
      BY <1>1, BoundsAssumption DEF Send, TypeOK
  <1>5. TypeOK'
      BY <1>1, <1>3, <1>4 DEF Send, TypeOK, process, request
  <1>6. CallInv'
    <2> SUFFICES ASSUME NEW d \in Calls
                 PROVE  /\ state'[d] = "idle" <=> tries'[d] = 0
                        /\ at[d] # "none" => /\ state'[d] \in {"served", "done"}
                                             /\ kind[d] = KindOf(at[d])
                        /\ result[d] # "none" => state'[d] = "done"
                        /\ result[d] \notin {"none", "failed"} => at[d] = "none"
        BY DEF CallInv, Send, request
    <2>1. CASE d = c
        BY <2>1, <1>2, <1>3, <1>4
    <2>2. CASE d # c
        BY <2>2, <1>1, <1>3, <1>4 DEF CallInv
    <2> QED
        BY <2>1, <2>2
  <1>7. \A i \in DOMAIN queue :
            /\ queue[i] \in Query /\ queue[i].call # c
            /\ queue[i].try \in 1..tries[queue[i].call]
    <2> SUFFICES ASSUME NEW i \in DOMAIN queue
                 PROVE  /\ queue[i] \in Query /\ queue[i].call # c
                        /\ queue[i].try \in 1..tries[queue[i].call]
        OBVIOUS
    <2>1. queue[i] \in Query /\ queue[i].try \in 1..tries[queue[i].call]
        BY <1>1 DEF QueueInv, TypeOK
    <2>2. queue[i].call # c
        BY <2>1, <1>2
    <2> QED
        BY <2>1, <2>2
  <1>8. QueueInv'
    <2> SUFFICES ASSUME NEW i \in DOMAIN queue
                 PROVE  LET q == queue[i]
                        IN /\ q.try \in 1..tries'[q.call]
                           /\ q.try = tries'[q.call] =>
                                /\ state'[q.call] # "sent"
                                /\ at[q.call] \in {"none", q.ask}
        BY DEF QueueInv, Send
    <2>1. queue[i].call \in Calls \ {c}
        BY <1>7 DEF Query
    <2> QED
        BY <2>1, <1>1, <1>3, <1>4 DEF QueueInv
  <1>9. NobodyWaitsInVain'
    <2> SUFFICES ASSUME NEW d \in Calls, at[d] \in Asks
                 PROVE  Count(queue, Entry(d, tries'[d], at[d]))
                            = IF at[d] = "logos" THEN left[d] ELSE 1
        BY WaitingCounted DEF Send
    <2>1. tries'[d] = tries[d]
        BY <1>2, <1>4 DEF Asks
    <2> QED
        BY <2>1, WaitingCount
  <1>10. AnswersTrue'
    <2>1. BlocksComplete'
      <3> SUFFICES ASSUME NEW d \in Calls, kind[d] = "blocks", result[d] = "ok"
                   PROVE  Waiting(d, "logos")' = {}
          BY DEF BlocksComplete, Send, request
      <3>1. tries'[d] = tries[d]
          BY <1>2, <1>4
      <3> QED
          BY <3>1, <1>1 DEF AnswersTrue, BlocksComplete, Waiting, Send
    <2> QED
        BY <2>1, <1>1 DEF AnswersTrue, TokensForGuilds, SuccessMeansQueued,
                          Send, request
  <1>11. BudgetInv'
    <2> SUFFICES ASSUME NEW d \in Calls PROVE accepted[d] <= Attempts(d)'
        BY DEF BudgetInv, Send
    <2>1. accepted[d] <= Attempts(d)
        BY <1>1 DEF BudgetInv
    <2>2. CASE d = c
      <3>1. accepted[c] <= 0
          BY <2>1, <2>2, <1>2 DEF Attempts
      <3>2. Attempts(c)' = 0 * (1 + GotRetries) + 0
          BY <1>2, <1>3, <1>4 DEF Attempts, Send
      <3> QED
          BY <3>1, <3>2, <2>2, BoundsAssumption
    <2>3. CASE d # c
        BY <2>1, <2>3, <1>3, <1>4 DEF Attempts, Send
    <2> QED
        BY <2>2, <2>3
  <1> QED
      BY <1>5, <1>6, <1>8, <1>9, <1>10, <1>11 DEF IInv

\* A page stops waiting; the handler, if there is one, goes on.
LEMMA GiveUpKeeps ==
    ASSUME IInv, NEW c \in Calls, GiveUp(c)
    PROVE  IInv'
  <1>1. /\ TypeOK /\ CallInv /\ QueueInv /\ AnswersTrue /\ BudgetInv
        /\ NobodyWaitsInVain
      BY DEF IInv
  <1>2. /\ state' \in [Calls -> {"idle", "sent", "served", "done"}]
        /\ state[c] \in {"sent", "served"} /\ state'[c] = "done"
        /\ \A d \in Calls \ {c} : state'[d] = state[d]
      BY <1>1 DEF GiveUp, TypeOK
  <1>3. /\ result' \in [Calls -> Results]
        /\ result'[c] = "failed" /\ \A d \in Calls \ {c} : result'[d] = result[d]
      BY <1>1 DEF GiveUp, TypeOK, Results
  <1>4. TypeOK'
      BY <1>1, <1>2, <1>3 DEF GiveUp, TypeOK, process, request
  <1>5. CallInv'
    <2> SUFFICES ASSUME NEW d \in Calls
                 PROVE  /\ state'[d] = "idle" <=> tries[d] = 0
                        /\ at[d] # "none" => /\ state'[d] \in {"served", "done"}
                                             /\ kind[d] = KindOf(at[d])
                        /\ result'[d] # "none" => state'[d] = "done"
                        /\ result'[d] \notin {"none", "failed"} => at[d] = "none"
        BY DEF CallInv, GiveUp, request
    <2>1. CASE d = c
        BY <2>1, <1>1, <1>2, <1>3 DEF CallInv
    <2>2. CASE d # c
        BY <2>2, <1>1, <1>2, <1>3 DEF CallInv
    <2> QED
        BY <2>1, <2>2
  <1>6. QueueInv'
    <2> SUFFICES ASSUME NEW i \in DOMAIN queue
                 PROVE  LET q == queue[i]
                        IN /\ q.try \in 1..tries[q.call]
                           /\ q.try = tries[q.call] =>
                                /\ state'[q.call] # "sent"
                                /\ at[q.call] \in {"none", q.ask}
        BY DEF QueueInv, GiveUp
    <2>1. queue[i] \in Query
        BY <1>1 DEF TypeOK
    <2>2. queue[i].call \in Calls
        BY <2>1 DEF Query
    <2> QED
        BY <2>2, <1>1, <1>2 DEF QueueInv
  <1>7. NobodyWaitsInVain'
      BY <1>1 DEF NobodyWaitsInVain, Waiting, GiveUp
  <1>8. AnswersTrue'
      BY <1>1, <1>3 DEF AnswersTrue, BlocksComplete, TokensForGuilds, Waiting,
                        SuccessMeansQueued, GiveUp, request
  <1>9. BudgetInv'
    <2> SUFFICES ASSUME NEW d \in Calls PROVE accepted[d] <= Attempts(d)'
        BY DEF BudgetInv, GiveUp
    <2> DEFINE before == (tries[d] - 1) * (1 + GotRetries)
    <2>1. before \in Int /\ accepted[d] \in Nat /\ GotRetries \in Nat
        BY <1>1, BoundsAssumption DEF TypeOK
    <2>2. accepted[d] <= Attempts(d)
        BY <1>1 DEF BudgetInv
    <2>3. CASE d = c
      <3>1. accepted[c] <= before + IF at[c] = "scan" THEN again[c]
                                    ELSE IF state[c] = "sent" THEN 0
                                    ELSE 1 + GotRetries
          BY <2>2, <2>3, <1>2 DEF Attempts
      <3>2. Attempts(c)' = before + IF at[c] = "scan" THEN again[c]
                                    ELSE 1 + GotRetries
          BY <2>3, <1>2 DEF Attempts, GiveUp
      <3> HIDE DEF before
      <3>3. again[c] \in Nat
          BY <1>1, BoundsAssumption DEF TypeOK
      <3> QED
          BY <2>1, <2>3, <3>1, <3>2, <3>3
    <2>4. CASE d # c
        BY <2>2, <2>4, <1>2 DEF Attempts, GiveUp
    <2> QED
        BY <2>3, <2>4
  <1> QED
      BY <1>4, <1>5, <1>6, <1>7, <1>8, <1>9 DEF IInv

\* While the process is down nginx answers.
LEMMA RefuseKeeps ==
    ASSUME IInv, NEW c \in Calls, Refuse(c)
    PROVE  IInv'
  <1>1. TypeOK /\ CallInv /\ state[c] = "sent" /\ at[c] = "none"
      BY DEF IInv, CallInv, Refuse
  <1>2. /\ at' = [at EXCEPT ![c] = "none"]
        /\ left' = [left EXCEPT ![c] = left'[c]] /\ left'[c] = left[c]
        /\ again' = [again EXCEPT ![c] = again'[c]] /\ again'[c] = again[c]
      BY <1>1 DEF TypeOK, Refuse
  <1> QED
      BY <1>1, <1>2, EndKeeps DEF Refuse, process, request, Results

\* The end of the process ends every attempt that was being served, and with
\* the queue and the handlers everything that was being waited for.
LEMMA CrashKeeps ==
    ASSUME IInv, Crash
    PROVE  IInv'
  <1>1. TypeOK /\ CallInv /\ AnswersTrue /\ BudgetInv
      BY DEF IInv
  <1>2. /\ server' = "down" /\ client' = "connecting" /\ got' = FALSE
        /\ queue' = <<>> /\ queue' \in Seq(Query) /\ DOMAIN queue' = {}
        /\ at' = [c \in Calls |-> "none"]
        /\ left' = [c \in Calls |-> 0] /\ again' = [c \in Calls |-> 0]
        /\ UNCHANGED <<database, outages, kind, guild, accepted>>
      BY DEF Crash, request
  <1>3. /\ left' \in [Calls -> 0..MaxProducers] /\ again' \in [Calls -> 0..GotRetries]
        /\ at' \in [Calls -> Asks \cup Remote \cup {"none"}]
      BY <1>2, BoundsAssumption
  <1>4. /\ state' \in [Calls -> {"idle", "sent", "served", "done"}]
        /\ tries' \in [Calls -> 0..(KyRetries + 1)]
        /\ result' \in [Calls -> Results]
      BY <1>1, BoundsAssumption DEF Crash, Hear, AsksAgain, TypeOK, Results
  <1>5. \A c \in Calls :
          \/ /\ state'[c] = state[c] /\ state[c] # "served"
             /\ tries'[c] = tries[c] /\ result'[c] = result[c]
          \/ /\ state[c] = "served" /\ state'[c] = "sent"
             /\ tries'[c] = tries[c] + 1 /\ result'[c] = result[c]
          \/ /\ state[c] = "served" /\ state'[c] = "done"
             /\ tries'[c] = tries[c] /\ result'[c] = "failed"
      BY DEF Crash, Hear
  <1>6. TypeOK'
      BY <1>1, <1>2, <1>3, <1>4 DEF TypeOK
  <1>7. CallInv'
    <2> SUFFICES ASSUME NEW c \in Calls
                 PROVE  /\ state'[c] = "idle" <=> tries'[c] = 0
                        /\ result'[c] # "none" => state'[c] = "done"
        BY <1>2 DEF CallInv
    <2>1. /\ state[c] = "idle" <=> tries[c] = 0
          /\ result[c] # "none" => state[c] = "done"
          /\ tries[c] \in Nat
        BY <1>1, BoundsAssumption DEF CallInv, TypeOK
    <2> QED
        BY <2>1, <1>5
  <1>8. QueueInv' /\ NobodyWaitsInVain'
      BY <1>2 DEF QueueInv, NobodyWaitsInVain, Asks
  <1>9. AnswersTrue'
      BY <1>1, <1>2, <1>5 DEF AnswersTrue, BlocksComplete, TokensForGuilds,
                              SuccessMeansQueued, Waiting
  <1>10. BudgetInv'
    <2> SUFFICES ASSUME NEW c \in Calls PROVE accepted[c] <= Attempts(c)'
        BY <1>2 DEF BudgetInv
    <2> DEFINE G == 1 + GotRetries
               before == (tries[c] - 1) * G
    <2>1. /\ before \in Int /\ accepted[c] \in Nat /\ GotRetries \in Nat
          /\ G = 1 + GotRetries /\ again[c] \in 0..GotRetries
          /\ tries[c] \in Nat
        BY <1>1, BoundsAssumption DEF TypeOK
    <2>2. accepted[c] <= IF state[c] = "idle" THEN 0
                         ELSE before + IF at[c] = "scan" THEN again[c]
                                       ELSE IF state[c] = "sent" THEN 0 ELSE G
        BY <1>1 DEF BudgetInv, Attempts
    <2>3. at[c] # "none" => state[c] \in {"served", "done"}
        BY <1>1 DEF CallInv
    <2>4. Attempts(c)' = IF state'[c] = "idle" THEN 0
                         ELSE (tries'[c] - 1) * G
                              + IF state'[c] = "sent" THEN 0 ELSE G
        BY <1>2 DEF Attempts
    <2>5. CASE tries'[c] = tries[c]
      <3>1. Attempts(c)' = IF state'[c] = "idle" THEN 0
                           ELSE before + IF state'[c] = "sent" THEN 0 ELSE G
          BY <2>4, <2>5
      <3>2. \/ state'[c] = state[c] /\ state[c] # "served"
            \/ state[c] = "served" /\ state'[c] = "done"
          BY <1>5, <2>1, <2>5
      <3>3. G \in Nat /\ again[c] \in Nat /\ again[c] <= G
          BY <2>1
      <3>4. CASE at[c] = "scan"
        <4> HIDE DEF before, G
        <4> QED
            BY <3>1, <3>2, <3>3, <3>4, <2>1, <2>2, <2>3
      <3>5. CASE at[c] # "scan"
        <4> HIDE DEF before, G
        <4> QED
            BY <3>1, <3>2, <3>3, <3>5, <2>1, <2>2
      <3> QED
          BY <3>4, <3>5
    <2>6. CASE /\ state[c] = "served" /\ state'[c] = "sent"
               /\ tries'[c] = tries[c] + 1
      <3>1. Attempts(c)' = tries[c] * G
        <4>1. (tries[c] + 1) - 1 = tries[c] /\ tries[c] * G + 0 = tries[c] * G
            BY <2>1
        <4> QED
            BY <4>1, <2>4, <2>6
      <3>2. tries[c] * G = before + G
          BY <2>1
      <3> HIDE DEF before, G
      <3> QED
          BY <3>1, <3>2, <2>1, <2>2, <2>6
    <2> QED
        BY <2>5, <2>6, <1>5
  <1> QED
      BY <1>6, <1>7, <1>8, <1>9, <1>10 DEF IInv

-----------------------------------------------------------------------------
\* Every step

\* Which calls the handlers belong to.
LEMMA Kinship ==
    /\ KindOf("table") = "table" /\ KindOf("dates") = "dates"
    /\ KindOf("nodes") = "nodes" /\ KindOf("scan") = "scan"
    /\ KindOf("name") = "missing" /\ KindOf("missing") = "missing"
    /\ KindOf("key") = "login" /\ KindOf("logo") = "login"
    /\ KindOf("logos") = "blocks" /\ KindOf("blocks") = "blocks"
  BY DEF KindOf

\* Append is concatenation with a sequence of one element.
LEMMA AppendConcat ==
    ASSUME NEW S, NEW s \in Seq(S), NEW x \in S
    PROVE  Append(s, x) = s \o <<x>>
  OBVIOUS

\* The last step of a handler, or one that replies at once.
LEMMA FinishKeeps ==
    ASSUME IInv, NEW c \in Calls, NEW r \in Results \ {"none"},
           Finish(c, r), state[c] # "idle",
           queue' \in {queue, Tail(queue)},
           queue' # queue => queue # <<>> /\ Head(queue).call = c,
           \/ accepted' = accepted
           \/ /\ at[c] = "scan"
              /\ accepted' = [accepted EXCEPT ![c] = @ + 1],
           r = "ok" /\ kind[c] = "blocks" => NoneOf(queue', c),
           r = "token" => guild[c],
           r = "scanned" => accepted'[c] > 0
    PROVE  IInv'
  <1>1. /\ left' = [left EXCEPT ![c] = left'[c]] /\ left'[c] = 0
        /\ again' = [again EXCEPT ![c] = again'[c]] /\ again'[c] = 0
      BY DEF Finish, IInv, TypeOK
  <1> QED
      BY <1>1, EndKeeps DEF Finish, process, request

\* A request arrives (server.js): the handler refuses, fails, queries, or asks
\* another service.
LEMMA ReceiveKeeps ==
    ASSUME IInv, NEW c \in Calls, Receive(c)
    PROVE  IInv'
  <1>1. TypeOK /\ CallInv /\ state[c] = "sent" /\ at[c] = "none"
    <2>1. state[c] = "sent"
        BY DEF Receive, GetTable, GetNodes, GetMissing, GetBlocks, PostLogin,
               GetRescan, NotFound, Arrives
    <2> QED
        BY <2>1 DEF IInv, CallInv
  <1>2. NoneOf(queue, c)
      BY <1>1, FreshHandler
  <1>3. ASSUME NEW what \in Asks \ {"logos"}, kind[c] = KindOf(what),
               Await(c, what, 1), Serving(c), UNCHANGED again
        PROVE  IInv'
    <2>1. /\ queue' = queue \o Copies(Entry(c, tries[c], what), 1)
          /\ at' = [at EXCEPT ![c] = what]
          /\ left' = [left EXCEPT ![c] = IF what = "logos" THEN 1 ELSE @]
        BY <1>3 DEF Await, Copies, Entry
    <2>2. /\ state' = [state EXCEPT ![c] = state'[c]] /\ state'[c] = "served"
          /\ UNCHANGED <<process, request, again, tries, result, accepted>>
        BY <1>1, <1>3 DEF Serving, TypeOK
    <2>3. what # "scan" /\ what # "logos"
        BY DEF Asks
    <2> QED
        BY <1>1, <1>2, <1>3, <2>1, <2>2, <2>3, MoveKeeps
  <1>4. ASSUME NEW what \in Remote, kind[c] = KindOf(what), Ask(c, what), Serving(c)
        PROVE  IInv'
    <2>1. /\ state' = [state EXCEPT ![c] = state'[c]] /\ state'[c] = "served"
          /\ UNCHANGED <<process, request, again, tries, result, accepted>>
        BY <1>1, <1>4 DEF Ask, Serving, TypeOK
    <2>2. /\ what # "logos" /\ queue' = queue /\ at' = [at EXCEPT ![c] = what]
          /\ left' = [left EXCEPT ![c] = IF what = "logos" THEN 1 ELSE @]
        BY <1>1, <1>4 DEF Ask, Remote, TypeOK
    <2> QED
        BY <1>1, <1>2, <1>4, <2>1, <2>2, MoveKeeps
  <1>5. ASSUME NEW r \in {"ok", "warned", "refused", "failed"}, Reply(c, r),
               UNCHANGED queue, r = "ok" => kind[c] = "other"
        PROVE  IInv'
      BY <1>1, <1>5, FinishKeeps DEF Reply, Results
  <1>6. CASE GetTable(c)
      BY <1>3, <1>6, Kinship DEF GetTable, Arrives, Asks
  <1>7. CASE GetNodes(c)
      BY <1>3, <1>5, <1>7, Kinship DEF GetNodes, Arrives, Asks
  <1>8. CASE GetMissing(c)
      BY <1>3, <1>4, <1>5, <1>8, Kinship DEF GetMissing, Arrives, Asks, Remote
  <1>9. CASE GetBlocks(c)
      BY <1>4, <1>9, Kinship DEF GetBlocks, Arrives, Remote
  <1>10. CASE PostLogin(c)
      BY <1>3, <1>5, <1>10, Kinship DEF PostLogin, Arrives, Asks
  <1>11. CASE GetRescan(c)
      BY <1>4, <1>5, <1>11, Kinship DEF GetRescan, Arrives, Remote
  <1>12. CASE NotFound(c)
      BY <1>5, <1>12 DEF NotFound, Arrives
  <1> QED
      BY <1>6, <1>7, <1>8, <1>9, <1>10, <1>11, <1>12 DEF Receive

\* The database answers a query whose handler waits for it.
LEMMA AnsweredKeeps ==
    ASSUME IInv, NEW c \in Calls, Answered(c)
    PROVE  IInv'
  <1>1. TypeOK /\ CallInv /\ queue \in Seq(Query)
      BY DEF IInv, TypeOK
  <1>2. ASSUME NEW ask \in Asks, Answers(c, ask)
        PROVE  /\ state[c] \in {"served", "done"} /\ kind[c] = KindOf(ask)
               /\ at[c] = ask /\ queue # <<>> /\ Head(queue).call = c
    <2>1. at[c] = ask /\ queue # <<>> /\ Head(queue).call = c /\ at[c] # "none"
        BY <1>2 DEF Answers, Asks
    <2> QED
        BY <2>1, <1>1 DEF CallInv
  <1>3. ASSUME NEW ask \in Asks, Answers(c, ask), Pop, NEW r \in Results \ {"none"},
               Reply(c, r), r = "token" => guild[c], r # "scanned",
               r = "ok" /\ kind[c] = "blocks" => left[c] = 1
        PROVE  IInv'
    <2>1. r = "ok" /\ kind[c] = "blocks" => NoneOf(queue', c)
        BY <1>3, AnswerLeavesNone DEF Pop
    <2> QED
        BY <1>2, <1>3, <2>1, FinishKeeps DEF Reply, Pop
  <1>4. ASSUME Crash PROVE IInv'
      BY <1>4, CrashKeeps
  <1>5. CASE TableAnswered(c)
      BY <1>2, <1>3, <1>4, <1>5, Kinship DEF TableAnswered, Asks, Results
  <1>6. CASE DatesAnswered(c)
      BY <1>2, <1>3, <1>4, <1>6, Kinship DEF DatesAnswered, Asks, Results
  <1>7. CASE NodesAnswered(c)
      BY <1>2, <1>3, <1>7, Kinship DEF NodesAnswered, Asks, Results
  <1>8. CASE NameAnswered(c)
    <2>1. Answers(c, "name") /\ Pop
        BY <1>8 DEF NameAnswered
    <2>2. /\ NoneOf(Tail(queue), c) /\ at[c] # "none" /\ kind[c] = "missing"
          /\ queue # <<>> /\ Head(queue).call = c
        BY <1>2, <2>1, AnswerLeavesNone, Kinship DEF Asks
    <2>3. /\ state' = [state EXCEPT ![c] = state'[c]] /\ state'[c] = state[c]
          /\ left' = [left EXCEPT ![c] = @]
          /\ at' = [at EXCEPT ![c] = "missing"]
          /\ UNCHANGED <<process, request, again, tries, result, accepted>>
        BY <1>1, <1>8 DEF NameAnswered, TypeOK
    <2> QED
        BY <2>1, <2>2, <2>3, MoveKeeps, Kinship DEF Pop, Remote
  <1>9. CASE KeyAnswered(c)
    <2>1. Answers(c, "key")
        BY <1>9 DEF KeyAnswered
    <2>2. /\ NoneOf(Tail(queue), c) /\ at[c] # "none" /\ kind[c] = "login"
          /\ queue # <<>> /\ Head(queue).call = c
        BY <1>2, <2>1, AnswerLeavesNone, Kinship DEF Asks
    <2>3. CASE Reply(c, "refused") /\ Pop
        BY <1>3, <2>1, <2>3 DEF Asks, Results
    <2>4. CASE /\ queue' = Append(Tail(queue), [call |-> c, try |-> tries[c],
                                                ask |-> "logo"])
               /\ at' = [at EXCEPT ![c] = "logo"]
               /\ UNCHANGED <<process, request, left, again, state, tries, result,
                              accepted>>
      <3>1. queue' = Tail(queue) \o Copies(Entry(c, tries[c], "logo"), 1)
        <4>1. Entry(c, tries[c], "logo") \in Query
            BY <1>1 DEF Entry, Query, Asks, TypeOK
        <4>2. queue' = Append(Tail(queue), Entry(c, tries[c], "logo"))
            BY <2>4 DEF Entry
        <4>3. Copies(Entry(c, tries[c], "logo"), 1) = <<Entry(c, tries[c], "logo")>>
            BY DEF Copies
        <4>4. Tail(queue) \in Seq(Query)
            BY <1>1, <2>2
        <4> QED
            BY <4>1, <4>2, <4>3, <4>4, AppendConcat
      <3>2. /\ state' = [state EXCEPT ![c] = state'[c]] /\ state'[c] = state[c]
            /\ left' = [left EXCEPT ![c] = @]
          BY <1>1, <2>4 DEF TypeOK
      <3> QED
          BY <2>2, <2>4, <3>1, <3>2, MoveKeeps, Kinship DEF Asks
    <2> QED
        BY <1>9, <2>3, <2>4 DEF KeyAnswered
  <1>10. CASE LogoAnswered(c)
    <2>1. Answers(c, "logo") /\ Pop /\ kind[c] = "login"
        BY <1>2, <1>10, Kinship DEF LogoAnswered, Asks
    <2>2. PICK r \in {"refused", "token"} : Reply(c, r) /\ (r = "token" => guild[c])
        BY <1>10 DEF LogoAnswered
    <2> QED
        BY <1>3, <2>1, <2>2 DEF Asks, Results
  <1>11. CASE LogosAnswered(c)
    <2>1. Answers(c, "logos") /\ Pop
        BY <1>11 DEF LogosAnswered
    <2>2. CASE Reply(c, "failed")
        BY <1>3, <2>1, <2>2 DEF Asks, Results
    <2>3. CASE left[c] = 1 /\ Reply(c, "ok")
        BY <1>3, <2>1, <2>3 DEF Asks, Results
    <2>4. CASE /\ left[c] > 1 /\ left' = [left EXCEPT ![c] = @ - 1]
               /\ UNCHANGED <<process, request, at, again, state, tries, result,
                              accepted>>
        BY <2>1, <2>4, LogoKeeps
    <2> QED
        BY <1>11, <2>2, <2>3, <2>4 DEF LogosAnswered
  <1> QED
      BY <1>5, <1>6, <1>7, <1>8, <1>9, <1>10, <1>11 DEF Answered

\* Another service answers.
LEMMA ServiceKeeps ==
    ASSUME IInv, NEW c \in Calls, ServiceAnswers(c)
    PROVE  IInv'
  <1>1. TypeOK /\ CallInv /\ at[c] \in Remote
    <2>1. at[c] \in Remote
        BY DEF ServiceAnswers, MissingAnswered, BlocksAnswered, RescanAsked,
               Waits, Remote
    <2> QED
        BY <2>1 DEF IInv
  <1>2. /\ state[c] \in {"served", "done"} /\ kind[c] = KindOf(at[c])
        /\ at[c] # "none" /\ NoneOf(queue, c)
      BY <1>1, FreshHandler DEF CallInv, Remote
  <1>3. ASSUME NEW r \in {"ok", "failed"}, Reply(c, r), UNCHANGED queue
        PROVE  IInv'
      BY <1>2, <1>3, FinishKeeps DEF Reply, Results
  <1>4. CASE MissingAnswered(c)
      BY <1>3, <1>4 DEF MissingAnswered
  <1>5. CASE BlocksAnswered(c)
    <2>1. at[c] = "blocks" /\ kind[c] = "blocks"
        BY <1>2, <1>5, Kinship DEF BlocksAnswered, Waits
    <2>2. ASSUME NEW n \in 1..MaxProducers, Await(c, "logos", n),
                 UNCHANGED <<process, request, again, state, tries, result,
                             accepted>>
          PROVE  IInv'
      <3>1. /\ queue' = queue \o Copies(Entry(c, tries[c], "logos"), n)
            /\ at' = [at EXCEPT ![c] = "logos"]
            /\ left' = [left EXCEPT ![c] = n]
          BY <2>2 DEF Await, Copies, Entry
      <3>2. /\ state' = [state EXCEPT ![c] = state'[c]] /\ state'[c] = state[c]
            /\ n \in Nat
          BY <1>1, <2>2, BoundsAssumption DEF TypeOK
      <3> QED
          BY <1>2, <2>1, <2>2, <3>1, <3>2, MoveKeeps, Kinship DEF Asks
    <2> QED
        BY <1>3, <1>5, <2>2 DEF BlocksAnswered
  <1>6. CASE RescanAsked(c)
    <2>1. at[c] = "scan" /\ kind[c] = "scan" /\ queue' = queue
        BY <1>2, <1>6, Kinship DEF RescanAsked, Waits
    <2>2. PICK queued \in BOOLEAN :
            /\ accepted' = [accepted EXCEPT ![c] = IF queued THEN @ + 1 ELSE @]
            /\ \/ queued /\ Finish(c, "scanned")
               \/ Finish(c, "failed")
               \/ /\ again[c] < GotRetries
                  /\ again' = [again EXCEPT ![c] = @ + 1]
                  /\ UNCHANGED <<process, request, at, left, state, tries, result>>
        BY <1>6 DEF RescanAsked
    <2>3. /\ \/ accepted' = accepted
             \/ accepted' = [accepted EXCEPT ![c] = @ + 1]
          /\ queued => accepted'[c] > 0
      <3>1. accepted \in [Calls -> Nat]
          BY <1>1 DEF TypeOK
      <3>2. CASE queued
          BY <2>2, <3>1, <3>2
      <3>3. CASE ~queued
          BY <2>2, <3>1, <3>3
      <3> QED
          BY <3>2, <3>3
    <2>4. CASE queued /\ Finish(c, "scanned")
        BY <1>2, <2>1, <2>3, <2>4, FinishKeeps DEF Results
    <2>5. CASE Finish(c, "failed")
        BY <1>2, <2>1, <2>3, <2>5, FinishKeeps DEF Results
    <2>6. CASE /\ again[c] < GotRetries
               /\ again' = [again EXCEPT ![c] = @ + 1]
               /\ UNCHANGED <<process, request, at, left, state, tries, result>>
        BY <2>1, <2>2, <2>6, AgainKeeps
    <2> QED
        BY <2>2, <2>4, <2>5, <2>6
  <1> QED
      BY <1>4, <1>5, <1>6 DEF ServiceAnswers

\* Before the first call there is nothing that could be wrong.
LEMMA InitIInv ==
    ASSUME Init
    PROVE  IInv
  <1>1. TypeOK
    <2>1. /\ 0 \in 0..MaxOutages /\ 0 \in 0..MaxProducers /\ 0 \in 0..GotRetries
          /\ 0 \in 0..(KyRetries + 1)
        BY BoundsAssumption
    <2>2. /\ queue \in Seq(Query)
          /\ at \in [Calls -> Asks \cup Remote \cup {"none"}]
        BY DEF Init
    <2>3. /\ state \in [Calls -> {"idle", "sent", "served", "done"}]
          /\ result \in [Calls -> Results]
        BY DEF Init, Results
    <2> QED
        BY <2>1, <2>2, <2>3 DEF Init, TypeOK
  <1>2. CallInv /\ QueueInv /\ NobodyWaitsInVain
      BY DEF Init, CallInv, QueueInv, NobodyWaitsInVain, Asks
  <1>3. AnswersTrue
      BY DEF Init, AnswersTrue, BlocksComplete, TokensForGuilds, SuccessMeansQueued
  <1>4. BudgetInv
      BY DEF Init, BudgetInv, Attempts
  <1> QED
      BY <1>1, <1>2, <1>3, <1>4 DEF IInv

\* No step breaks it.
LEMMA NextIInv ==
    ASSUME IInv, [Next]_vars
    PROVE  IInv'
  <1>1. CASE \E c \in Calls : \/ Send(c) \/ Refuse(c) \/ GiveUp(c) \/ Receive(c)
                              \/ ServiceAnswers(c)
      BY <1>1, SendKeeps, RefuseKeeps, GiveUpKeeps, ReceiveKeeps, ServiceKeeps
  <1>2. CASE DatabaseAnswers
      BY <1>2, AnsweredKeeps, UnusedAnswerKeeps DEF DatabaseAnswers
  <1>3. CASE ConnectionLost
      BY <1>3, CrashKeeps DEF ConnectionLost
  <1>4. CASE Restart \/ Connect \/ ImportGot \/ DatabaseFails \/ DatabaseReturns
      BY <1>4, ProcessKeeps
  <1>5. CASE UNCHANGED vars
      BY <1>5 DEF IInv, TypeOK, CallInv, QueueInv, NobodyWaitsInVain, Waiting,
                  AnswersTrue, BlocksComplete, TokensForGuilds,
                  SuccessMeansQueued, BudgetInv, Attempts, vars
  <1> QED
      BY <1>1, <1>2, <1>3, <1>4, <1>5 DEF Next

\* It holds in every state of every behaviour.
LEMMA Invariance ==
    Spec => []IInv
  BY InitIInv, NextIInv, PTL DEF Spec

\* The budget of a call is that of all attempts of ky and of got.
LEMMA WithinBudget ==
    ASSUME IInv
    PROVE  RescansBounded
  <1> SUFFICES ASSUME NEW c \in Calls
               PROVE  accepted[c] <= (1 + KyRetries) * (1 + GotRetries)
      BY DEF RescansBounded
  <1> DEFINE G == 1 + GotRetries
             before == (tries[c] - 1) * G
  <1>1. /\ tries[c] \in 0..(KyRetries + 1) /\ KyRetries \in Nat
        /\ again[c] \in 0..GotRetries /\ GotRetries \in Nat
        /\ accepted[c] \in Nat /\ G \in Nat
      BY BoundsAssumption DEF IInv, TypeOK
  <1>2. (1 + KyRetries) * G \in Nat
      BY <1>1
  <1>3. CASE state[c] = "idle"
    <2>1. accepted[c] <= 0
        BY <1>3 DEF IInv, BudgetInv, Attempts
    <2> QED
        BY <2>1, <1>1, <1>2
  <1>4. CASE state[c] # "idle"
    <2>1. tries[c] \in 1..(KyRetries + 1)
        BY <1>1, <1>4 DEF IInv, CallInv
    <2>2. accepted[c] <= before + G
      <3>1. accepted[c] <= before + IF at[c] = "scan" THEN again[c]
                                    ELSE IF state[c] = "sent" THEN 0 ELSE G
          BY <1>4 DEF IInv, BudgetInv, Attempts
      <3>2. before \in Int /\ again[c] <= G /\ again[c] \in Nat
          BY <1>1
      <3> HIDE DEF before, G
      <3> QED
          BY <3>1, <3>2, <1>1
    <2>3. before + G = tries[c] * G
        BY <1>1
    <2>4. \E k \in Nat : 1 + KyRetries = tries[c] + k
      <3>1. (1 + KyRetries) - tries[c] \in Nat
          BY <2>1, <1>1
      <3>2. 1 + KyRetries = tries[c] + ((1 + KyRetries) - tries[c])
          BY <2>1, <1>1
      <3> QED
          BY <3>1, <3>2
    <2>5. PICK k \in Nat : 1 + KyRetries = tries[c] + k
        BY <2>4
    <2>6. /\ (tries[c] + k) * G = tries[c] * G + k * G
          /\ k * G \in Nat /\ tries[c] * G \in Nat
        BY <1>1
    <2> HIDE DEF before, G
    <2>7. accepted[c] <= tries[c] * G
        BY <2>2, <2>3
    <2>8. (1 + KyRetries) * G = tries[c] * G + k * G
        BY <2>5, <2>6
    <2>9. accepted[c] <= (1 + KyRetries) * G
        BY <2>6, <2>7, <2>8, <1>1
    <2> QED
        BY <2>9 DEF G
  <1> QED
      BY <1>3, <1>4

-----------------------------------------------------------------------------
\* Theorems

\* The variables keep their types: in particular at most MaxProducers answers
\* are awaited and got and ky repeat at most as often as they are told
\* (pgquery.js, server.js, api.ts).
THEOREM ServerTypeCorrect == Spec => []TypeOK
  <1>1. IInv => TypeOK
      BY DEF IInv
  <1> QED
      BY <1>1, Invariance, PTL

\* However many requests share the one connection, a handler that waits for
\* the database waits for exactly the queries of its own attempt that are in
\* the queue (pgquery.js:10, server.js:287).
THEOREM EveryHandlerIsAnswered == Spec => []NobodyWaitsInVain
  <1>1. IInv => NobodyWaitsInVain
      BY DEF IInv
  <1> QED
      BY <1>1, Invariance, PTL

\* An empty-blocks reply has every logo, a token goes to guilds only, and a
\* page that reads that its checks are scheduled is right (server.js:300, 143,
\* 178).
THEOREM RepliesAreTrue == Spec => []AnswersTrue
  <1>1. IInv => AnswersTrue
      BY DEF IInv
  <1> QED
      BY <1>1, Invariance, PTL

\* One click queues at most (1 + KyRetries) * (1 + GotRetries) re-scans,
\* although ky and got both repeat what is not idempotent (server.js:170-185,
\* api.ts).
THEOREM OneClickFewRescans == Spec => []RescansBounded
  <1>1. IInv => RescansBounded
      BY WithinBudget
  <1> QED
      BY <1>1, Invariance, PTL

\* The process ends only with the connection, or by the answer to a query of a
\* route whose callback throws (pgquery.js:5-60): no route that awaits ends it.
THEOREM OnlyCallbacksEndTheProcess == Spec => ErrorsContained
  <1> DEFINE Contained ==
        server = "up" /\ server' # "up" =>
            \/ ~database
            \/ queue # <<>> /\ Head(queue).ask \in {"table", "dates"}
  <1>1. ASSUME Next PROVE Contained
    <2> SUFFICES ASSUME server = "up", server' # "up"
                 PROVE  \/ ~database
                        \/ queue # <<>> /\ Head(queue).ask \in {"table", "dates"}
        OBVIOUS
    <2>1. ASSUME NEW c \in Calls, NEW r, Finish(c, r) PROVE FALSE
        BY <2>1 DEF Finish, process
    <2>2. ASSUME NEW c \in Calls, NEW r, Reply(c, r) PROVE FALSE
        BY <2>2, <2>1 DEF Reply
    <2>3. ASSUME UNCHANGED process PROVE FALSE
        BY <2>3 DEF process
    <2>4. ASSUME NEW c \in Calls, Send(c) \/ Refuse(c) \/ GiveUp(c) PROVE FALSE
        BY <2>3, <2>4 DEF Send, Refuse, GiveUp
    <2>5. ASSUME NEW c \in Calls, Receive(c) PROVE FALSE
        BY <2>2, <2>3, <2>5
           DEF Receive, GetTable, GetNodes, GetMissing, GetBlocks, PostLogin,
               GetRescan, NotFound, Serving
    <2>6. ASSUME NEW c \in Calls, ServiceAnswers(c) PROVE FALSE
        BY <2>1, <2>2, <2>3, <2>6
           DEF ServiceAnswers, MissingAnswered, BlocksAnswered, RescanAsked
    <2>7. ASSUME NEW c \in Calls, Answered(c)
          PROVE  queue # <<>> /\ Head(queue).ask \in {"table", "dates"}
      <3>1. CASE TableAnswered(c) \/ DatesAnswered(c)
          BY <3>1 DEF TableAnswered, DatesAnswered, Answers
      <3>2. CASE \/ NodesAnswered(c) \/ NameAnswered(c) \/ KeyAnswered(c)
                 \/ LogoAnswered(c) \/ LogosAnswered(c)
          BY <2>2, <2>3, <3>2
             DEF NodesAnswered, NameAnswered, KeyAnswered, LogoAnswered,
                 LogosAnswered
      <3> QED
          BY <2>7, <3>1, <3>2 DEF Answered
    <2>8. CASE UnusedAnswer
        BY <2>3, <2>8 DEF UnusedAnswer
    <2>9. CASE ConnectionLost \/ Restart \/ Connect \/ ImportGot
               \/ DatabaseFails \/ DatabaseReturns
        BY <2>9 DEF ConnectionLost, Restart, Connect, ImportGot, DatabaseFails,
                    DatabaseReturns
    <2> QED
        BY <1>1, <2>4, <2>5, <2>6, <2>7, <2>8, <2>9 DEF Next, DatabaseAnswers
  <1>2. [Next]_vars => [Contained]_vars
      BY <1>1
  <1> QED
      BY <1>2, PTL DEF Spec, ErrorsContained

-----------------------------------------------------------------------------
\* PortalServer implements CallService

ServiceStep == [Service!Next]_Service!vars

\* What each route may answer.
LEMMA RouteOutcomes ==
    /\ \A k : "failed" \in Service!Outcomes(k)
    /\ \A k \in {"table", "dates", "nodes", "blocks", "missing", "other"} :
         "ok" \in Service!Outcomes(k)
    /\ \A k \in {"missing", "other", "login"} : "refused" \in Service!Outcomes(k)
    /\ "token" \in Service!Outcomes("login")
    /\ {"warned", "scanned"} \subseteq Service!Outcomes("scan")
    /\ \A k \in Kinds : Service!Outcomes(k) \subseteq Results \ {"none"}
  BY DEF Service!Outcomes, Kinds, Results

\* The page notices only that a call begins and that it is over.
LEMMA SeenSteps ==
    ASSUME TypeOK, NEW c \in Calls,
           NEW s \in {"idle", "sent", "served", "done"},
           state' = [state EXCEPT ![c] = s]
    PROVE  /\ s \in {"sent", "served"} => IF state[c] \in {"sent", "served"}
                THEN SeenState' = SeenState
                ELSE SeenState' = [SeenState EXCEPT ![c] = "pending"]
           /\ s = "done" => SeenState' = [SeenState EXCEPT ![c] = "done"]
  BY DEF SeenState, TypeOK

\* Nothing that concerns a page has changed.
LEMMA NothingSeen ==
    ASSUME UNCHANGED <<kind, guild, result, accepted>>,
           SeenState' = SeenState \/ state' = state
    PROVE  ServiceStep
  <1>1. SeenState' = SeenState
      BY DEF SeenState
  <1> QED
      BY <1>1 DEF ServiceStep, Service!vars

\* An attempt that comes to r is repeated, or it is too late, or the call is
\* concluded with r.
LEMMA HearConcludes ==
    ASSUME IInv, NEW c \in Calls, NEW r \in Service!Outcomes(kind[c]),
           Hear({c}, r), state[c] # "idle", UNCHANGED <<kind, guild>>,
           r = "token" => guild[c], r = "scanned" => accepted'[c] > 0
    PROVE  \/ UNCHANGED <<kind, guild, SeenState, result>>
           \/ Service!Conclude(c, r)
  <1>1. TypeOK /\ result \in [Calls -> Results]
      BY DEF IInv, TypeOK
  <1> DEFINE repeats == r = "failed" /\ AsksAgain(c)
             heard == state[c] \in {"sent", "served"}
  <1>2. /\ state' = [d \in Calls |-> IF ~(d = c /\ heard) THEN state[d]
                                     ELSE IF repeats THEN "sent" ELSE "done"]
        /\ result' = [d \in Calls |-> IF d = c /\ heard /\ ~repeats
                                      THEN r ELSE result[d]]
      BY DEF Hear
  <1>3. CASE ~heard
      BY <1>1, <1>2, <1>3 DEF TypeOK, SeenState
  <1>4. CASE heard /\ repeats
    <2>1. state' = [state EXCEPT ![c] = "sent"] /\ result' = result
        BY <1>1, <1>2, <1>4 DEF TypeOK
    <2> QED
        BY <1>1, <1>4, <2>1, SeenSteps
  <1>5. CASE heard /\ ~repeats
    <2>1. state' = [state EXCEPT ![c] = "done"]
        BY <1>1, <1>2, <1>5 DEF TypeOK
    <2>2. result' = [result EXCEPT ![c] = r]
        BY <1>1, <1>2, <1>5
    <2>3. SeenState[c] = "pending" /\ SeenState' = [SeenState EXCEPT ![c] = "done"]
        BY <1>1, <1>5, <2>1, SeenSteps DEF SeenState
    <2> QED
        BY <2>2, <2>3 DEF Service!Conclude
  <1> QED
      BY <1>3, <1>4, <1>5

\* Where no re-scan is queued, the call is answered, or nothing is seen.
LEMMA HearAnswers ==
    ASSUME IInv, NEW c \in Calls, NEW r \in Service!Outcomes(kind[c]),
           Hear({c}, r), state[c] # "idle", UNCHANGED <<request, accepted>>,
           r = "token" => guild[c], r # "scanned"
    PROVE  ServiceStep
  <1>1. UNCHANGED <<kind, guild, accepted>>
      BY DEF request
  <1>2. CASE UNCHANGED <<kind, guild, SeenState, result>>
      BY <1>1, <1>2, NothingSeen
  <1>3. CASE Service!Conclude(c, r)
    <2>1. Service!Answer(c)
        BY <1>1, <1>3 DEF Service!Answer
    <2> QED
        BY <2>1 DEF ServiceStep, Service!Next
  <1> QED
      BY <1>1, <1>2, <1>3, HearConcludes

\* What ends the process fails all calls that are being served, unless they are
\* repeated.
LEMMA CrashBreaks ==
    ASSUME IInv, Crash
    PROVE  ServiceStep
  <1> DEFINE served == {c \in Calls : state[c] = "served"}
             broken == {c \in served : ~AsksAgain(c)}
  <1>1. /\ TypeOK /\ UNCHANGED <<kind, guild, accepted>>
        /\ Hear(served, "failed")
      BY DEF IInv, Crash, request
  <1>2. /\ state' = [c \in Calls |-> IF c \notin served THEN state[c]
                                     ELSE IF AsksAgain(c) THEN "sent" ELSE "done"]
        /\ result' = [c \in Calls |-> IF c \in broken THEN "failed" ELSE result[c]]
      BY <1>1 DEF Hear
  <1>3. SeenState' = [c \in Calls |-> IF c \in broken THEN "done" ELSE SeenState[c]]
      BY <1>2 DEF SeenState
  <1>4. broken \in SUBSET Calls /\ \A c \in broken : SeenState[c] = "pending"
      BY DEF SeenState
  <1> HIDE DEF broken
  <1>5. Service!Break(broken)
      BY <1>1, <1>2, <1>3, <1>4 DEF Service!Break
  <1> QED
      BY <1>4, <1>5 DEF ServiceStep, Service!Next

\* A call is made, refused by nginx, or given up.
LEMMA CallerServes ==
    ASSUME IInv, NEW c \in Calls, Send(c) \/ Refuse(c) \/ GiveUp(c)
    PROVE  ServiceStep
  <1>1. TypeOK /\ result \in [Calls -> Results]
      BY DEF IInv, TypeOK
  <1>2. CASE Send(c)
    <2>1. /\ state[c] = "idle" /\ state' = [state EXCEPT ![c] = "sent"]
          /\ UNCHANGED <<kind, guild, result, accepted>>
        BY <1>2 DEF Send, request
    <2>2. /\ SeenState[c] = "idle"
          /\ SeenState' = [SeenState EXCEPT ![c] = "pending"]
        BY <1>1, <2>1, SeenSteps DEF SeenState
    <2>3. Service!Make(c)
        BY <2>1, <2>2 DEF Service!Make
    <2> QED
        BY <2>3 DEF ServiceStep, Service!Next
  <1>3. CASE Refuse(c)
      BY <1>3, HearAnswers, RouteOutcomes DEF Refuse
  <1>4. CASE GiveUp(c)
    <2>1. /\ state[c] \in {"sent", "served"}
          /\ state' = [state EXCEPT ![c] = "done"]
          /\ result' = [result EXCEPT ![c] = "failed"]
          /\ UNCHANGED <<kind, guild, accepted>>
        BY <1>4 DEF GiveUp, request
    <2>2. /\ SeenState[c] = "pending"
          /\ SeenState' = [SeenState EXCEPT ![c] = "done"]
        BY <1>1, <2>1, SeenSteps DEF SeenState
    <2>3. Service!Answer(c)
        BY <2>1, <2>2, RouteOutcomes DEF Service!Answer, Service!Conclude
    <2> QED
        BY <2>3 DEF ServiceStep, Service!Next
  <1> QED
      BY <1>2, <1>3, <1>4

\* A request arrives: its handler runs, or replies at once.
LEMMA ReceiveServes ==
    ASSUME IInv, NEW c \in Calls, Receive(c)
    PROVE  ServiceStep
  <1>1. TypeOK /\ state[c] = "sent"
      BY DEF IInv, Receive, GetTable, GetNodes, GetMissing, GetBlocks,
             PostLogin, GetRescan, NotFound, Arrives
  <1>2. ASSUME Serving(c)
        PROVE  ServiceStep
    <2>1. /\ state' = [state EXCEPT ![c] = "served"]
          /\ UNCHANGED <<kind, guild, result, accepted>>
        BY <1>2 DEF Serving, request
    <2> QED
        BY <1>1, <2>1, SeenSteps, NothingSeen
  <1>3. ASSUME NEW r \in Service!Outcomes(kind[c]), Reply(c, r),
               r \notin {"token", "scanned"}
        PROVE  ServiceStep
    <2>1. Hear({c}, r) /\ UNCHANGED <<request, accepted>>
        BY <1>3 DEF Reply, Finish
    <2> QED
        BY <1>1, <1>3, <2>1, HearAnswers
  <1>4. CASE GetTable(c) \/ GetBlocks(c)
      BY <1>2, <1>4 DEF GetTable, GetBlocks
  <1>5. CASE GetNodes(c)
      BY <1>2, <1>3, <1>5, RouteOutcomes DEF GetNodes
  <1>6. CASE GetMissing(c)
      BY <1>2, <1>3, <1>6, RouteOutcomes DEF GetMissing, Arrives
  <1>7. CASE PostLogin(c)
      BY <1>2, <1>3, <1>7, RouteOutcomes DEF PostLogin, Arrives
  <1>8. CASE GetRescan(c)
      BY <1>2, <1>3, <1>8, RouteOutcomes DEF GetRescan, Arrives
  <1>9. CASE NotFound(c)
      BY <1>3, <1>9, RouteOutcomes DEF NotFound, Arrives
  <1> QED
      BY <1>4, <1>5, <1>6, <1>7, <1>8, <1>9 DEF Receive

\* The database answers a query: the handler goes on, replies, or throws.
LEMMA AnsweredServes ==
    ASSUME IInv, NEW c \in Calls, Answered(c)
    PROVE  ServiceStep
  <1>1. ASSUME NEW ask \in Asks, Answers(c, ask)
        PROVE  state[c] # "idle" /\ kind[c] = KindOf(ask)
    <2>1. at[c] = ask /\ at[c] # "none"
        BY <1>1 DEF Answers, Asks
    <2> QED
        BY <2>1 DEF IInv, CallInv
  <1>2. ASSUME NEW ask \in Asks, Answers(c, ask), NEW r, Reply(c, r),
               r \in Service!Outcomes(KindOf(ask)),
               r = "token" => guild[c], r # "scanned"
        PROVE  ServiceStep
    <2>1. Hear({c}, r) /\ UNCHANGED <<request, accepted>>
        BY <1>2 DEF Reply, Finish
    <2> QED
        BY <1>1, <1>2, <2>1, HearAnswers
  <1>3. ASSUME UNCHANGED <<request, state, result, accepted>>
        PROVE  ServiceStep
      BY <1>3, NothingSeen DEF request
  <1>4. CASE TableAnswered(c)
      BY <1>2, <1>4, CrashBreaks, Kinship, RouteOutcomes DEF TableAnswered, Asks
  <1>5. CASE DatesAnswered(c)
      BY <1>2, <1>5, CrashBreaks, Kinship, RouteOutcomes DEF DatesAnswered, Asks
  <1>6. CASE NodesAnswered(c)
      BY <1>2, <1>6, Kinship, RouteOutcomes DEF NodesAnswered, Asks
  <1>7. CASE NameAnswered(c)
      BY <1>3, <1>7 DEF NameAnswered
  <1>8. CASE KeyAnswered(c)
      BY <1>2, <1>3, <1>8, Kinship, RouteOutcomes DEF KeyAnswered, Asks
  <1>9. CASE LogoAnswered(c)
    <2>1. PICK r \in {"refused", "token"} :
            Answers(c, "logo") /\ Reply(c, r) /\ (r = "token" => guild[c])
        BY <1>9 DEF LogoAnswered
    <2> QED
        BY <1>2, <2>1, Kinship, RouteOutcomes DEF Asks
  <1>10. CASE LogosAnswered(c)
      BY <1>2, <1>3, <1>10, Kinship, RouteOutcomes DEF LogosAnswered, Asks
  <1> QED
      BY <1>4, <1>5, <1>6, <1>7, <1>8, <1>9, <1>10 DEF Answered

\* Another service answers; in the case of the re-scan service, a re-scan may
\* have been queued, which the budget allows.
LEMMA ServiceServes ==
    ASSUME IInv, RescansBounded', NEW c \in Calls, ServiceAnswers(c)
    PROVE  ServiceStep
  <1>1. /\ state[c] # "idle" /\ kind[c] = KindOf(at[c])
        /\ at[c] \in {"missing", "blocks", "scan"}
    <2>1. at[c] \in {"missing", "blocks", "scan"}
        BY DEF ServiceAnswers, MissingAnswered, BlocksAnswered, RescanAsked, Waits
    <2> QED
        BY <2>1 DEF IInv, CallInv
  <1>2. ASSUME NEW r \in {"ok", "failed"}, kind[c] \in {"missing", "blocks"},
               Reply(c, r)
        PROVE  ServiceStep
    <2>1. Hear({c}, r) /\ UNCHANGED <<request, accepted>>
        BY <1>2 DEF Reply, Finish
    <2>2. r \in Service!Outcomes(kind[c])
        BY <1>2, RouteOutcomes
    <2> QED
        BY <1>1, <2>1, <2>2, HearAnswers
  <1>3. ASSUME UNCHANGED <<request, state, result, accepted>>
        PROVE  ServiceStep
      BY <1>3, NothingSeen DEF request
  <1>4. CASE MissingAnswered(c)
    <2>1. kind[c] = "missing"
        BY <1>1, <1>4, Kinship DEF MissingAnswered, Waits
    <2> QED
        BY <1>2, <1>4, <2>1 DEF MissingAnswered
  <1>5. CASE BlocksAnswered(c)
    <2>1. kind[c] = "blocks"
        BY <1>1, <1>5, Kinship DEF BlocksAnswered, Waits
    <2> QED
        BY <1>2, <1>3, <1>5, <2>1 DEF BlocksAnswered
  <1>6. CASE RescanAsked(c)
    <2>1. kind[c] = "scan" /\ accepted \in [Calls -> Nat]
        BY <1>1, <1>6, Kinship DEF RescanAsked, Waits, IInv, TypeOK
    <2>2. PICK queued \in BOOLEAN :
            /\ accepted' = [accepted EXCEPT ![c] = IF queued THEN @ + 1 ELSE @]
            /\ \/ queued /\ Finish(c, "scanned")
               \/ Finish(c, "failed")
               \/ UNCHANGED <<request, state, result>>
        BY <1>6 DEF RescanAsked
    <2>3. UNCHANGED <<kind, guild>>
        BY <2>2 DEF Finish, request
    <2>4. CASE ~queued
      <3>1. accepted' = accepted
          BY <2>1, <2>2, <2>4
      <3>2. CASE Finish(c, "failed")
        <4>1. Hear({c}, "failed") /\ UNCHANGED <<request, accepted>>
            BY <3>1, <3>2 DEF Finish
        <4> QED
            BY <1>1, <4>1, HearAnswers, RouteOutcomes
      <3>3. CASE UNCHANGED <<request, state, result>>
          BY <1>3, <3>1, <3>3
      <3> QED
          BY <2>2, <2>4, <3>2, <3>3
    <2>5. CASE queued
      <3>1. accepted' = [accepted EXCEPT ![c] = @ + 1] /\ accepted'[c] > 0
          BY <2>1, <2>2, <2>5
      <3>2. accepted[c] < (1 + KyRetries) * (1 + GotRetries)
        <4>1. accepted'[c] <= (1 + KyRetries) * (1 + GotRetries)
            BY DEF RescansBounded
        <4>2. (1 + KyRetries) * (1 + GotRetries) \in Nat
            BY BoundsAssumption
        <4> QED
            BY <2>1, <3>1, <4>1, <4>2
      <3>3. \/ UNCHANGED <<kind, guild, SeenState, result>>
            \/ \E r \in Service!Outcomes("scan") : Service!Conclude(c, r)
        <4>1. ASSUME NEW r \in {"scanned", "failed"}, Finish(c, r)
              PROVE  \/ UNCHANGED <<kind, guild, SeenState, result>>
                     \/ Service!Conclude(c, r)
          <5>1. r \in Service!Outcomes(kind[c]) /\ Hear({c}, r)
              BY <2>1, <4>1, RouteOutcomes DEF Finish
          <5> QED
              BY <1>1, <2>3, <3>1, <4>1, <5>1, HearConcludes
        <4>2. CASE UNCHANGED <<request, state, result>>
            BY <2>3, <4>2 DEF SeenState
        <4>3. {"scanned", "failed"} \subseteq Service!Outcomes("scan")
            BY RouteOutcomes
        <4> QED
            BY <2>2, <4>1, <4>2, <4>3
      <3>4. SeenState[c] # "idle"
          BY <1>1 DEF SeenState
      <3>5. Service!Schedule(c)
          BY <2>1, <3>1, <3>2, <3>3, <3>4 DEF Service!Schedule
      <3> QED
          BY <3>5 DEF ServiceStep, Service!Next
    <2> QED
        BY <2>4, <2>5
  <1> QED
      BY <1>4, <1>5, <1>6 DEF ServiceAnswers

\* Every step of the server is a step of the service, or nobody notices it.
LEMMA NextServes ==
    ASSUME IInv, RescansBounded', [Next]_vars
    PROVE  ServiceStep
  <1>1. ASSUME NEW c \in Calls, \/ Send(c) \/ Refuse(c) \/ GiveUp(c) \/ Receive(c)
                                \/ ServiceAnswers(c)
        PROVE  ServiceStep
      BY <1>1, CallerServes, ReceiveServes, ServiceServes
  <1>2. CASE \E c \in Calls : Answered(c)
      BY <1>2, AnsweredServes
  <1>3. CASE ConnectionLost
      BY <1>3, CrashBreaks DEF ConnectionLost
  <1>4. CASE \/ UnusedAnswer \/ Restart \/ Connect \/ ImportGot
             \/ DatabaseFails \/ DatabaseReturns \/ UNCHANGED vars
      BY <1>4, NothingSeen
      DEF UnusedAnswer, Restart, Connect, ImportGot, DatabaseFails,
          DatabaseReturns, request, vars
  <1> QED
      BY <1>1, <1>2, <1>3, <1>4 DEF Next, DatabaseAnswers

\* PortalServer implements CallService: for any number of calls, attempts, ends
\* of the process and outages, a call is concluded at most once, with an answer
\* of its route, and queues no more re-scans than its attempts (server.js,
\* pgquery.js, api.ts).
THEOREM ServerImplementsCalls == Spec => CallServiceSpec
  <1>1. Init => Service!Init
    <2> SUFFICES ASSUME Init
                 PROVE  Service!Init
        OBVIOUS
    <2>1. SeenState = [c \in Calls |-> "idle"]
        BY DEF Init, SeenState
    <2> QED
        BY <2>1 DEF Init, Service!Init, Kinds, Service!Kinds
  <1>2. IInv /\ RescansBounded' /\ [Next]_vars => [Service!Next]_Service!vars
      BY NextServes DEF ServiceStep
  <1>3. IInv => RescansBounded
      BY WithinBudget
  <1> QED
      BY <1>1, <1>2, <1>3, Invariance, PTL DEF Spec, CallServiceSpec, Service!Spec

\* A call that is over stays over, and what the page learned is not taken back
\* or replaced by the answer to an attempt that it has given up (api.ts:19-30).
AnswersFinal ==
    [][\A c \in Calls : state[c] = "done" =>
           state'[c] = "done" /\ result'[c] = result[c]]_vars

\* No late answer, repeat or end of the process changes what a page was told.
THEOREM AnswersAreFinal == Spec => AnswersFinal
  <1> DEFINE Final == \A c \in Calls : state[c] = "done" =>
                          state'[c] = "done" /\ result'[c] = result[c]
  <1>1. IInv /\ RescansBounded' /\ [Next]_vars => [Final]_vars
    <2> SUFFICES ASSUME IInv, RescansBounded', [Next]_vars,
                        NEW c \in Calls, state[c] = "done"
                 PROVE  state'[c] = "done" /\ result'[c] = result[c]
        OBVIOUS
    <2>1. result \in [Calls -> Results] /\ SeenState[c] = "done"
        BY DEF IInv, TypeOK, SeenState
    <2>2. SeenState'[c] = "done" => state'[c] = "done"
        BY DEF SeenState
    <2>3. SeenState'[c] = "done" /\ result'[c] = result[c]
      <3>1. ASSUME NEW d \in Calls, NEW r, Service!Conclude(d, r)
            PROVE  SeenState'[c] = "done" /\ result'[c] = result[c]
          BY <2>1, <3>1 DEF Service!Conclude, SeenState
      <3>2. ASSUME UNCHANGED <<SeenState, result>>
            PROVE  SeenState'[c] = "done" /\ result'[c] = result[c]
          BY <2>1, <3>2
      <3>3. ASSUME NEW d \in Calls, Service!Make(d)
            PROVE  SeenState'[c] = "done" /\ result'[c] = result[c]
          BY <2>1, <3>3 DEF Service!Make, SeenState
      <3>4. ASSUME NEW d \in Calls, Service!Answer(d) \/ Service!Schedule(d)
            PROVE  SeenState'[c] = "done" /\ result'[c] = result[c]
          BY <3>1, <3>2, <3>4 DEF Service!Answer, Service!Schedule
      <3>5. ASSUME NEW broken \in SUBSET Calls, Service!Break(broken)
            PROVE  SeenState'[c] = "done" /\ result'[c] = result[c]
          BY <2>1, <3>5 DEF Service!Break
      <3>6. ServiceStep
          BY NextServes
      <3> QED
          BY <3>2, <3>3, <3>4, <3>5, <3>6
          DEF ServiceStep, Service!Next, Service!vars
    <2> QED
        BY <2>2, <2>3
  <1>2. IInv => RescansBounded
      BY WithinBudget
  <1> QED
      BY <1>1, <1>2, Invariance, PTL DEF Spec, AnswersFinal
=============================================================================
