-------------------------- MODULE RescanQueueProofs --------------------------
(***************************************************************************)
(* Theorems about RescanQueue, for every finite set of threads and every   *)
(* number of requests.                                                     *)
(***************************************************************************)
EXTENDS RescanQueue, FiniteSetTheorems, TLAPS

-----------------------------------------------------------------------------
\* Sequences

\* What is in a sequence after an element was put at its end.
LEMMA AppendRange ==
    ASSUME NEW S, NEW q \in Seq(S), NEW e \in S
    PROVE  {Append(q, e)[i] : i \in DOMAIN Append(q, e)}
               = {q[i] : i \in DOMAIN q} \cup {e}
  <1>1. /\ DOMAIN Append(q, e) = 1..Len(q) + 1
        /\ DOMAIN q = 1..Len(q)
        /\ Len(q) \in Nat
        /\ \A i \in 1..Len(q) : Append(q, e)[i] = q[i]
        /\ Append(q, e)[Len(q) + 1] = e
      OBVIOUS
  <1>2. 1..Len(q) + 1 = 1..Len(q) \cup {Len(q) + 1}
      BY <1>1
  <1> QED
      BY <1>1, <1>2

\* What is in a sequence that is not empty: its head and its tail.
LEMMA HeadTailRange ==
    ASSUME NEW S, NEW q \in Seq(S), q # <<>>
    PROVE  {q[i] : i \in DOMAIN q}
               = {Head(q)} \cup {Tail(q)[i] : i \in DOMAIN Tail(q)}
  <1>1. /\ DOMAIN q = 1..Len(q)
        /\ Len(q) \in Nat \ {0}
        /\ DOMAIN Tail(q) = 1..Len(q) - 1
        /\ \A i \in 1..Len(q) - 1 : Tail(q)[i] = q[i + 1]
        /\ Head(q) = q[1]
      OBVIOUS
  <1>2. \A i \in 1..Len(q) :
            i = 1 \/ (i - 1 \in 1..Len(q) - 1 /\ (i - 1) + 1 = i)
      BY <1>1
  <1>3. \A i \in 1..Len(q) - 1 : i + 1 \in 1..Len(q)
      BY <1>1
  <1>4. 1 \in 1..Len(q)
      BY <1>1
  <1>5. ASSUME NEW x \in {q[i] : i \in DOMAIN q}
        PROVE  x \in {Head(q)} \cup {Tail(q)[i] : i \in DOMAIN Tail(q)}
    <2>1. PICK i \in 1..Len(q) : x = q[i]
        BY <1>1, <1>5
    <2>2. CASE i = 1
        BY <2>1, <2>2, <1>1
    <2>3. CASE i # 1
      <3>1. i - 1 \in 1..Len(q) - 1 /\ (i - 1) + 1 = i
          BY <1>2, <2>3
      <3>2. Tail(q)[i - 1] = x
          BY <3>1, <2>1, <1>1
      <3> QED
          BY <3>1, <3>2, <1>1
    <2> QED
        BY <2>2, <2>3
  <1>6. ASSUME NEW x \in {Head(q)} \cup {Tail(q)[i] : i \in DOMAIN Tail(q)}
        PROVE  x \in {q[i] : i \in DOMAIN q}
      BY <1>1, <1>3, <1>4, <1>6
  <1> QED
      BY <1>5, <1>6

-----------------------------------------------------------------------------
\* The inductive invariant

\* A handler that was told a position still has room below the bound.
HandlerInv == handler = "put" => accepted < MaxRequests

IInv == TypeOK /\ HandlerInv /\ QueueHoldsWaiting

\* The inductive invariant holds when main.py has been imported.
LEMMA InitIInv == Init => IInv
  <1> SUFFICES ASSUME Init PROVE IInv
      OBVIOUS
  <1>1. worker \in Threads
      BY ThreadsAssumption DEF Init
  <1>2. TypeOK
      BY <1>1, ThreadsAssumption, RequestsAssumption
      DEF Init, TypeOK, Callers, Requests, Pill, WorkerSteps, AutoSteps,
          StopSteps, RestartSteps
  <1>3. QueueHoldsWaiting
      BY DEF Init, QueueHoldsWaiting
  <1> QED
      BY <1>2, <1>3 DEF Init, IInv, HandlerInv

\* A step that leaves the queue and both counters alone keeps its order.
LEMMA QueueUnchanged ==
    ASSUME QueueHoldsWaiting, UNCHANGED <<queue, accepted, taken>>
    PROVE  QueueHoldsWaiting'
  BY DEF QueueHoldsWaiting

\* Neither does a pill at its end disturb the requests.
LEMMA PillAppended ==
    ASSUME IInv, queue' = Append(queue, Pill), UNCHANGED <<accepted, taken>>
    PROVE  queue' \in Seq({Pill} \cup Requests) /\ QueueHoldsWaiting'
  <1>1. queue \in Seq({Pill} \cup Requests) /\ Pill \in {Pill} \cup Requests
      BY DEF IInv, TypeOK
  <1>2. {queue'[i] : i \in DOMAIN queue'} \ {Pill} = (taken' + 1)..accepted'
    <2>1. {queue'[i] : i \in DOMAIN queue'}
              = {queue[i] : i \in DOMAIN queue} \cup {Pill}
        BY <1>1, AppendRange
    <2> QED
        BY <2>1 DEF IInv, QueueHoldsWaiting
  <1>3. ASSUME NEW i \in DOMAIN queue', NEW j \in DOMAIN queue',
               i < j, queue'[i] # Pill, queue'[j] # Pill
        PROVE  queue'[i] < queue'[j]
    <2>1. i \in DOMAIN queue /\ j \in DOMAIN queue
        BY <1>1, <1>3
    <2>2. queue'[i] = queue[i] /\ queue'[j] = queue[j]
        BY <1>1, <2>1
    <2> QED
        BY <1>3, <2>1, <2>2 DEF IInv, QueueHoldsWaiting
  <1>4. taken' <= accepted'
      BY DEF IInv, QueueHoldsWaiting
  <1> QED
      BY <1>1, <1>2, <1>3, <1>4 DEF QueueHoldsWaiting

\* A new request goes behind every other one and has the next number.
LEMMA RequestAppended ==
    ASSUME IInv, Enqueue
    PROVE  queue' \in Seq({Pill} \cup Requests) /\ QueueHoldsWaiting'
  <1>1. /\ queue' = Append(queue, accepted + 1)
        /\ accepted' = accepted + 1 /\ taken' = taken
        /\ accepted < MaxRequests
      BY DEF Enqueue, IInv, HandlerInv
  <1>2. /\ accepted \in Nat /\ taken \in Nat /\ MaxRequests \in Nat
        /\ taken <= accepted
      BY RequestsAssumption DEF IInv, TypeOK, QueueHoldsWaiting
  <1>3. accepted + 1 \in Requests
      BY <1>1, <1>2 DEF Requests
  <1>4. /\ queue \in Seq({Pill} \cup Requests)
        /\ accepted + 1 \in {Pill} \cup Requests
      BY <1>3 DEF IInv, TypeOK
  <1>5. {queue'[i] : i \in DOMAIN queue'} \ {Pill} = (taken' + 1)..accepted'
    <2>1. {queue'[i] : i \in DOMAIN queue'}
              = {queue[i] : i \in DOMAIN queue} \cup {accepted + 1}
        BY <1>1, <1>4, AppendRange
    <2>2. accepted + 1 # Pill
        BY <1>2 DEF Pill
    <2>3. {queue[i] : i \in DOMAIN queue} \ {Pill} = (taken + 1)..accepted
        BY DEF IInv, QueueHoldsWaiting
    <2>4. (taken + 1)..(accepted + 1)
              = (taken + 1)..accepted \cup {accepted + 1}
        BY <1>2
    <2> QED
        BY <2>1, <2>2, <2>3, <2>4, <1>1
  <1>6. ASSUME NEW i \in DOMAIN queue', NEW j \in DOMAIN queue',
               i < j, queue'[i] # Pill, queue'[j] # Pill
        PROVE  queue'[i] < queue'[j]
    <2>1. i \in DOMAIN queue /\ queue'[i] = queue[i]
        BY <1>1, <1>4, <1>6
    <2>2. queue[i] \in (taken + 1)..accepted
        BY <2>1, <1>6 DEF IInv, QueueHoldsWaiting
    <2>3. CASE j = Len(queue) + 1
      <3>1. queue'[j] = accepted + 1
          BY <2>3, <1>1, <1>4
      <3> QED
          BY <3>1, <2>1, <2>2, <1>2
    <2>4. CASE j # Len(queue) + 1
      <3>1. j \in DOMAIN queue /\ queue'[j] = queue[j]
          BY <1>1, <1>4, <1>6, <2>4
      <3> QED
          BY <3>1, <2>1, <1>6 DEF IInv, QueueHoldsWaiting
    <2> QED
        BY <2>3, <2>4
  <1>7. taken' <= accepted'
      BY <1>1, <1>2
  <1> QED
      BY <1>1, <1>4, <1>5, <1>6, <1>7 DEF QueueHoldsWaiting

\* The tail of the queue keeps the order of what is left.
LEMMA TailOrdered ==
    ASSUME IInv, queue # <<>>
    PROVE  \A i, j \in DOMAIN Tail(queue) :
             i < j /\ Tail(queue)[i] # Pill /\ Tail(queue)[j] # Pill
                 => Tail(queue)[i] < Tail(queue)[j]
  <1> SUFFICES ASSUME NEW i \in DOMAIN Tail(queue),
                      NEW j \in DOMAIN Tail(queue),
                      i < j, Tail(queue)[i] # Pill, Tail(queue)[j] # Pill
               PROVE  Tail(queue)[i] < Tail(queue)[j]
      OBVIOUS
  <1>1. queue \in Seq({Pill} \cup Requests)
      BY DEF IInv, TypeOK
  <1>2. /\ i + 1 \in DOMAIN queue /\ j + 1 \in DOMAIN queue /\ i + 1 < j + 1
        /\ Tail(queue)[i] = queue[i + 1] /\ Tail(queue)[j] = queue[j + 1]
      BY <1>1
  <1> QED
      BY <1>2 DEF IInv, QueueHoldsWaiting

\* The request at the head of the queue is the oldest one that waits.
LEMMA HeadIsOldest ==
    ASSUME IInv, queue # <<>>, Head(queue) # Pill
    PROVE  /\ Head(queue) = taken + 1
           /\ taken < accepted
           /\ \A i \in DOMAIN Tail(queue) : Tail(queue)[i] # taken + 1
  <1>1. /\ queue \in Seq({Pill} \cup Requests)
        /\ accepted \in Nat /\ taken \in Nat
      BY DEF IInv, TypeOK
  <1>2. Head(queue) = queue[1] /\ 1 \in DOMAIN queue
      BY <1>1
  <1>3. queue[1] \in (taken + 1)..accepted
      BY <1>2 DEF IInv, QueueHoldsWaiting
  <1>4. taken + 1 \in (taken + 1)..accepted
      BY <1>1, <1>3
  <1>5. PICK k \in DOMAIN queue : queue[k] = taken + 1
      BY <1>4 DEF IInv, QueueHoldsWaiting
  <1>6. taken + 1 # Pill
      BY <1>1 DEF Pill
  <1>7. ASSUME k # 1 PROVE FALSE
    <2>1. 1 < k
        BY <1>1, <1>5, <1>7
    <2>2. queue[1] < queue[k]
        BY <2>1, <1>2, <1>5, <1>6 DEF IInv, QueueHoldsWaiting
    <2> QED
        BY <2>2, <1>1, <1>3, <1>5
  <1>8. Head(queue) = taken + 1
      BY <1>2, <1>5, <1>7
  <1>9. ASSUME NEW i \in DOMAIN Tail(queue), Tail(queue)[i] = taken + 1
        PROVE  FALSE
    <2>1. i + 1 \in DOMAIN queue /\ 1 < i + 1 /\ queue[i + 1] = taken + 1
        BY <1>1, <1>9
    <2>2. queue[1] < queue[i + 1]
        BY <2>1, <1>2, <1>6 DEF IInv, QueueHoldsWaiting
    <2> QED
        BY <2>1, <2>2, <1>1, <1>2, <1>8
  <1> QED
      BY <1>1, <1>3, <1>8, <1>9

\* Taking a request from the head of the queue (process_queue, main.py:17)
\* starts the oldest of those that wait.
LEMMA RequestTaken ==
    ASSUME IInv, NEW t \in Threads, TakeRequest(t)
    PROVE  queue' \in Seq({Pill} \cup Requests) /\ QueueHoldsWaiting'
  <1>1. /\ queue \in Seq({Pill} \cup Requests) /\ queue # <<>>
        /\ queue' = Tail(queue) /\ Head(queue) # Pill
        /\ taken' = taken + 1 /\ accepted' = accepted
        /\ accepted \in Nat /\ taken \in Nat
      BY DEF TakeRequest, IInv, TypeOK
  <1>2. /\ Head(queue) = taken + 1 /\ taken < accepted
        /\ \A i \in DOMAIN Tail(queue) : Tail(queue)[i] # taken + 1
      BY <1>1, HeadIsOldest
  <1>3. {queue[i] : i \in DOMAIN queue}
            = {taken + 1} \cup {queue'[i] : i \in DOMAIN queue'}
    <2>1. {queue[i] : i \in DOMAIN queue}
              = {Head(queue)} \cup {Tail(queue)[i] : i \in DOMAIN Tail(queue)}
        BY <1>1, HeadTailRange
    <2> QED
        BY <2>1, <1>1, <1>2
  <1>4. {queue[i] : i \in DOMAIN queue} \ {Pill} = (taken + 1)..accepted
      BY DEF IInv, QueueHoldsWaiting
  <1>5. (taken + 1)..accepted = {taken + 1} \cup (taken + 2)..accepted
      BY <1>1, <1>2
  <1>6. taken + 1 \notin (taken + 2)..accepted
      BY <1>1
  <1>7. taken + 1 \notin {queue'[i] : i \in DOMAIN queue'}
      BY <1>1, <1>2
  <1>8. taken + 1 # Pill
      BY <1>1 DEF Pill
  <1>9. {queue'[i] : i \in DOMAIN queue'} \ {Pill} = (taken + 2)..accepted
      BY <1>3, <1>4, <1>5, <1>6, <1>7, <1>8
  <1>10. (taken + 1) + 1 = taken + 2 /\ taken + 1 <= accepted
      BY <1>1, <1>2
  <1>11. queue' \in Seq({Pill} \cup Requests)
      BY <1>1
  <1> QED
      BY <1>1, <1>9, <1>10, <1>11, TailOrdered DEF QueueHoldsWaiting

\* Taking a pill from the head of the queue changes no request.
LEMMA PillTaken ==
    ASSUME IInv, NEW t \in Threads, TakePill(t)
    PROVE  queue' \in Seq({Pill} \cup Requests) /\ QueueHoldsWaiting'
  <1>1. /\ queue \in Seq({Pill} \cup Requests) /\ queue # <<>>
        /\ queue' = Tail(queue) /\ Head(queue) = Pill
        /\ taken' = taken /\ accepted' = accepted
      BY DEF TakePill, IInv, TypeOK
  <1>2. {queue[i] : i \in DOMAIN queue}
            = {Pill} \cup {queue'[i] : i \in DOMAIN queue'}
    <2>1. {queue[i] : i \in DOMAIN queue}
              = {Head(queue)} \cup {Tail(queue)[i] : i \in DOMAIN Tail(queue)}
        BY <1>1, HeadTailRange
    <2> QED
        BY <2>1, <1>1
  <1>3. {queue'[i] : i \in DOMAIN queue'} \ {Pill} = (taken' + 1)..accepted'
      BY <1>1, <1>2 DEF IInv, QueueHoldsWaiting
  <1>4. taken' <= accepted'
      BY <1>1 DEF IInv, QueueHoldsWaiting
  <1> QED
      BY <1>1, <1>3, <1>4, TailOrdered DEF QueueHoldsWaiting

-----------------------------------------------------------------------------
\* Every action keeps the inductive invariant

\* The steps of the /run handler (main.py:57) keep the invariant.
LEMMA RequestKeeps == IInv /\ Request => IInv'
  <1> SUFFICES ASSUME IInv, Request PROVE IInv'
      OBVIOUS
  <1>1. CASE ReadPosition
    <2>1. accepted + 1 \in Requests /\ Len(queue) + 1 \in Nat
        BY <1>1, RequestsAssumption DEF ReadPosition, IInv, TypeOK, Requests
    <2>2. TypeOK' /\ HandlerInv'
        BY <1>1, <2>1 DEF ReadPosition, IInv, TypeOK, HandlerInv
    <2> QED
        BY <1>1, <2>2, QueueUnchanged DEF ReadPosition, IInv
  <1>2. CASE Enqueue
    <2>1. queue' \in Seq({Pill} \cup Requests) /\ QueueHoldsWaiting'
        BY <1>2, RequestAppended
    <2>2. TypeOK' /\ HandlerInv'
        BY <1>2, <2>1, RequestsAssumption
        DEF Enqueue, IInv, TypeOK, HandlerInv, Requests
    <2> QED
        BY <2>1, <2>2 DEF IInv
  <1> QED
      BY <1>1, <1>2 DEF Request

\* The steps of process_queue (main.py:15) keep the invariant.
LEMMA LoopKeeps ==
    ASSUME IInv, NEW t \in Threads,
           TakeRequest(t) \/ TakePill(t) \/ RunBegins(t) \/ RunEnds(t)
    PROVE  IInv'
  <1> USE ThreadsAssumption
      DEF IInv, TypeOK, HandlerInv, Callers, WorkerSteps, RestartSteps
  <1>1. CASE TakeRequest(t)
    <2>1. queue' \in Seq({Pill} \cup Requests) /\ QueueHoldsWaiting'
        BY <1>1, RequestTaken
    <2>2. Head(queue) \in {Pill} \cup Requests
        BY <1>1 DEF TakeRequest
    <2>3. taken' \in 0..MaxRequests
        BY <1>1, RequestsAssumption, HeadIsOldest DEF TakeRequest
    <2>4. TypeOK' /\ HandlerInv'
        BY <1>1, <2>1, <2>2, <2>3 DEF TakeRequest
    <2> QED
        BY <2>1, <2>4
  <1>2. CASE TakePill(t)
    <2>1. queue' \in Seq({Pill} \cup Requests) /\ QueueHoldsWaiting'
        BY <1>2, PillTaken
    <2>2. TypeOK' /\ HandlerInv'
        BY <1>2, <2>1 DEF TakePill
    <2> QED
        BY <2>1, <2>2
  <1>3. CASE RunBegins(t)
    <2>1. TypeOK' /\ HandlerInv'
        BY <1>3 DEF RunBegins
    <2> QED
        BY <1>3, <2>1, QueueUnchanged DEF RunBegins
  <1>4. CASE RunReturns(t)
    <2>1. TypeOK' /\ HandlerInv'
        BY <1>4 DEF RunReturns
    <2> QED
        BY <1>4, <2>1, QueueUnchanged DEF RunReturns
  <1>5. CASE RunRaises(t)
    <2>1. TypeOK' /\ HandlerInv'
        BY <1>5 DEF RunRaises
    <2> QED
        BY <1>5, <2>1, QueueUnchanged DEF RunRaises
  <1>6. CASE RunExits(t)
    <2>1. TypeOK' /\ HandlerInv'
        BY <1>6 DEF RunExits
    <2> QED
        BY <1>6, <2>1, QueueUnchanged DEF RunExits
  <1> QED
      BY <1>1, <1>2, <1>3, <1>4, <1>5, <1>6 DEF RunEnds

\* A step of restart_worker() moves its caller to another of its steps, back
\* to its loop or to its end.
PcTypeOK == /\ pc \in [Callers -> WorkerSteps \cup AutoSteps \cup StopSteps]
            /\ \A t \in Threads : pc[t] \in WorkerSteps
            /\ pc[AutoThread] \in AutoSteps
            /\ pc[StopThread] \in StopSteps

\* A caller goes on to a step that its kind of thread has.
LEMMA CallerMoves ==
    ASSUME PcTypeOK, NEW c \in Threads \cup {AutoThread},
           NEW v \in {"ended"} \cup RestartSteps, pc' = [pc EXCEPT ![c] = v]
    PROVE  PcTypeOK'
  BY ThreadsAssumption
  DEF PcTypeOK, Callers, WorkerSteps, AutoSteps, RestartSteps

\* So do a caller and the worker it creates or starts.
LEMMA CallerAndThreadMove ==
    ASSUME PcTypeOK, NEW c \in Threads \cup {AutoThread}, NEW t \in Threads,
           NEW v, v \in (IF c = AutoThread THEN AutoSteps ELSE WorkerSteps),
           NEW w \in WorkerSteps,
           \/ pc' = [pc EXCEPT ![c] = v, ![t] = w]
           \/ pc' = [pc EXCEPT ![t] = w, ![c] = v]
    PROVE  PcTypeOK'
  <1>1. CASE c = AutoThread
      BY <1>1, ThreadsAssumption DEF PcTypeOK, Callers
  <1>2. CASE c \in Threads
      BY <1>2, ThreadsAssumption DEF PcTypeOK, Callers
  <1> QED
      BY <1>1, <1>2

\* The steps of restart_worker (main.py:29) keep the invariant.
LEMMA RestartKeeps ==
    ASSUME IInv, NEW c \in Threads \cup {AutoThread}, Restart(c)
    PROVE  IInv'
  <1> USE ThreadsAssumption DEF IInv, HandlerInv
  <1>0. PcTypeOK /\ c \in Callers
      BY DEF TypeOK, PcTypeOK, Callers
  <1>1. CASE RestartPut(c)
    <2>1. queue' \in Seq({Pill} \cup Requests) /\ QueueHoldsWaiting'
        BY <1>1, PillAppended DEF RestartPut
    <2>2. PcTypeOK'
        BY <1>0, <1>1, CallerMoves DEF RestartPut, RestartSteps
    <2>3. TypeOK' /\ HandlerInv'
        BY <1>1, <2>1, <2>2 DEF RestartPut, TypeOK, PcTypeOK
    <2> QED
        BY <2>1, <2>3
  <1>2. CASE RestartTest(c)
    <2>1. PcTypeOK'
        BY <1>0, <1>2, CallerMoves DEF RestartTest, RestartSteps
    <2>2. TypeOK' /\ HandlerInv'
        BY <1>2, <2>1 DEF RestartTest, TypeOK, PcTypeOK
    <2> QED
        BY <1>2, <2>2, QueueUnchanged DEF RestartTest
  <1>3. CASE RestartJoin(c)
    <2>1. PcTypeOK'
        BY <1>0, <1>3, CallerMoves DEF RestartJoin, RestartSteps, ErrorEnds
    <2>2. target' \in [Callers -> Threads \cup {NoThread}] /\ lost' \in Nat
        BY <1>0, <1>3 DEF RestartJoin, ErrorEnds, TypeOK
    <2>3. TypeOK' /\ HandlerInv'
        BY <1>3, <2>1, <2>2 DEF RestartJoin, TypeOK, PcTypeOK
    <2> QED
        BY <1>3, <2>3, QueueUnchanged DEF RestartJoin
  <1>4. CASE RestartWait(c)
    <2>1. PcTypeOK'
        BY <1>0, <1>4, CallerMoves DEF RestartWait, RestartSteps
    <2>2. target' \in [Callers -> Threads \cup {NoThread}]
        BY <1>0, <1>4 DEF RestartWait, TypeOK
    <2>3. TypeOK' /\ HandlerInv'
        BY <1>4, <2>1, <2>2 DEF RestartWait, TypeOK, PcTypeOK
    <2> QED
        BY <1>4, <2>3, QueueUnchanged DEF RestartWait
  <1>5. CASE RestartNew(c)
    <2>1. PICK t \in Threads :
              worker' = t /\ pc' = [pc EXCEPT ![c] = "start", ![t] = "created"]
        BY <1>5 DEF RestartNew, Fresh
    <2>2. PcTypeOK'
        BY <1>0, <2>1, CallerAndThreadMove
        DEF RestartSteps, WorkerSteps, AutoSteps
    <2>3. TypeOK' /\ HandlerInv'
        BY <1>5, <2>1, <2>2 DEF RestartNew, TypeOK, PcTypeOK
    <2> QED
        BY <1>5, <2>3, QueueUnchanged DEF RestartNew
  <1>6. CASE RestartStart(c)
    <2>1. worker \in Threads
        BY DEF TypeOK
    <2>2. PcTypeOK'
      <3>1. CASE pc[worker] = "created"
          BY <1>0, <1>6, <2>1, <3>1, CallerAndThreadMove
          DEF RestartStart, AfterRestart, WorkerSteps, AutoSteps
      <3>2. CASE pc[worker] # "created"
          BY <1>0, <1>6, <3>2, CallerMoves DEF RestartStart, ErrorEnds
      <3> QED
          BY <3>1, <3>2
    <2>3. lost' \in Nat
        BY <1>6 DEF RestartStart, ErrorEnds, TypeOK
    <2>4. TypeOK' /\ HandlerInv'
        BY <1>6, <2>2, <2>3 DEF RestartStart, TypeOK, PcTypeOK
    <2> QED
        BY <1>6, <2>4, QueueUnchanged DEF RestartStart
  <1> QED
      BY <1>1, <1>2, <1>3, <1>4, <1>5, <1>6 DEF Restart

\* The steps of stop_worker (main.py:51) keep the invariant.
LEMMA StoppingKeeps ==
    ASSUME IInv, AutoWakes \/ Stopping
    PROVE  IInv'
  <1> USE ThreadsAssumption
      DEF IInv, TypeOK, HandlerInv, Callers, AutoSteps, StopSteps, RestartSteps
  <1>1. CASE AutoWakes
    <2>1. TypeOK' /\ HandlerInv'
        BY <1>1 DEF AutoWakes
    <2> QED
        BY <1>1, <2>1, QueueUnchanged DEF AutoWakes
  <1>2. CASE StopBegins
    <2>1. queue' \in Seq({Pill} \cup Requests) /\ QueueHoldsWaiting'
        BY <1>2, PillAppended DEF StopBegins
    <2>2. TypeOK' /\ HandlerInv'
        BY <1>2, <2>1 DEF StopBegins
    <2> QED
        BY <2>1, <2>2
  <1>3. CASE StopJoin
    <2>1. TypeOK' /\ HandlerInv'
        BY <1>3 DEF StopJoin
    <2> QED
        BY <1>3, <2>1, QueueUnchanged DEF StopJoin
  <1>4. CASE StopWait
    <2>1. TypeOK' /\ HandlerInv'
        BY <1>4 DEF StopWait
    <2> QED
        BY <1>4, <2>1, QueueUnchanged DEF StopWait
  <1>5. CASE StopReturns
    <2>1. TypeOK' /\ HandlerInv'
        BY <1>5 DEF StopReturns
    <2> QED
        BY <1>5, <2>1, QueueUnchanged DEF StopReturns
  <1> QED
      BY <1>1, <1>2, <1>3, <1>4, <1>5 DEF Stopping

\* Every step keeps the invariant.
LEMMA NextIInv == IInv /\ [Next]_vars => IInv'
  <1> SUFFICES ASSUME IInv, [Next]_vars PROVE IInv'
      OBVIOUS
  <1>1. CASE Request
      BY <1>1, RequestKeeps
  <1>2. ASSUME NEW t \in Threads, WorkerStep(t) PROVE IInv'
      BY <1>2, LoopKeeps, RestartKeeps DEF WorkerStep, Serve
  <1>3. CASE AutoStep
      BY <1>3, StoppingKeeps, RestartKeeps DEF AutoStep
  <1>4. CASE Stopping
      BY <1>4, StoppingKeeps
  <1>5. CASE UNCHANGED vars
      BY <1>5 DEF vars, IInv, TypeOK, HandlerInv, QueueHoldsWaiting
  <1> QED
      BY <1>1, <1>2, <1>3, <1>4, <1>5 DEF Next

\* The invariant holds of every behaviour.
LEMMA Invariance == Spec => []IInv
  BY InitIInv, NextIInv, PTL DEF Spec

\* The state of the service keeps its types.
THEOREM TypeCorrect == Spec => []TypeOK
  <1>1. IInv => TypeOK
      BY DEF IInv
  <1> QED
      BY Invariance, <1>1, PTL

\* No interleaving of requests and restarts (main.py:15-57) drops, repeats or
\* reorders a request: the queue holds exactly those that wait, oldest first.
THEOREM QueueOrder == Spec => []QueueHoldsWaiting
  <1>1. IInv => QueueHoldsWaiting
      BY DEF IInv
  <1> QED
      BY Invariance, <1>1, PTL

-----------------------------------------------------------------------------
\* RescanQueue implements RequestService

\* A request in the hands of a worker was taken, was not begun, and is in no
\* other worker's hands; what was begun was taken.
HandInv ==
    /\ begun \subseteq 1..taken
    /\ \A t \in Threads : pc[t] = "taken" => task[t] \in (1..taken) \ begun
    /\ \A t, u \in Threads :
         t # u /\ pc[t] = "taken" /\ pc[u] = "taken" => task[t] # task[u]

\* The invariant of the requests in hand holds at first.
LEMMA InitHandInv == Init => HandInv
  <1> SUFFICES ASSUME Init PROVE HandInv
      OBVIOUS
  <1>1. worker \in Threads
      BY ThreadsAssumption DEF Init
  <1>2. \A t \in Threads : pc[t] # "taken"
      BY <1>1, ThreadsAssumption DEF Init, Callers
  <1> QED
      BY <1>2 DEF Init, HandInv

\* Nobody takes or begins a request.
HandsRest ==
    /\ begun' = begun /\ taken' = taken
    /\ \A t \in Threads :
         /\ pc'[t] = "taken" <=> pc[t] = "taken"
         /\ pc[t] = "taken" => task'[t] = task[t]

\* Only process_queue (main.py:17, 22) takes a request up and begins its run.
LEMMA OnlyLoopHandles ==
    ASSUME IInv, [Next]_vars,
           \A t \in Threads : ~TakeRequest(t) /\ ~RunBegins(t)
    PROVE  HandsRest
  <1> USE ThreadsAssumption DEF IInv, TypeOK, Callers, HandsRest
  <1>1. CASE Request
      BY <1>1 DEF Request, ReadPosition, Enqueue
  <1>2. ASSUME NEW t \in Threads,
               TakePill(t) \/ RunReturns(t) \/ RunRaises(t) \/ RunExits(t)
        PROVE  HandsRest
      BY <1>2 DEF TakePill, RunReturns, RunRaises, RunExits
  <1>3. ASSUME NEW c \in Threads \cup {AutoThread}, Restart(c)
        PROVE  HandsRest
    <2>1. CASE RestartPut(c) \/ RestartTest(c) \/ RestartJoin(c)
                 \/ RestartWait(c)
        BY <2>1
        DEF RestartPut, RestartTest, RestartJoin, RestartWait, ErrorEnds
    <2>2. CASE RestartNew(c)
      <3>1. PICK t \in Fresh :
                pc' = [pc EXCEPT ![c] = "start", ![t] = "created"]
          BY <2>2 DEF RestartNew
      <3>2. t \in Threads /\ pc[t] \in {"ended", "created"} /\ pc[c] = "new"
          BY <2>2 DEF Fresh, RestartNew
      <3>3. UNCHANGED <<task, taken, begun>>
          BY <2>2 DEF RestartNew
      <3> QED
          BY <3>1, <3>2, <3>3
    <2>3. CASE RestartStart(c)
        BY <2>3 DEF RestartStart, AfterRestart, ErrorEnds
    <2> QED
        BY <1>3, <2>1, <2>2, <2>3 DEF Restart
  <1>4. CASE AutoWakes \/ Stopping
      BY <1>4 DEF AutoWakes, Stopping, StopBegins, StopJoin, StopWait,
                  StopReturns
  <1>5. CASE UNCHANGED vars
      BY <1>5 DEF vars
  <1> QED
      BY <1>1, <1>2, <1>3, <1>4, <1>5
      DEF Next, WorkerStep, Serve, RunEnds, AutoStep

\* Every step keeps the invariant of the requests in hand: each is taken with
\* the next number, by one worker, and begins once.
LEMMA NextHandInv == IInv /\ HandInv /\ [Next]_vars => HandInv'
  <1> SUFFICES ASSUME IInv, HandInv, [Next]_vars PROVE HandInv'
      OBVIOUS
  <1>1. ASSUME NEW t \in Threads, TakeRequest(t) PROVE HandInv'
    <2>1. /\ Head(queue) = taken + 1 /\ taken \in Nat
          /\ t \in Callers /\ pc \in [Callers -> WorkerSteps \cup AutoSteps
                                                   \cup StopSteps]
          /\ task \in [Threads -> {Pill} \cup Requests]
        BY <1>1, HeadIsOldest DEF TakeRequest, IInv, TypeOK, Callers
    <2>2. /\ taken' = taken + 1 /\ begun' = begun
          /\ task' = [task EXCEPT ![t] = taken + 1]
          /\ pc' = [pc EXCEPT ![t] = "taken"]
        BY <1>1, <2>1 DEF TakeRequest
    <2>3. \A u \in Threads : u # t => pc'[u] = pc[u] /\ task'[u] = task[u]
        BY <2>1, <2>2 DEF Callers
    <2>4. task'[t] = taken + 1
        BY <2>1, <2>2
    <2>5. \A u \in Threads : pc[u] = "taken" => task[u] \in (1..taken) \ begun
        BY DEF HandInv
    <2>6. begun' \subseteq 1..taken' /\ taken + 1 \notin begun
        BY <2>1, <2>2 DEF HandInv
    <2>7. \A u \in Threads :
              pc'[u] = "taken" => task'[u] \in (1..taken') \ begun'
        BY <2>1, <2>2, <2>3, <2>4, <2>5, <2>6
    <2>8. \A u, v \in Threads :
              u # v /\ pc'[u] = "taken" /\ pc'[v] = "taken"
                  => task'[u] # task'[v]
        BY <2>1, <2>3, <2>4, <2>5 DEF HandInv
    <2> QED
        BY <2>6, <2>7, <2>8 DEF HandInv
  <1>2. ASSUME NEW t \in Threads, RunBegins(t) PROVE HandInv'
    <2>1. /\ pc[t] = "taken" /\ begun' = begun \cup {task[t]}
          /\ taken' = taken /\ task' = task
          /\ \A u \in Threads : pc'[u] = "taken" => pc[u] = "taken" /\ u # t
        BY <1>2, ThreadsAssumption DEF RunBegins, IInv, TypeOK, Callers
    <2> QED
        BY <2>1 DEF HandInv
  <1>3. CASE \A t \in Threads : ~TakeRequest(t) /\ ~RunBegins(t)
      BY <1>3, OnlyLoopHandles DEF HandInv, HandsRest
  <1> QED
      BY <1>1, <1>2, <1>3

\* What waits for the service is what no worker has taken.
LEMMA QueuedAreWaiting == IInv => Queued = (taken + 1)..accepted
  BY DEF IInv, QueueHoldsWaiting, Queued

\* A step of RescanQueue is a step of RequestService or leaves it alone.
LEMMA StepImplements ==
    ASSUME IInv, HandInv, [Next]_vars
    PROVE  [Service!Next]_<<accepted, Queued, InHand, begun>>
  <1>0. /\ IInv' /\ accepted \in Nat /\ taken \in Nat /\ taken <= accepted
        /\ Queued = (taken + 1)..accepted
        /\ Queued' = (taken' + 1)..accepted'
    <2>1. IInv'
        BY NextIInv
    <2>2. Queued' = (taken' + 1)..accepted'
        BY <2>1 DEF IInv, QueueHoldsWaiting, Queued
    <2> QED
        BY <2>1, <2>2, QueuedAreWaiting DEF IInv, TypeOK, QueueHoldsWaiting
  <1>1. ASSUME NEW t \in Threads, TakeRequest(t) PROVE Service!Take
    <2>1. /\ Head(queue) = taken + 1 /\ taken < accepted
          /\ t \in Callers /\ pc \in [Callers -> WorkerSteps \cup AutoSteps
                                                   \cup StopSteps]
          /\ task \in [Threads -> {Pill} \cup Requests]
        BY <1>1, HeadIsOldest DEF TakeRequest, IInv, TypeOK, Callers
    <2>2. /\ taken' = taken + 1 /\ accepted' = accepted /\ begun' = begun
          /\ task' = [task EXCEPT ![t] = taken + 1] /\ pc[t] = "get"
          /\ pc' = [pc EXCEPT ![t] = "taken"]
        BY <1>1, <2>1 DEF TakeRequest
    <2>3. taken + 1 \in Queued /\ \A q \in Queued : taken + 1 <= q
        BY <1>0, <2>1
    <2>4. Queued' = Queued \ {taken + 1}
        BY <1>0, <2>1, <2>2
    <2>5. \A u \in Threads : u # t => pc'[u] = pc[u] /\ task'[u] = task[u]
        BY <2>1, <2>2 DEF Callers
    <2>6. task'[t] = taken + 1 /\ pc'[t] = "taken"
        BY <2>1, <2>2
    <2>7. InHand' = InHand \cup {taken + 1}
        BY <2>2, <2>5, <2>6 DEF InHand
    <2> QED
        BY <2>2, <2>3, <2>4, <2>7 DEF Service!Take
  <1>2. ASSUME NEW t \in Threads, RunBegins(t) PROVE Service!Begin
    <2>1. /\ pc[t] = "taken" /\ begun' = begun \cup {task[t]}
          /\ taken' = taken /\ accepted' = accepted /\ task' = task
          /\ \A u \in Threads :
                pc'[u] = "taken" <=> pc[u] = "taken" /\ u # t
        BY <1>2, ThreadsAssumption DEF RunBegins, IInv, TypeOK, Callers
    <2>2. task[t] \in InHand \ begun
        BY <2>1 DEF HandInv, InHand
    <2>3. InHand' = InHand \ {task[t]}
        BY <2>1 DEF HandInv, InHand
    <2>4. Queued' = Queued
        BY <1>0, <2>1
    <2> QED
        BY <2>1, <2>2, <2>3, <2>4 DEF Service!Begin
  <1>3. CASE \A t \in Threads : ~TakeRequest(t) /\ ~RunBegins(t)
    <2>1. begun' = begun /\ taken' = taken /\ InHand' = InHand
        BY <1>3, OnlyLoopHandles DEF HandsRest, InHand
    <2>2. CASE Enqueue
      <3>1. accepted' = accepted + 1
          BY <2>2 DEF Enqueue
      <3>2. Queued' = Queued \cup {accepted + 1}
          BY <1>0, <2>1, <3>1
      <3> QED
          BY <2>1, <3>1, <3>2 DEF Service!Next, Service!Accept
    <2>3. CASE ~Enqueue
      <3>1. accepted' = accepted
          BY <2>3
          DEF Next, vars, Request, WorkerStep, Serve, RunEnds, AutoStep,
              Stopping, ReadPosition, TakeRequest, TakePill, RunBegins,
              RunReturns, RunRaises, RunExits, Restart, RestartPut,
              RestartTest, RestartJoin, RestartWait, RestartNew,
              RestartStart, AutoWakes, StopBegins, StopJoin, StopWait,
              StopReturns
      <3> QED
          BY <1>0, <2>1, <3>1
    <2> QED
        BY <2>2, <2>3
  <1> QED
      BY <1>1, <1>2, <1>3 DEF Service!Next

\* Every behaviour of the threads and the queue is one of the service: each
\* request that is accepted waits, is in hand or has begun; none overtakes
\* another one while both wait, and none begins twice (main.py:15-35, 57-73).
THEOREM Implementation == Spec => ServiceSpec
  <1>1. Init => Service!Init
      BY InitHandInv DEF Init, Service!Init, Queued, InHand, HandInv
  <1>2. IInv /\ HandInv /\ [Next]_vars
            => [Service!Next]_<<accepted, Queued, InHand, begun>>
      BY StepImplements
  <1> QED
      BY <1>1, <1>2, InitHandInv, NextHandInv, Invariance, PTL
      DEF Spec, ServiceSpec, Service!Spec

-----------------------------------------------------------------------------
\* Positions

\* The queue is at least as long as the number of requests that wait in it.
LEMMA PillsCounted == IInv => QueuedPills \in Nat
  <1> SUFFICES ASSUME IInv PROVE Len(queue) - (accepted - taken) \in Nat
      BY DEF QueuedPills, Waiting
  <1>1. /\ queue \in Seq({Pill} \cup Requests)
        /\ accepted \in Nat /\ taken \in Nat /\ taken <= accepted
        /\ Len(queue) \in Nat /\ DOMAIN queue = 1..Len(queue)
      BY DEF IInv, TypeOK, QueueHoldsWaiting
  <1> DEFINE W == (taken + 1)..accepted
             place == [r \in W |-> CHOOSE i \in DOMAIN queue : queue[i] = r]
  <1>2. \A r \in W : \E i \in DOMAIN queue : queue[i] = r
      BY DEF IInv, QueueHoldsWaiting
  <1>3. \A r \in W : place[r] \in DOMAIN queue /\ queue[place[r]] = r
      BY <1>2
  <1>4. place \in Injection(W, 1..Len(queue))
    <2>1. place \in [W -> 1..Len(queue)]
        BY <1>1, <1>3
    <2>2. \A a, b \in W : place[a] = place[b] => a = b
        BY <1>3
    <2> QED
        BY <2>1, <2>2 DEF Injection, IsInjective
  <1>5. IsFiniteSet(1..Len(queue)) /\ Cardinality(1..Len(queue)) = Len(queue)
      BY <1>1, FS_Interval
  <1>6. Cardinality(W) <= Len(queue)
      BY <1>4, <1>5, FS_Injection
  <1>7. Cardinality(W) = accepted - taken
    <2>1. taken + 1 \in Int /\ accepted \in Int
        BY <1>1
    <2>2. Cardinality(W) = IF taken + 1 > accepted
                           THEN 0 ELSE accepted - (taken + 1) + 1
        BY <2>1, FS_Interval
    <2> QED
        BY <1>1, <2>2
  <1> QED
      BY <1>1, <1>6, <1>7

\* Between qsize() and put() the position that was noted stays good enough.
TicketInv ==
    /\ NeverTooOptimistic
    /\ handler = "put" => ticket[accepted + 1] >= accepted + 1 - taken

\* No request has a position at first.
LEMMA InitTicketInv == Init => TicketInv
  BY DEF Init, TicketInv, NeverTooOptimistic

\* Every step keeps the invariant of the positions: a position is read from
\* the queue (main.py:63) while the requests before it can only leave it.
LEMMA NextTicketInv == IInv /\ TicketInv /\ [Next]_vars => TicketInv'
  <1> SUFFICES ASSUME IInv, TicketInv, [Next]_vars PROVE TicketInv'
      OBVIOUS
  <1>0. /\ accepted \in Nat /\ taken \in Nat /\ MaxRequests \in Nat
        /\ ticket \in [Requests -> Nat] /\ Requests = 1..MaxRequests
        /\ taken <= accepted /\ accepted <= MaxRequests
        /\ handler = "put" => accepted < MaxRequests
        /\ Len(queue) \in Nat
      BY RequestsAssumption
      DEF IInv, TypeOK, Requests, QueueHoldsWaiting, HandlerInv
  <1>1. CASE ReadPosition
    <2>1. Len(queue) >= accepted - taken
        BY <1>0, PillsCounted DEF QueuedPills, Waiting
    <2>2. /\ ticket' = [ticket EXCEPT ![accepted + 1] = Len(queue) + 1]
          /\ accepted' = accepted /\ taken' = taken
          /\ accepted + 1 \in Requests
        BY <1>0, <1>1 DEF ReadPosition
    <2>3. ticket'[accepted + 1] >= accepted + 1 - taken
        BY <1>0, <2>1, <2>2
    <2>4. \A r \in (taken + 1)..accepted : ticket'[r] = ticket[r]
        BY <1>0, <2>2
    <2> QED
        BY <2>2, <2>3, <2>4 DEF TicketInv, NeverTooOptimistic
  <1>2. CASE Enqueue
    <2>1. /\ ticket' = ticket /\ accepted' = accepted + 1 /\ taken' = taken
          /\ handler = "put" /\ handler' = "idle"
        BY <1>2 DEF Enqueue
    <2>2. \A r \in (taken + 1)..(accepted + 1) :
              r \in (taken + 1)..accepted \/ r = accepted + 1
        BY <1>0
    <2>3. ASSUME NEW r \in (taken + 1)..(accepted + 1)
          PROVE  ticket[r] >= r - taken
      <3>1. ticket[accepted + 1] >= accepted + 1 - taken
          BY <2>1 DEF TicketInv
      <3>2. \A s \in (taken + 1)..accepted : ticket[s] >= s - taken
          BY DEF TicketInv, NeverTooOptimistic
      <3>3. CASE r = accepted + 1
        <4>1. accepted + 1 \in Requests
            BY <1>0, <2>1
        <4>2. ticket[accepted + 1] \in Nat
            BY <1>0, <4>1
        <4> QED
            BY <1>0, <3>1, <3>3, <4>2
      <3>4. CASE r \in (taken + 1)..accepted
          BY <3>2, <3>4
      <3> QED
          BY <2>2, <3>3, <3>4
    <2>4. NeverTooOptimistic'
        BY <2>1, <2>3 DEF NeverTooOptimistic
    <2>5. handler' # "put"
        BY <2>1
    <2> QED
        BY <2>4, <2>5 DEF TicketInv
  <1>3. ASSUME NEW t \in Threads, TakeRequest(t) PROVE TicketInv'
    <2>1. /\ ticket' = ticket /\ accepted' = accepted /\ handler' = handler
          /\ taken' = taken + 1
        BY <1>3 DEF TakeRequest
    <2>2. \A r \in (taken + 2)..accepted :
              r \in (taken + 1)..accepted /\ ticket[r] \in Nat
        BY <1>0
    <2>3. \A r \in (taken + 2)..accepted : ticket[r] >= r - (taken + 1)
        BY <1>0, <2>2 DEF TicketInv, NeverTooOptimistic
    <2>4. ASSUME handler = "put"
          PROVE  ticket[accepted + 1] >= accepted + 1 - (taken + 1)
      <3>1. accepted + 1 \in Requests
          BY <1>0, <2>4
      <3>2. ticket[accepted + 1] \in Nat
          BY <1>0, <3>1
      <3>3. ticket[accepted + 1] >= accepted + 1 - taken
          BY <2>4 DEF TicketInv
      <3> QED
          BY <1>0, <3>2, <3>3
    <2>5. (taken + 1) + 1 = taken + 2
        BY <1>0
    <2> QED
        BY <2>1, <2>3, <2>4, <2>5 DEF TicketInv, NeverTooOptimistic
  <1>4. CASE UNCHANGED <<ticket, handler, accepted, taken>>
      BY <1>4 DEF TicketInv, NeverTooOptimistic
  <1>5. \/ ReadPosition \/ Enqueue
        \/ \E t \in Threads : TakeRequest(t)
        \/ UNCHANGED <<ticket, handler, accepted, taken>>
      BY DEF Next, vars, Request, WorkerStep, Serve, RunEnds, AutoStep, Stopping,
         TakePill, RunBegins, RunReturns, RunRaises, RunExits, Restart, RestartPut, RestartTest,
         RestartJoin, RestartWait, RestartNew, RestartStart, AutoWakes,
         StopBegins, StopJoin, StopWait, StopReturns
  <1> QED
      BY <1>1, <1>2, <1>3, <1>4, <1>5

\* Nobody is told a better place than the one it has: pills and requests that
\* start meanwhile only make the position of main.py:63 too pessimistic.
THEOREM PositionsHonest == Spec => []NeverTooOptimistic
  <1>1. TicketInv => NeverTooOptimistic
      BY DEF TicketInv
  <1> QED
      BY InitTicketInv, NextTicketInv, Invariance, <1>1, PTL DEF Spec

-----------------------------------------------------------------------------
\* The conservation of workers

\* Both sets are finite.
LEMMA CensusFinite ==
    /\ IsFiniteSet(Live) /\ IsFiniteSet(Restarting)
    /\ Cardinality(Live) \in Nat /\ Cardinality(Restarting) \in Nat
  <1>1. IsFiniteSet(Threads) /\ IsFiniteSet(Threads \cup {AutoThread})
      BY ThreadsAssumption, FS_AddElement
  <1>2. /\ Live \in SUBSET Threads
        /\ Restarting \in SUBSET (Threads \cup {AutoThread})
      BY DEF Live, Restarting
  <1>3. IsFiniteSet(Live) /\ IsFiniteSet(Restarting)
      BY <1>1, <1>2, FS_Subset
  <1> QED
      BY <1>3, FS_CardinalityType

\* At the start one worker lives, and the queue is empty.
LEMMA InitBalance == Init => Balance
  <1> SUFFICES ASSUME Init PROVE Balance
      OBVIOUS
  <1>1. worker \in Threads
      BY ThreadsAssumption DEF Init
  <1>2. Live = {worker}
      BY <1>1, ThreadsAssumption DEF Init, Live, Callers
  <1>3. Restarting = {}
      BY <1>1, ThreadsAssumption DEF Init, Restarting, Callers
  <1>4. Cardinality(Live) = 1 /\ Cardinality(Restarting) = 0
      BY <1>2, <1>3, FS_Singleton, FS_EmptySet
  <1>5. queue = <<>> /\ accepted = 0 /\ taken = 0 /\ lost = 0
      BY DEF Init
  <1>6. QueuedPills = 0
      BY <1>5 DEF QueuedPills, Waiting
  <1> QED
      BY <1>4, <1>5, <1>6 DEF Balance

\* What a step does to the census decides what it does to the balance.
LEMMA BalanceKept ==
    ASSUME TypeOK, Balance, Live' = Live, Restarting' = Restarting,
           lost' = lost, QueuedPills' = QueuedPills
    PROVE  Balance'
  BY DEF Balance

\* Steps in which worker t moves within its loop.
LEMMA CensusInLoop ==
    ASSUME TypeOK, NEW t \in Threads, NEW v \in {"get", "taken", "run", "put"},
           pc[t] \in {"get", "taken", "run"}, pc' = [pc EXCEPT ![t] = v]
    PROVE  Live' = Live /\ Restarting' = Restarting
  BY ThreadsAssumption DEF TypeOK, Callers, Live, Restarting

\* Steps that end worker t in its loop.
LEMMA CensusEnd ==
    ASSUME TypeOK, NEW t \in Threads, pc[t] \in {"get", "run"},
           pc' = [pc EXCEPT ![t] = "ended"]
    PROVE  /\ Cardinality(Live') = Cardinality(Live) - 1
           /\ Restarting' = Restarting
  <1>1. t \in Live /\ Live' = Live \ {t} /\ Restarting' = Restarting
      BY ThreadsAssumption DEF TypeOK, Callers, Live, Restarting
  <1> QED
      BY <1>1, CensusFinite, FS_RemoveElement

\* The steps of process_queue keep the balance of workers and pills.
LEMMA LoopBalance ==
    ASSUME IInv, Balance, NEW t \in Threads,
           TakeRequest(t) \/ TakePill(t) \/ RunBegins(t) \/ RunEnds(t)
    PROVE  Balance'
  <1>0. /\ TypeOK /\ queue \in Seq({Pill} \cup Requests)
        /\ accepted \in Nat /\ taken \in Nat /\ lost \in Nat
        /\ Cardinality(Live) \in Nat /\ Cardinality(Restarting) \in Nat
      BY CensusFinite DEF IInv, TypeOK
  <1>1. CASE TakeRequest(t)
    <2>1. queue' = Tail(queue) /\ queue # <<>> /\ taken' = taken + 1
          /\ accepted' = accepted /\ lost' = lost
        BY <1>1 DEF TakeRequest
    <2>2. Len(queue') = Len(queue) - 1
        BY <1>0, <2>1
    <2>3. QueuedPills' = QueuedPills
        BY <1>0, <2>1, <2>2 DEF QueuedPills, Waiting
    <2> QED
        BY <1>0, <1>1, <2>1, <2>3, CensusInLoop, BalanceKept DEF TakeRequest
  <1>2. CASE TakePill(t)
    <2>1. queue' = Tail(queue) /\ queue # <<>> /\ taken' = taken
          /\ accepted' = accepted /\ lost' = lost
        BY <1>2 DEF TakePill
    <2>2. Len(queue') = Len(queue) - 1 /\ Len(queue) \in Nat
        BY <1>0, <2>1
    <2>3. QueuedPills' = QueuedPills - 1
        BY <1>0, <2>1, <2>2 DEF QueuedPills, Waiting
    <2>4. QueuedPills \in Int
        BY <1>0, <2>2 DEF QueuedPills, Waiting
    <2>5. /\ Cardinality(Live') = Cardinality(Live) - 1
          /\ Restarting' = Restarting
        BY <1>0, <1>2, CensusEnd DEF TakePill
    <2> QED
        BY <1>0, <2>1, <2>3, <2>4, <2>5 DEF Balance
  <1>3. CASE RunBegins(t) \/ RunReturns(t) \/ RunRaises(t)
    <2>1. QueuedPills' = QueuedPills /\ lost' = lost
        BY <1>3 DEF RunBegins, RunReturns, RunRaises, QueuedPills, Waiting
    <2> QED
        BY <1>0, <1>3, <2>1, CensusInLoop, BalanceKept
        DEF RunBegins, RunReturns, RunRaises
  <1>4. CASE RunExits(t)
    <2>1. QueuedPills' = QueuedPills /\ lost' = lost + 1
        BY <1>4 DEF RunExits, QueuedPills, Waiting
    <2>2. Len(queue) \in Nat
        BY <1>0
    <2>3. QueuedPills \in Int
        BY <1>0, <2>2 DEF QueuedPills, Waiting
    <2>4. /\ Cardinality(Live') = Cardinality(Live) - 1
          /\ Restarting' = Restarting
        BY <1>0, <1>4, CensusEnd DEF RunExits
    <2> QED
        BY <1>0, <2>1, <2>3, <2>4 DEF Balance
  <1> QED
      BY <1>1, <1>2, <1>3, <1>4 DEF RunEnds

\* A caller of restart_worker() moves on between put(None) and start().
LEMMA CensusInRestart ==
    ASSUME TypeOK, NEW c \in Threads \cup {AutoThread},
           NEW v \in {"test", "join", "wait", "new", "start"},
           pc[c] \in {"test", "join", "wait", "new", "start"},
           pc' = [pc EXCEPT ![c] = v]
    PROVE  Live' = Live /\ Restarting' = Restarting
  BY ThreadsAssumption DEF TypeOK, Callers, Live, Restarting

\* A RuntimeError takes a caller of restart_worker() away.
LEMMA CensusError ==
    ASSUME IInv, Balance, NEW c \in Threads \cup {AutoThread},
           pc[c] \in {"join", "start"}, ErrorEnds(c), UNCHANGED QueuedPills
    PROVE  Balance'
  <1>0. /\ TypeOK /\ lost \in Nat /\ Len(queue) \in Nat
        /\ accepted \in Nat /\ taken \in Nat
        /\ Cardinality(Live) \in Nat /\ Cardinality(Restarting) \in Nat
      BY CensusFinite DEF IInv, TypeOK
  <1>1. QueuedPills \in Int
      BY <1>0 DEF QueuedPills, Waiting
  <1>2. c \in Restarting /\ Restarting' = Restarting \ {c}
      BY <1>0, ThreadsAssumption DEF ErrorEnds, TypeOK, Callers, Restarting
  <1>3. Cardinality(Restarting') = Cardinality(Restarting) - 1
      BY <1>2, CensusFinite, FS_RemoveElement
  <1>4. CASE c = AutoThread
    <2>1. Live' = Live /\ lost' = lost + 1
        BY <1>0, <1>4, ThreadsAssumption DEF ErrorEnds, TypeOK, Callers, Live
    <2> QED
        BY <1>0, <1>1, <1>3, <2>1 DEF Balance
  <1>5. CASE c \in Threads
    <2>1. c \in Live /\ Live' = Live \ {c} /\ lost' = lost + 2
        BY <1>0, <1>5, ThreadsAssumption DEF ErrorEnds, TypeOK, Callers, Live
    <2>2. Cardinality(Live') = Cardinality(Live) - 1
        BY <2>1, CensusFinite, FS_RemoveElement
    <2> QED
        BY <1>0, <1>1, <1>3, <2>1, <2>2 DEF Balance
  <1> QED
      BY <1>4, <1>5

\* restart_worker puts a pill (main.py:31): it is owed a worker from then on.
LEMMA PillPutBalance ==
    ASSUME IInv, Balance, NEW c \in Threads \cup {AutoThread}, RestartPut(c)
    PROVE  Balance'
  <1>0. /\ TypeOK /\ queue \in Seq({Pill} \cup Requests) /\ lost \in Nat
        /\ Pill \in {Pill} \cup Requests
        /\ Len(queue) \in Nat /\ accepted \in Nat /\ taken \in Nat
        /\ Cardinality(Live) \in Nat /\ Cardinality(Restarting) \in Nat
      BY CensusFinite DEF IInv, TypeOK
  <1>1. /\ queue' = Append(queue, Pill)
        /\ UNCHANGED <<accepted, taken, lost>>
        /\ pc[c] = "put" /\ pc' = [pc EXCEPT ![c] = "test"]
      BY DEF RestartPut
  <1>2. Len(queue') = Len(queue) + 1
      BY <1>0, <1>1
  <1>3. QueuedPills \in Int /\ QueuedPills' = QueuedPills + 1
      BY <1>0, <1>1, <1>2 DEF QueuedPills, Waiting
  <1>4. /\ c \notin Restarting /\ Restarting' = Restarting \cup {c}
        /\ Live' = Live
      BY <1>0, <1>1, ThreadsAssumption DEF TypeOK, Callers, Live, Restarting
  <1>5. Cardinality(Restarting') = Cardinality(Restarting) + 1
      BY <1>4, CensusFinite, FS_AddElement
  <1>6. Cardinality(Live') = Cardinality(Live) /\ lost' = lost
      BY <1>1, <1>4
  <1> QED
      BY <1>0, <1>3, <1>5, <1>6 DEF Balance

\* restart_worker starts a thread (main.py:35), or fails to.
LEMMA WorkerStartBalance ==
    ASSUME IInv, Balance, NEW c \in Threads \cup {AutoThread}, RestartStart(c)
    PROVE  Balance'
  <1>0. /\ TypeOK /\ lost \in Nat /\ worker \in Threads
        /\ Len(queue) \in Nat /\ accepted \in Nat /\ taken \in Nat
        /\ Cardinality(Live) \in Nat /\ Cardinality(Restarting) \in Nat
      BY CensusFinite DEF IInv, TypeOK
  <1>1. /\ pc[c] = "start" /\ QueuedPills' = QueuedPills
        /\ QueuedPills \in Int
      BY <1>0 DEF RestartStart, QueuedPills, Waiting
  <1>2. CASE pc[worker] # "created"
      BY <1>1, <1>2, CensusError DEF RestartStart
  <1>3. CASE pc[worker] = "created"
    <2>1. /\ pc' = [pc EXCEPT ![worker] = "get", ![c] = AfterRestart(c)]
          /\ lost' = lost /\ worker # c
        BY <1>1, <1>3 DEF RestartStart, ErrorEnds
    <2>2. AfterRestart(c) \in {"get", "sleep"}
        BY DEF AfterRestart
    <2>3. c \in Threads => AfterRestart(c) = "get"
        BY ThreadsAssumption DEF AfterRestart
    <2>4. /\ c \in Restarting /\ Restarting' = Restarting \ {c}
          /\ worker \notin Live /\ Live' = Live \cup {worker}
        BY <1>0, <1>1, <1>3, <2>1, <2>2, <2>3, ThreadsAssumption
        DEF TypeOK, Callers, Live, Restarting
    <2>5. /\ Cardinality(Restarting') = Cardinality(Restarting) - 1
          /\ Cardinality(Live') = Cardinality(Live) + 1
        BY <2>4, CensusFinite, FS_RemoveElement, FS_AddElement
    <2> QED
        BY <1>0, <1>1, <2>1, <2>5 DEF Balance
  <1> QED
      BY <1>2, <1>3

\* The steps of restart_worker keep the balance.
LEMMA RestartBalance ==
    ASSUME IInv, Balance, NEW c \in Threads \cup {AutoThread}, Restart(c)
    PROVE  Balance'
  <1>0. TypeOK
      BY DEF IInv
  <1>1. CASE RestartTest(c) \/ RestartWait(c)
    <2>1. QueuedPills' = QueuedPills /\ lost' = lost
        BY <1>1 DEF RestartTest, RestartWait, QueuedPills, Waiting
    <2> QED
        BY <1>0, <1>1, <2>1, CensusInRestart, BalanceKept
        DEF RestartTest, RestartWait
  <1>2. CASE RestartJoin(c)
    <2>1. QueuedPills' = QueuedPills /\ pc[c] = "join"
        BY <1>2 DEF RestartJoin, QueuedPills, Waiting
    <2>2. CASE ErrorEnds(c)
        BY <2>1, <2>2, CensusError
    <2>3. CASE ~ErrorEnds(c)
      <3>1. pc' = [pc EXCEPT ![c] = "wait"] /\ lost' = lost
          BY <1>2, <2>3 DEF RestartJoin
      <3> QED
          BY <1>0, <2>1, <3>1, CensusInRestart, BalanceKept
    <2> QED
        BY <2>2, <2>3
  <1>3. CASE RestartNew(c)
    <2>1. PICK t \in Fresh : pc' = [pc EXCEPT ![c] = "start", ![t] = "created"]
        BY <1>3 DEF RestartNew
    <2>2. /\ pc[c] = "new" /\ lost' = lost /\ QueuedPills' = QueuedPills
          /\ t \in Threads /\ pc[t] \in {"ended", "created"}
        BY <1>3 DEF RestartNew, QueuedPills, Waiting, Fresh
    <2>3. Live' = Live /\ Restarting' = Restarting
        BY <1>0, <2>1, <2>2, ThreadsAssumption
        DEF TypeOK, Callers, Live, Restarting
    <2> QED
        BY <1>0, <2>2, <2>3, BalanceKept
  <1> QED
      BY <1>1, <1>2, <1>3, PillPutBalance, WorkerStartBalance DEF Restart

\* The steps of stop_worker keep the balance.
LEMMA StoppingBalance ==
    ASSUME IInv, Balance, AutoWakes \/ Stopping
    PROVE  Balance'
  <1>0. /\ TypeOK /\ queue \in Seq({Pill} \cup Requests) /\ lost \in Nat
        /\ Pill \in {Pill} \cup Requests
        /\ Len(queue) \in Nat /\ accepted \in Nat /\ taken \in Nat
        /\ Cardinality(Live) \in Nat /\ Cardinality(Restarting) \in Nat
      BY CensusFinite DEF IInv, TypeOK
  <1>1. Live' = Live /\ Restarting' = Restarting
      BY <1>0, ThreadsAssumption
      DEF AutoWakes, Stopping, StopBegins, StopJoin, StopWait, StopReturns,
          TypeOK, Callers, Live, Restarting
  <1>2. CASE StopBegins
    <2>1. /\ queue' = Append(queue, Pill) /\ lost' = lost + 1
          /\ UNCHANGED <<accepted, taken>>
        BY <1>2 DEF StopBegins
    <2>2. Len(queue') = Len(queue) + 1
        BY <1>0, <2>1
    <2>3. QueuedPills \in Int /\ QueuedPills' = QueuedPills + 1
        BY <1>0, <2>1, <2>2 DEF QueuedPills, Waiting
    <2>4. /\ Cardinality(Live') = Cardinality(Live)
          /\ Cardinality(Restarting') = Cardinality(Restarting)
          /\ lost' = lost + 1
        BY <1>1, <2>1
    <2> QED
        BY <1>0, <2>3, <2>4 DEF Balance
  <1>3. CASE ~StopBegins
    <2>1. QueuedPills' = QueuedPills /\ lost' = lost
        BY <1>3 DEF AutoWakes, Stopping, StopJoin, StopWait, StopReturns,
                    QueuedPills, Waiting
    <2> QED
        BY <1>0, <1>1, <2>1, BalanceKept
  <1> QED
      BY <1>2, <1>3

\* Every step keeps the balance.
LEMMA NextBalance == IInv /\ Balance /\ [Next]_vars => Balance'
  <1> SUFFICES ASSUME IInv, Balance, [Next]_vars PROVE Balance'
      OBVIOUS
  <1>1. CASE Request
    <2>1. Live' = Live /\ Restarting' = Restarting /\ lost' = lost
        BY <1>1 DEF Request, ReadPosition, Enqueue, Live, Restarting
    <2>2. CASE ReadPosition
      <3>1. QueuedPills' = QueuedPills
          BY <2>2 DEF ReadPosition, QueuedPills, Waiting
      <3> QED
          BY <2>1, <3>1, BalanceKept DEF IInv
    <2>3. CASE Enqueue
      <3>1. /\ queue \in Seq({Pill} \cup Requests)
            /\ accepted \in Nat /\ taken \in Nat
          BY DEF IInv, TypeOK
      <3>2. /\ queue' = Append(queue, accepted + 1)
            /\ accepted' = accepted + 1 /\ taken' = taken
          BY <2>3 DEF Enqueue
      <3>3. Len(queue') = Len(queue) + 1 /\ Len(queue) \in Nat
          BY <3>1, <3>2
      <3>4. QueuedPills' = QueuedPills
          BY <3>1, <3>2, <3>3 DEF QueuedPills, Waiting
      <3> QED
          BY <2>1, <3>4, BalanceKept DEF IInv
    <2> QED
        BY <1>1, <2>2, <2>3 DEF Request
  <1>2. ASSUME NEW t \in Threads, WorkerStep(t) PROVE Balance'
      BY <1>2, LoopBalance, RestartBalance DEF WorkerStep, Serve
  <1>3. CASE AutoStep
      BY <1>3, StoppingBalance, RestartBalance DEF AutoStep
  <1>4. CASE Stopping
      BY <1>4, StoppingBalance
  <1>5. CASE UNCHANGED vars
      BY <1>5 DEF vars, Balance, Live, Restarting, QueuedPills, Waiting
  <1> QED
      BY <1>1, <1>2, <1>3, <1>4, <1>5 DEF Next

\* Workers are conserved (main.py:15-55): those that live and those a restart
\* is about to start are one more than the pills that wait, but for the losses.
THEOREM WorkersConserved == Spec => []Balance
  BY InitBalance, NextBalance, Invariance, PTL DEF Spec

\* So at most one check runs more than pills wait in the queue: two checks at
\* once are over as soon as the restarts are (main.py:22-35).
THEOREM ChecksBounded == Spec => []ConcurrencyBound
  <1>1. IInv /\ Balance => ConcurrencyBound
    <2> SUFFICES ASSUME IInv, Balance PROVE ConcurrencyBound
        OBVIOUS
    <2>1. /\ lost \in Nat /\ QueuedPills \in Nat
          /\ Cardinality(Live) \in Nat /\ Cardinality(Restarting) \in Nat
        BY CensusFinite, PillsCounted DEF IInv, TypeOK
    <2>2. Running \in SUBSET Live
        BY DEF Running, Live
    <2>3. Cardinality(Running) <= Cardinality(Live)
        BY <2>2, CensusFinite, FS_Subset
    <2>4. Cardinality(Running) \in Nat
        BY <2>2, CensusFinite, FS_Subset, FS_CardinalityType
    <2> QED
        BY <2>1, <2>3, <2>4 DEF Balance, ConcurrencyBound
  <1> QED
      BY WorkersConserved, Invariance, <1>1, PTL

\* While nothing was lost somebody serves the queue or is about to: no order
\* of restarts (main.py:29-41) by itself leaves the service without a worker.
THEOREM SomebodyServes ==
    Spec => [](lost = 0 => Live # {} \/ Restarting # {})
  <1>1. IInv /\ Balance => (lost = 0 => Live # {} \/ Restarting # {})
    <2> SUFFICES ASSUME IInv, Balance, lost = 0, Live = {}, Restarting = {}
                 PROVE  FALSE
        OBVIOUS
    <2>1. QueuedPills \in Nat
        BY PillsCounted
    <2> QED
        BY <2>1, FS_EmptySet DEF Balance
  <1> QED
      BY WorkersConserved, Invariance, <1>1, PTL
=============================================================================
