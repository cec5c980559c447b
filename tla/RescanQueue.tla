----------------------------- MODULE RescanQueue -----------------------------
(***************************************************************************)
(* The re-scan service of backend/main.py: a FastAPI handler puts requests *)
(* in an unbounded queue, one worker thread takes them and runs            *)
(* start.main, and three different callers replace or stop that worker:    *)
(*                                                                         *)
(*   - the worker itself, when start.main raised an Exception,             *)
(*   - the auto-restart thread, every auto_restart_interval,               *)
(*   - stop_worker, when uvicorn shuts down.                               *)
(*                                                                         *)
(* restart_worker() is not atomic: it reads the global `worker' up to      *)
(* three times (is, join, start) and writes it once, and nothing locks it, *)
(* so each of these is a step of its own here.  The queue is a             *)
(* queue.Queue: put and get are atomic.                                    *)
(***************************************************************************)
EXTENDS Integers, Sequences, FiniteSets

CONSTANTS
    Threads,        \* identities of worker Thread objects
    AutoThread,     \* auto_restart_thread
    StopThread,     \* the thread that runs the shutdown handler
    NoThread,       \* join target of a caller that joins nobody
    MaxRequests,    \* bound on the calls of /run
    FullRequests    \* requests on which start.main may call sys.exit(): no bp
                    \* (a full run), or ignorelastcheck=false

ASSUME ThreadsAssumption ==
    /\ IsFiniteSet(Threads) /\ Threads # {}
    /\ AutoThread \notin Threads /\ StopThread \notin Threads
    /\ AutoThread # StopThread
    /\ NoThread \notin Threads
ASSUME RequestsAssumption ==
    MaxRequests \in Nat /\ FullRequests \subseteq 1..MaxRequests

Pill == 0                     \* task_queue.put(None)
Requests == 1..MaxRequests    \* the n-th accepted request is the number n
Callers == Threads \cup {AutoThread, StopThread}

VARIABLES
    queue,      \* task_queue
    worker,     \* the module global `worker'
    pc,         \* where each thread is
    task,       \* the request a worker thread is running
    target,     \* the Thread object a caller of join() waits for
    handler,    \* run_producer: "idle", or "put" between qsize() and put()
    ticket,     \* the position each request was told
    accepted,   \* number of requests put in the queue
    taken,      \* number of requests taken out of the queue
    begun,      \* history: the requests handed to start.main
    lost        \* workers that ended, or never started, without a pill

vars == <<queue, worker, pc, task, target, handler, ticket, accepted, taken,
          begun, lost>>

\* A worker waits in "get", has unpacked a request ("taken") and runs it.
\* Steps of restart_worker(): "put" None, "test" worker is current_thread,
\* "join" (the global is read again), "wait", "new" Thread, "start" (read
\* once more).
RestartSteps == {"put", "test", "join", "wait", "new", "start"}
WorkerSteps == {"ended", "created", "get", "taken", "run"} \cup RestartSteps
AutoSteps == {"ended", "sleep"} \cup RestartSteps
StopSteps == {"up", "put", "join", "wait", "auto", "stopped", "failed"}

TypeOK ==
    /\ queue \in Seq({Pill} \cup Requests)
    /\ worker \in Threads
    /\ pc \in [Callers -> WorkerSteps \cup AutoSteps \cup StopSteps]
    /\ \A t \in Threads : pc[t] \in WorkerSteps
    /\ pc[AutoThread] \in AutoSteps
    /\ pc[StopThread] \in StopSteps
    /\ task \in [Threads -> {Pill} \cup Requests]
    /\ target \in [Callers -> Threads \cup {NoThread}]
    /\ handler \in {"idle", "put"}
    /\ ticket \in [Requests -> Nat]
    /\ accepted \in 0..MaxRequests
    /\ taken \in 0..MaxRequests
    /\ begun \subseteq {Pill} \cup Requests
    /\ lost \in Nat

\* Import of main.py: the first worker and the auto-restart thread start.
Init ==
    /\ queue = <<>>
    /\ worker = CHOOSE t \in Threads : TRUE
    /\ pc = [c \in Callers |-> CASE c = worker -> "get"
                                 [] c = AutoThread -> "sleep"
                                 [] c = StopThread -> "up"
                                 [] OTHER -> "ended"]
    /\ task = [t \in Threads |-> Pill]
    /\ target = [c \in Callers |-> NoThread]
    /\ handler = "idle"
    /\ ticket = [r \in Requests |-> 0]
    /\ accepted = 0 /\ taken = 0 /\ begun = {} /\ lost = 0

-----------------------------------------------------------------------------
\* The /run handler.  It has no await, so two calls never interleave, but the
\* threads do run between the call of qsize() and that of put().

\* Mutant: the request itself is not counted.
ReadPositionAhead ==
    /\ handler = "idle" /\ pc[StopThread] = "up" /\ accepted < MaxRequests
    /\ ticket' = [ticket EXCEPT ![accepted + 1] = Len(queue)]
    /\ handler' = "put"
    /\ UNCHANGED <<queue, worker, pc, task, target, accepted, taken, begun,
                   lost>>

ReadPosition ==
    /\ handler = "idle" /\ pc[StopThread] = "up" /\ accepted < MaxRequests
    /\ ticket' = [ticket EXCEPT ![accepted + 1] = Len(queue) + 1]
    /\ handler' = "put"
    /\ UNCHANGED <<queue, worker, pc, task, target, accepted, taken, begun,
                   lost>>

\* Mutant: a stack (queue.LifoQueue).
EnqueueFirst ==
    /\ handler = "put"
    /\ queue' = <<accepted + 1>> \o queue
    /\ accepted' = accepted + 1
    /\ handler' = "idle"
    /\ UNCHANGED <<worker, pc, task, target, ticket, taken, begun, lost>>

Enqueue ==
    /\ handler = "put"
    /\ queue' = Append(queue, accepted + 1)
    /\ accepted' = accepted + 1
    /\ handler' = "idle"
    /\ UNCHANGED <<worker, pc, task, target, ticket, taken, begun, lost>>

-----------------------------------------------------------------------------
\* process_queue

TakeRequest(t) ==
    /\ pc[t] = "get" /\ queue # <<>> /\ Head(queue) # Pill
    /\ task' = [task EXCEPT ![t] = Head(queue)]
    /\ queue' = Tail(queue)
    /\ taken' = taken + 1
    /\ pc' = [pc EXCEPT ![t] = "taken"]
    /\ UNCHANGED <<worker, target, handler, ticket, accepted, begun, lost>>

\* The call of start.main: while two workers serve, one that took its request
\* later may get here first.
RunBegins(t) ==
    /\ pc[t] = "taken"
    /\ begun' = begun \cup {task[t]}
    /\ pc' = [pc EXCEPT ![t] = "run"]
    /\ UNCHANGED <<queue, worker, task, target, handler, ticket, accepted,
                   taken, lost>>

TakePill(t) ==
    /\ pc[t] = "get" /\ queue # <<>> /\ Head(queue) = Pill
    /\ queue' = Tail(queue)
    /\ pc' = [pc EXCEPT ![t] = "ended"]
    /\ UNCHANGED <<worker, task, target, handler, ticket, accepted, taken,
                   begun, lost>>

\* start.main returns, and the loop goes on.
RunReturns(t) ==
    /\ pc[t] = "run"
    /\ pc' = [pc EXCEPT ![t] = "get"]
    /\ task' = [task EXCEPT ![t] = Pill]
    /\ UNCHANGED <<queue, worker, target, handler, ticket, accepted, taken,
                   begun, lost>>

\* Mutant: the except clause runs the request once more.
RunRaisesAgain(t) ==
    /\ pc[t] = "run"
    /\ pc' = [pc EXCEPT ![t] = "taken"]
    /\ UNCHANGED <<queue, worker, task, target, handler, ticket, accepted,
                   taken, begun, lost>>

\* start.main raises an Exception: the except clause calls restart_worker().
RunRaises(t) ==
    /\ pc[t] = "run"
    /\ pc' = [pc EXCEPT ![t] = "put"]
    /\ task' = [task EXCEPT ![t] = Pill]
    /\ UNCHANGED <<queue, worker, target, handler, ticket, accepted, taken,
                   begun, lost>>

\* start.main calls sys.exit(): SystemExit is no Exception, so nothing
\* catches it and the thread ends silently.
RunExits(t) ==
    /\ pc[t] = "run" /\ task[t] \in FullRequests
    /\ pc' = [pc EXCEPT ![t] = "ended"]
    /\ task' = [task EXCEPT ![t] = Pill]
    /\ lost' = lost + 1
    /\ UNCHANGED <<queue, worker, target, handler, ticket, accepted, taken,
                   begun>>

-----------------------------------------------------------------------------
\* restart_worker, called by a worker thread or by the auto-restart thread.

\* Mutant: the old worker is replaced and not asked to end.
RestartNoPill(c) ==
    /\ pc[c] = "put"
    /\ pc' = [pc EXCEPT ![c] = "test"]
    /\ UNCHANGED <<queue, worker, task, target, handler, ticket, accepted,
                   taken, begun, lost>>

RestartPut(c) ==
    /\ pc[c] = "put"
    /\ queue' = Append(queue, Pill)
    /\ pc' = [pc EXCEPT ![c] = "test"]
    /\ UNCHANGED <<worker, task, target, handler, ticket, accepted, taken,
                   begun, lost>>

RestartTest(c) ==
    /\ pc[c] = "test"
    /\ pc' = [pc EXCEPT ![c] = IF worker = c THEN "new" ELSE "join"]
    /\ UNCHANGED <<queue, worker, task, target, handler, ticket, accepted,
                   taken, begun, lost>>

\* A RuntimeError out of restart_worker ends the calling thread: the except
\* clause of process_queue and the loop of auto_restart_worker have no try.
\* The worker that was to be started is missing, and so is a calling worker.
ErrorEnds(c) ==
    /\ pc' = [pc EXCEPT ![c] = "ended"]
    /\ lost' = lost + (IF c = AutoThread THEN 1 ELSE 2)

\* worker.join(): a Thread that was not started yet cannot be joined.
RestartJoin(c) ==
    /\ pc[c] = "join"
    /\ \/ /\ pc[worker] # "created"
          /\ target' = [target EXCEPT ![c] = worker]
          /\ pc' = [pc EXCEPT ![c] = "wait"]
          /\ UNCHANGED lost
       \/ /\ pc[worker] = "created"
          /\ ErrorEnds(c)
          /\ UNCHANGED target
    /\ UNCHANGED <<queue, worker, task, handler, ticket, accepted, taken,
                   begun>>

RestartWait(c) ==
    /\ pc[c] = "wait" /\ pc[target[c]] = "ended"
    /\ target' = [target EXCEPT ![c] = NoThread]
    /\ pc' = [pc EXCEPT ![c] = "new"]
    /\ UNCHANGED <<queue, worker, task, handler, ticket, accepted, taken,
                   begun, lost>>

\* Thread objects nobody refers to any more are reused as fresh ones; an
\* object that was created but never started is one of them once the global
\* names another.  Which of them is the new object makes no difference.
Fresh == {t \in Threads : /\ pc[t] \in {"ended", "created"}
                          /\ t # worker
                          /\ \A c \in Callers : target[c] # t}

RestartNew(c) ==
    /\ pc[c] = "new" /\ Fresh # {}
    /\ LET t == CHOOSE f \in Fresh : TRUE
       IN /\ worker' = t
          /\ pc' = [pc EXCEPT ![c] = "start", ![t] = "created"]
    /\ UNCHANGED <<queue, task, target, handler, ticket, accepted, taken,
                   begun, lost>>

\* Mutant: every caller goes on as a worker.
AfterRestartGet(c) == "get"

AfterRestart(c) == IF c = AutoThread THEN "sleep" ELSE "get"

\* worker.start(): a Thread can be started only once.
RestartStart(c) ==
    /\ pc[c] = "start"
    /\ \/ /\ pc[worker] = "created"
          /\ pc' = [pc EXCEPT ![worker] = "get", ![c] = AfterRestart(c)]
          /\ UNCHANGED lost
       \/ /\ pc[worker] # "created"
          /\ ErrorEnds(c)
    /\ UNCHANGED <<queue, worker, task, target, handler, ticket, accepted,
                   taken, begun>>

Restart(c) == \/ RestartPut(c) \/ RestartTest(c) \/ RestartJoin(c)
              \/ RestartWait(c) \/ RestartNew(c) \/ RestartStart(c)

-----------------------------------------------------------------------------
\* Mutant: the auto-restart thread waits until no request is queued.
AutoWakesIdle ==
    /\ pc[AutoThread] = "sleep" /\ queue = <<>>
    /\ pc' = [pc EXCEPT ![AutoThread] = "put"]
    /\ UNCHANGED <<queue, worker, task, target, handler, ticket, accepted,
                   taken, begun, lost>>

\* auto_restart_worker: time.sleep(interval) ends.
AutoWakes ==
    /\ pc[AutoThread] = "sleep"
    /\ pc' = [pc EXCEPT ![AutoThread] = "put"]
    /\ UNCHANGED <<queue, worker, task, target, handler, ticket, accepted,
                   taken, begun, lost>>

-----------------------------------------------------------------------------
\* stop_worker, run by uvicorn after the last request was answered.  Its pill
\* asks a worker to end that nobody replaces.

StopBegins ==
    /\ pc[StopThread] = "up" /\ handler = "idle"
    /\ queue' = Append(queue, Pill)
    /\ lost' = lost + 1
    /\ pc' = [pc EXCEPT ![StopThread] = "join"]
    /\ UNCHANGED <<worker, task, target, handler, ticket, accepted, taken,
                   begun>>

StopJoin ==
    /\ pc[StopThread] = "join"
    /\ \/ /\ pc[worker] # "created"
          /\ target' = [target EXCEPT ![StopThread] = worker]
          /\ pc' = [pc EXCEPT ![StopThread] = "wait"]
       \/ /\ pc[worker] = "created"
          /\ pc' = [pc EXCEPT ![StopThread] = "failed"]
          /\ UNCHANGED target
    /\ UNCHANGED <<queue, worker, task, handler, ticket, accepted, taken,
                   begun, lost>>

StopWait ==
    /\ pc[StopThread] = "wait" /\ pc[target[StopThread]] = "ended"
    /\ target' = [target EXCEPT ![StopThread] = NoThread]
    /\ pc' = [pc EXCEPT ![StopThread] = "auto"]
    /\ UNCHANGED <<queue, worker, task, handler, ticket, accepted, taken,
                   begun, lost>>

\* auto_restart_thread.join(): the thread loops for ever unless it raised.
StopReturns ==
    /\ pc[StopThread] = "auto" /\ pc[AutoThread] = "ended"
    /\ pc' = [pc EXCEPT ![StopThread] = "stopped"]
    /\ UNCHANGED <<queue, worker, task, target, handler, ticket, accepted,
                   taken, begun, lost>>

-----------------------------------------------------------------------------
Request == ReadPosition \/ Enqueue

\* What a worker does by itself, and how its call of start.main ends.
Serve(t) == TakeRequest(t) \/ TakePill(t) \/ RunBegins(t) \/ Restart(t)
RunEnds(t) == RunReturns(t) \/ RunRaises(t) \/ RunExits(t)

WorkerStep(t) == Serve(t) \/ RunEnds(t)

AutoStep == AutoWakes \/ Restart(AutoThread)

Stopping == StopBegins \/ StopJoin \/ StopWait \/ StopReturns

Next == \/ Request
        \/ \E t \in Threads : WorkerStep(t)
        \/ AutoStep
        \/ Stopping

Spec == Init /\ [][Next]_vars

\* The interpreter runs every runnable thread, and the sleep of the
\* auto-restart thread ends.  Requests and the shutdown are up to the
\* environment, and so is the end of a check: a peer that keeps talking holds
\* it for ever (p2p.py:33), and so do an API that never answers right
\* (eosio.py:346) and a database that does not come back.
Fairness == /\ \A t \in Threads : WF_vars(Serve(t))
            /\ WF_vars(AutoStep)
            /\ WF_vars(Enqueue)

FairSpec == Spec /\ Fairness
-----------------------------------------------------------------------------
\* Properties

Waiting == accepted - taken              \* requests in the queue
QueuedPills == Len(queue) - Waiting        \* the other entries are pills
Live == {t \in Threads : pc[t] \notin {"ended", "created"}}
Restarting == {c \in Threads \cup {AutoThread} :
                 pc[c] \in {"test", "join", "wait", "new", "start"}}
Running == {t \in Threads : pc[t] = "run"}

\* However restarts and requests interleave, the queue holds exactly the
\* requests that were accepted and not taken yet, oldest first: a restart
\* (restart_worker, main.py:29) neither drops, repeats nor reorders a request.
QueueHoldsWaiting ==
    /\ taken <= accepted
    /\ {queue[i] : i \in DOMAIN queue} \ {Pill} = (taken + 1)..accepted
    /\ \A i, j \in DOMAIN queue :
         i < j /\ queue[i] # Pill /\ queue[j] # Pill => queue[i] < queue[j]

\* Conservation of workers (main.py:15-55): the workers there are, and the
\* calls of restart_worker() under way, are one more than the pills that wait
\* for a worker, except for the losses.
Balance ==
    Cardinality(Live) + Cardinality(Restarting) + lost = 1 + QueuedPills

\* Two checks run at once only while pills wait in the queue: a worker that
\* restarts itself goes on serving (main.py:22-26), and its successor starts
\* beside it, but one of them ends at the pill.
ConcurrencyBound == Cardinality(Running) <= 1 + QueuedPills

\* The position a request is told (main.py:63) is never better than its place
\* among the requests that wait.
NeverTooOptimistic ==
    \A r \in (taken + 1)..accepted : ticket[r] >= r - taken

\* RescanQueue implements the service of RequestService (main.py:15-35,
\* 57-73): requests are taken in the order of acceptance, none is lost, and
\* each is handed to start.main at most once, whatever restarts go on.
Queued == {queue[i] : i \in DOMAIN queue} \ {Pill}
InHand == {task[t] : t \in {u \in Threads : pc[u] = "taken"}}
Service == INSTANCE RequestService WITH waiting <- Queued, hand <- InHand
ServiceSpec == Service!Spec

\* No worker stays in start.main for ever.  The code does not guarantee it
\* (see Fairness), so the two properties below have it as their premise.
RunsEnd == \A t \in Threads : []<>(pc[t] # "run")

\* If no check run lasts for ever, a scheduled request is eventually handed to
\* start.main, unless the server is shut down (main.py:75: "Checks have been
\* scheduled").
EveryRequestStarts ==
    RunsEnd => \A r \in Requests :
                 accepted >= r ~> r \in begun \/ pc[StopThread] # "up"

\* If no check run lasts for ever, and as long as the auto-restart thread
\* lives, it makes good every loss of a worker (main.py:38-41): each request
\* starts, even behind a check that ended its worker with sys.exit() and with
\* pills left over from it.
EveryRequestStartsWhileArmed ==
    RunsEnd => \A r \in Requests :
                 accepted >= r ~> \/ r \in begun
                                  \/ pc[StopThread] # "up"
                                  \/ pc[AutoThread] = "ended"
=============================================================================
