---------------------------- MODULE PortalServer ----------------------------
(***************************************************************************)
(* The web server of the portal (frontend/fastify): one node process, one  *)
(* event loop and one connection to Postgres, on which the queries of all  *)
(* requests are answered in the order in which they were made.             *)
(*                                                                         *)
(* A handler runs without interruption up to its next query or outgoing    *)
(* request, so each action below is one such piece of a handler.  Two      *)
(* styles meet here: the routes that hand a callback to client.query throw *)
(* in it, where nobody catches, and the process ends with every request in *)
(* flight; the routes that await turn an error into a reply.  supervisord  *)
(* starts the process again (files/start.sh).                              *)
(*                                                                         *)
(* The calls come from the pages: ky asks again after an answer of 5xx or  *)
(* a broken connection and gives up after a time, the fetch of the login   *)
(* does neither.  A signature, a row or a URL is reduced to the outcomes   *)
(* that the handlers tell apart.                                           *)
(***************************************************************************)
EXTENDS Integers, Sequences, FiniteSets

CONSTANTS
    Calls,         \* identities of the calls pages make
    KyRetries,     \* how often ky asks again (2 where nothing is configured)
    GotRetries,    \* how often got asks the backend again (2, too)
    MaxOutages,    \* bound on the outages of the database
    MaxProducers   \* bound on the producers of an answer about empty blocks

ASSUME BoundsAssumption ==
    /\ IsFiniteSet(Calls)
    /\ KyRetries \in Nat /\ GotRetries \in Nat
    /\ MaxOutages \in Nat /\ MaxProducers \in Nat

\* "table" stands for the four routes that send what one query returned:
\* producers, latestresults, monthlyaverageresults, truncatedPaginatedResults.
Kinds == {"table", "dates", "nodes", "missing", "blocks", "login", "scan",
          "other"}
\* What a handler can be waiting for: an answer of the database ...
Asks == {"table", "dates", "nodes", "name", "key", "logo", "logos"}
\* ... or one of the block service or of the re-scan service.
Remote == {"missing", "blocks", "scan"}
Results == {"none", "ok", "warned", "refused", "failed", "token", "scanned"}

VARIABLES
    server,    \* the process is "up" or "down"
    database,  \* Postgres accepts connections
    outages,   \* outages of the database so far
    client,    \* pg Client: "connecting" or "ready"
    got,       \* the module got has been imported
    queue,     \* queries that wait for their answer
    at,        \* what the handler of a call waits for, or "none"
    left,      \* answers Promise.all still waits for
    again,     \* attempts of got after the first one
    kind,      \* what a call asks for
    guild,     \* whether the account of a login has a row in oig.producer
    state,     \* a call: "idle", "sent", "served" (a handler runs), "done"
    tries,     \* attempts of a call
    result,    \* what the page learned in the end
    accepted   \* re-scans the backend has queued for a call

vars == <<server, database, outages, client, got, queue, at, left,
          again, kind, guild, state, tries, result, accepted>>

process == <<server, database, outages, client, got>>
request == <<kind, guild>>

Query == [call : Calls, try : Nat, ask : Asks]

TypeOK ==
    /\ server \in {"up", "down"}
    /\ database \in BOOLEAN
    /\ outages \in 0..MaxOutages
    /\ client \in {"connecting", "ready"}
    /\ got \in BOOLEAN
    /\ queue \in Seq(Query)
    /\ at \in [Calls -> Asks \cup Remote \cup {"none"}]
    /\ left \in [Calls -> 0..MaxProducers]
    /\ again \in [Calls -> 0..GotRetries]
    /\ kind \in [Calls -> Kinds]
    /\ guild \in [Calls -> BOOLEAN]
    /\ state \in [Calls -> {"idle", "sent", "served", "done"}]
    /\ tries \in [Calls -> 0..(KyRetries + 1)]
    /\ result \in [Calls -> Results]
    /\ accepted \in [Calls -> Nat]

Init ==
    /\ server = "up"
    /\ database = TRUE /\ outages = 0
    /\ client = "connecting" /\ got = FALSE
    /\ queue = <<>>
    /\ at = [c \in Calls |-> "none"]
    /\ left = [c \in Calls |-> 0]
    /\ again = [c \in Calls |-> 0]
    /\ kind \in [Calls -> Kinds]
    /\ guild \in [Calls -> BOOLEAN]
    /\ \A c \in Calls : guild[c] => kind[c] = "login"
    /\ state = [c \in Calls |-> "idle"]
    /\ tries = [c \in Calls |-> 0]
    /\ result = [c \in Calls |-> "none"]
    /\ accepted = [c \in Calls |-> 0]

-----------------------------------------------------------------------------
\* The calls of the pages

\* Mutant: repeats without a limit.
AsksForEver(c) == kind[c] # "login"

\* Everything but the login goes through ky (api.ts), as a GET.
AsksAgain(c) == kind[c] # "login" /\ tries[c] <= KyRetries

\* Mutant: an answer is not ignored once the call has timed out.
HearLate(cs, r) ==
    LET repeats == {c \in cs : r = "failed" /\ AsksAgain(c)}
    IN /\ state' = [c \in Calls |-> IF c \notin cs THEN state[c]
                                    ELSE IF c \in repeats THEN "sent"
                                    ELSE "done"]
       /\ tries' = [c \in Calls |-> IF c \in repeats
                                    THEN tries[c] + 1 ELSE tries[c]]
       /\ result' = [c \in Calls |-> IF c \in cs \ repeats
                                     THEN r ELSE result[c]]

\* The calls of cs hear that this attempt came to r.
Hear(cs, r) ==
    LET repeats == {c \in cs : r = "failed" /\ AsksAgain(c)}
        heard   == {c \in cs : state[c] \in {"sent", "served"}}
    IN /\ state' = [c \in Calls |-> IF c \notin heard THEN state[c]
                                    ELSE IF c \in repeats THEN "sent"
                                    ELSE "done"]
       /\ tries' = [c \in Calls |-> IF c \in heard \cap repeats
                                    THEN tries[c] + 1 ELSE tries[c]]
       /\ result' = [c \in Calls |-> IF c \in heard \ repeats
                                     THEN r ELSE result[c]]

Send(c) ==
    /\ state[c] = "idle"
    /\ state' = [state EXCEPT ![c] = "sent"]
    /\ tries' = [tries EXCEPT ![c] = 1]
    /\ UNCHANGED <<process, request, queue, at, left, again, result, accepted>>

\* nginx answers 502 while the process is not there.
Refuse(c) ==
    /\ server = "down" /\ state[c] = "sent"
    /\ Hear({c}, "failed")
    /\ UNCHANGED <<process, request, queue, at, left, again, accepted>>

\* ky waits 10 seconds and does not repeat what timed out; the handler, if
\* there is one, goes on.
GiveUp(c) ==
    /\ kind[c] # "login" /\ state[c] \in {"sent", "served"}
    /\ state' = [state EXCEPT ![c] = "done"]
    /\ result' = [result EXCEPT ![c] = "failed"]
    /\ UNCHANGED <<process, request, queue, at, left, again, tries, accepted>>

-----------------------------------------------------------------------------
\* Handlers

\* The handler of c ends with reply r.
Finish(c, r) ==
    /\ at' = [at EXCEPT ![c] = "none"]
    /\ left' = [left EXCEPT ![c] = 0]
    /\ again' = [again EXCEPT ![c] = 0]
    /\ Hear({c}, r)
    /\ UNCHANGED <<process, request>>

Reply(c, r) == Finish(c, r) /\ UNCHANGED accepted

\* The handler of c makes n queries and waits.
Await(c, what, n) ==
    /\ queue' = queue \o [i \in 1..n |-> [call |-> c, try |-> tries[c],
                                          ask |-> what]]
    /\ at' = [at EXCEPT ![c] = what]
    /\ left' = [left EXCEPT ![c] = IF what = "logos" THEN n ELSE @]

\* The handler of c sends a request to another service and waits.
Ask(c, what) ==
    /\ at' = [at EXCEPT ![c] = what]
    /\ UNCHANGED <<queue, left, again>>

Serving(c) ==
    /\ state' = [state EXCEPT ![c] = "served"]
    /\ UNCHANGED <<process, request, tries, result, accepted>>

Arrives(c, k) == server = "up" /\ state[c] = "sent" /\ kind[c] = k

GetTable(c) == /\ \E k \in {"table", "dates"} : Arrives(c, k)
               /\ Await(c, kind[c], 1) /\ Serving(c)
               /\ UNCHANGED again

\* A node type other than hyperion, atomic and p2p is an error of the server.
GetNodes(c) ==
    /\ Arrives(c, "nodes")
    /\ \/ Await(c, "nodes", 1) /\ Serving(c) /\ UNCHANGED again
       \/ Reply(c, "failed") /\ UNCHANGED queue

\* Guilds outside the top 21 are looked up under their testnet name.
GetMissing(c) ==
    /\ Arrives(c, "missing")
    /\ \/ Reply(c, "refused") /\ UNCHANGED queue           \* no ownerName
       \/ Ask(c, "missing") /\ Serving(c)                  \* top21
       \/ Await(c, "name", 1) /\ Serving(c) /\ UNCHANGED again

GetBlocks(c) == Arrives(c, "blocks") /\ Ask(c, "blocks") /\ Serving(c)

\* A body without signature, transaction or action raises and is refused.
PostLogin(c) ==
    /\ Arrives(c, "login")
    /\ \/ Reply(c, "refused") /\ UNCHANGED queue
       \/ Await(c, "key", 1) /\ Serving(c) /\ UNCHANGED again

\* Without a valid token, or for the guild of another account, the reply is a
\* warning; got is undefined until its import has resolved.
GetRescan(c) ==
    /\ Arrives(c, "scan")
    /\ \/ Reply(c, "warned") /\ UNCHANGED queue
       \/ got /\ Ask(c, "scan") /\ Serving(c)
       \/ ~got /\ Reply(c, "failed") /\ UNCHANGED queue

\* Anything else is index.html, or 404 below /api.
NotFound(c) ==
    /\ Arrives(c, "other")
    /\ \E r \in {"ok", "refused"} : Reply(c, r)
    /\ UNCHANGED queue

Receive(c) == \/ GetTable(c) \/ GetNodes(c) \/ GetMissing(c) \/ GetBlocks(c)
              \/ PostLogin(c) \/ GetRescan(c) \/ NotFound(c)

-----------------------------------------------------------------------------
\* The end of the process, and supervisord

\* An exception nobody catches: the queries and handlers are gone, and nginx
\* answers 502 to everyone who was being served.
Crash ==
    /\ server' = "down"
    /\ client' = "connecting" /\ got' = FALSE
    /\ queue' = <<>>
    /\ at' = [c \in Calls |-> "none"]
    /\ left' = [c \in Calls |-> 0]
    /\ again' = [c \in Calls |-> 0]
    /\ Hear({c \in Calls : state[c] = "served"}, "failed")
    /\ UNCHANGED <<database, outages, request, accepted>>

\* client.connect() is rejected, or the client has no listener for "error".
ConnectionLost == server = "up" /\ ~database /\ Crash

Restart ==
    /\ server = "down"
    /\ server' = "up"
    /\ UNCHANGED <<database, outages, client, got, request, queue, at,
                   left, again, state, tries, result, accepted>>

Connect ==
    /\ server = "up" /\ client = "connecting" /\ database
    /\ client' = "ready"
    /\ UNCHANGED <<server, database, outages, got, request, queue, at,
                   left, again, state, tries, result, accepted>>

ImportGot ==
    /\ server = "up" /\ ~got
    /\ got' = TRUE
    /\ UNCHANGED <<server, database, outages, client, request, queue,
                   at, left, again, state, tries, result, accepted>>

DatabaseFails ==
    /\ database /\ outages < MaxOutages
    /\ database' = FALSE /\ outages' = outages + 1
    /\ UNCHANGED <<server, client, got, request, queue, at, left,
                   again, state, tries, result, accepted>>

DatabaseReturns ==
    /\ ~database
    /\ database' = TRUE
    /\ UNCHANGED <<server, outages, client, got, request, queue, at,
                   left, again, state, tries, result, accepted>>

-----------------------------------------------------------------------------
\* Answers of the database: rows, no row, or an error

\* The oldest query is answered, and its handler still waits for it.
Answers(c, ask) ==
    /\ server = "up" /\ client = "ready" /\ database
    /\ queue # <<>> /\ Head(queue) = [call |-> c, try |-> tries[c], ask |-> ask]
    /\ at[c] = ask

Pop == queue' = Tail(queue)

\* throw error in the callback.
TableAnswered(c) ==
    /\ Answers(c, "table")
    /\ \/ Reply(c, "ok") /\ Pop
       \/ Crash

\* Mutant: the callback throws where it should reject.
NodesThrow(c) ==
    /\ Answers(c, "nodes")
    /\ \/ Reply(c, "ok") /\ Pop
       \/ Crash

\* Without a row, row.submission_cutoff throws as well.
DatesAnswered(c) ==
    /\ Answers(c, "dates")
    /\ \/ Reply(c, "ok") /\ Pop
       \/ Crash

NodesAnswered(c) ==
    /\ Answers(c, "nodes")
    /\ \E r \in {"ok", "failed"} : Reply(c, r)
    /\ Pop

\* An error and an unknown guild are only logged; the route goes on with the
\* name it has, if any.
NameAnswered(c) ==
    /\ Answers(c, "name")
    /\ Pop
    /\ at' = [at EXCEPT ![c] = "missing"]
    /\ UNCHANGED <<process, request, left, again, state, tries, result,
                   accepted>>

\* Mutant: the promise is not rejected on an error.
KeyLost(c) ==
    /\ Answers(c, "key")
    /\ Pop
    /\ UNCHANGED <<process, request, at, left, again, state, tries, result,
                   accepted>>

\* The key may be missing; only an error ends the login here.
KeyAnswered(c) ==
    /\ Answers(c, "key")
    /\ \/ Reply(c, "refused") /\ Pop
       \/ /\ queue' = Append(Tail(queue), [call |-> c, try |-> tries[c],
                                           ask |-> "logo"])
          /\ at' = [at EXCEPT ![c] = "logo"]
          /\ UNCHANGED <<process, request, left, again, state, tries, result,
                         accepted>>

\* guildLogo.logo_svg raises where oig.producer has no row of the account.
LogoAnswered(c) ==
    /\ Answers(c, "logo")
    /\ \/ Reply(c, "refused")                  \* an error, or signature invalid
       \/ Reply(c, IF guild[c] THEN "token" ELSE "refused")
    /\ Pop

\* Mutant: Promise.race.
LogosRace(c) ==
    /\ Answers(c, "logos")
    /\ Pop
    /\ \E r \in {"ok", "failed"} : Reply(c, r)

\* Promise.all over the producers: the last logo completes the reply, and the
\* first one that is missing or fails ends it.
LogosAnswered(c) ==
    /\ Answers(c, "logos")
    /\ Pop
    /\ \/ Reply(c, "failed")
       \/ left[c] = 1 /\ Reply(c, "ok")
       \/ /\ left[c] > 1
          /\ left' = [left EXCEPT ![c] = @ - 1]
          /\ UNCHANGED <<process, request, at, again, state, tries, result,
                         accepted>>

\* An answer for a handler that has ended: a logo after Promise.all was
\* rejected.
UnusedAnswer ==
    /\ server = "up" /\ client = "ready" /\ database /\ queue # <<>>
    /\ LET q == Head(queue) IN at[q.call] # q.ask \/ tries[q.call] # q.try
    /\ Pop
    /\ UNCHANGED <<process, request, at, left, again, state, tries, result,
                   accepted>>

-----------------------------------------------------------------------------
\* Answers of the services

Waits(c, what) == server = "up" /\ at[c] = what

\* Mutant: an error of the block service is logged and not answered.
MissingUnanswered(c) ==
    /\ Waits(c, "missing")
    /\ UNCHANGED queue
    /\ \/ Reply(c, "ok")
       \/ /\ at' = [at EXCEPT ![c] = "none"]
          /\ UNCHANGED <<process, request, left, again, state, tries, result,
                         accepted>>

\* The answer of the block service, with dummy data where it has none.
MissingAnswered(c) ==
    /\ Waits(c, "missing")
    /\ \E r \in {"ok", "failed"} : Reply(c, r)
    /\ UNCHANGED queue

BlocksAnswered(c) ==
    /\ Waits(c, "blocks")
    /\ \/ Reply(c, "failed") /\ UNCHANGED queue
       \/ Reply(c, "ok") /\ UNCHANGED queue              \* no producer in it
       \/ /\ \E n \in 1..MaxProducers : Await(c, "logos", n)
          /\ UNCHANGED <<process, request, again, state, tries, result,
                         accepted>>

\* The backend queues the re-scan when it handles the request; what comes back
\* may be its answer, something that is not JSON, or an error, on some of which
\* got asks again.
RescanAsked(c) ==
    /\ Waits(c, "scan")
    /\ UNCHANGED queue
    /\ \E queued \in BOOLEAN :
       /\ accepted' = [accepted EXCEPT ![c] = IF queued THEN @ + 1 ELSE @]
       /\ \/ queued /\ Finish(c, "scanned")
          \/ Finish(c, "failed")
          \/ /\ again[c] < GotRetries
             /\ again' = [again EXCEPT ![c] = @ + 1]
             /\ UNCHANGED <<process, request, at, left, state, tries, result>>

-----------------------------------------------------------------------------
Answered(c) == \/ TableAnswered(c) \/ DatesAnswered(c) \/ NodesAnswered(c)
               \/ NameAnswered(c) \/ KeyAnswered(c) \/ LogoAnswered(c)
               \/ LogosAnswered(c)

DatabaseAnswers == (\E c \in Calls : Answered(c)) \/ UnusedAnswer

ServiceAnswers(c) == MissingAnswered(c) \/ BlocksAnswered(c) \/ RescanAsked(c)

Next == \/ \E c \in Calls : \/ Send(c) \/ Refuse(c) \/ GiveUp(c) \/ Receive(c)
                            \/ ServiceAnswers(c)
        \/ DatabaseAnswers
        \/ ConnectionLost \/ Restart \/ Connect \/ ImportGot
        \/ DatabaseFails \/ DatabaseReturns

Spec == Init /\ [][Next]_vars

\* The event loop gets to every request, the database and the services answer
\* what they are asked, supervisord starts the process, and an outage ends.
\* No call has to be made, to be given up, or to fail.
Fairness ==
    /\ \A c \in Calls : /\ WF_vars(Receive(c)) /\ WF_vars(Refuse(c))
                        /\ WF_vars(ServiceAnswers(c))
    /\ WF_vars(DatabaseAnswers) /\ WF_vars(Connect)
    /\ WF_vars(Restart) /\ WF_vars(DatabaseReturns)
    /\ WF_vars(ConnectionLost)

FairSpec == Spec /\ Fairness

-----------------------------------------------------------------------------
\* Properties

Waiting(c, ask) == {i \in DOMAIN queue :
                      queue[i] = [call |-> c, try |-> tries[c], ask |-> ask]}

\* A handler that waits for the database waits for exactly the queries of its
\* own attempt that are in the queue: none was lost to another request, none
\* is asked twice, and no answer of an earlier attempt can be taken for its
\* own (pgquery.js, server.js:287).
NobodyWaitsInVain ==
    \A c \in Calls : at[c] \in Asks =>
        Cardinality(Waiting(c, at[c])) = IF at[c] = "logos" THEN left[c] ELSE 1

\* An empty-blocks reply is complete: when it is sent, no logo of it is still
\* to come (Promise.all, server.js:300).
BlocksComplete ==
    \A c \in Calls : kind[c] = "blocks" /\ result[c] = "ok" =>
        Waiting(c, "logos") = {}

\* Only accounts that oig.producer knows get a token, although nothing in the
\* login asks for it: the logo that is missing ends it (server.js:143).
TokensForGuilds ==
    \A c \in Calls : result[c] = "token" => guild[c]

\* A page that reads that checks are scheduled is right, whatever was repeated
\* on the way (server.js:178-180).
SuccessMeansQueued ==
    \A c \in Calls : result[c] = "scanned" => accepted[c] > 0

\* What the pages are told is true: complete blocks, tokens for guilds only,
\* and a success only for checks that are queued.
AnswersTrue == BlocksComplete /\ TokensForGuilds /\ SuccessMeansQueued

\* One click queues a re-scan at most once per attempt of ky and of got: both
\* repeat a request whose answer was lost, and /run is not idempotent.
RescansBounded ==
    \A c \in Calls : accepted[c] <= (1 + KyRetries) * (1 + GotRetries)

\* The process ends only by a query of a callback route, or with the
\* connection: what goes wrong for a route that awaits stays with it.
ErrorsContained ==
    [][server = "up" /\ server' # "up" =>
         \/ ~database
         \/ queue # <<>> /\ Head(queue).ask \in {"table", "dates"}]_vars

\* What a page knows of its calls.
SeenState == [c \in Calls |-> IF state[c] \in {"sent", "served"} THEN "pending"
                              ELSE state[c]]

Service == INSTANCE CallService WITH
    state <- SeenState, MaxRescans <- (1 + KyRetries) * (1 + GotRetries)

\* PortalServer implements the service of CallService: however its attempts,
\* the process and the database fare, a call that was made is concluded once,
\* with an answer of its route, and late answers change nothing (server.js,
\* api.ts).
CallServiceSpec == Service!Spec

\* Every call of a page comes to an end, through errors, ends of the process
\* and outages, even if nobody gives up waiting.
EveryCallEnds ==
    \A c \in Calls : state[c] = "sent" ~> state[c] = "done"
=============================================================================
