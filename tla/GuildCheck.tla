----------------------------- MODULE GuildCheck -----------------------------
(***************************************************************************)
(* The checks of one guild: the body of the loop of finalresults in        *)
(* start.py, with services/api.py, history.py, atomic.py, cpu.py,          *)
(* utils/core.py, utils/requests.py and services/score.py.                 *)
(*                                                                         *)
(* The checks run one after the other, each asks the node that oig.nodes   *)
(* holds for a service of the guild, and decides from the answers. Nothing *)
(* around them catches what a check raises: it ends the run of all guilds. *)
(* CheckRun has this module's steps as one, CheckGuild or Abort, and       *)
(* SeedNode the check of the seed node in detail.                          *)
(***************************************************************************)
EXTENDS Integers, Sequences, FiniteSets, FiniteSetsExt, Functions

CONSTANTS
    Listings,       \* what a guild may list: sets of services
    Delays,         \* seconds until a node answers
    MaxTroubled,    \* bound on what is not in good order from the start
    Points,         \* oig.pointsystem: points * multiplier of a check
    Deduction,      \* oig.pointsystem: points_deduct
    Availability    \* the 26.5 points for rounds_availability

Services == {"chain-api", "history-v1", "hyperion-v2", "hyperion-v2-testnet",
             "atomic-assets-api"}

Hyperion == {"hyperion-v2", "hyperion-v2-testnet"}

\* The order of the checks in finalresults.
Order == <<"oracle_feed", "api_node", "http_check", "cors_check",
           "https_check", "tlscheck", "http2_check", "producer_apicheck",
           "net_apicheck", "dbsize_apicheck", "cpu_time", "full_history",
           "hyperion_v2", "hyperion_v2_full", "hyperion_v2_testnet",
           "hyperion_v2_testnet_full", "atomic_api", "wwwjson", "seed_node">>

Api == {"api_node", "http_check", "cors_check"}
Https == {"https_check", "tlscheck", "http2_check"}
Security == {"producer_apicheck", "net_apicheck", "dbsize_apicheck"}
HyperionChecks == {"hyperion_v2", "hyperion_v2_full", "hyperion_v2_testnet",
                   "hyperion_v2_testnet_full"}
HyperionNode(c) == IF c \in {"hyperion_v2", "hyperion_v2_full"}
                   THEN "hyperion-v2" ELSE "hyperion-v2-testnet"
Partial(c) == c \in {"hyperion_v2_full", "hyperion_v2_testnet_full"}

\* Nothing looks at the metadata any more: both are True from the start.
Metadata == {"chains_json", "wax_json"}
Checks == Metadata \union {Order[i] : i \in DOMAIN Order}

ASSUME GuildAssumption ==
    /\ Listings \subseteq SUBSET Services
    /\ Delays \subseteq Nat /\ MaxTroubled \in Nat
    /\ \E quick \in Delays : quick <= 7         \* less than every timeout
    /\ \E slow \in Delays : \A d \in Delays : d <= slow
    /\ IsFiniteSet(DOMAIN Points) /\ Points \in [DOMAIN Points -> Nat]
    /\ Deduction \in [DOMAIN Points -> Nat] /\ Availability \in Nat

VARIABLES
    row,        \* the row of oig.nodes that the queries find for a service
    node,       \* how the node of a service answers
    endpoint,   \* the p2p_url of the guild's seed node
    known,      \* oig.producer has the guild: always, but in a rescan
    changed,    \* when a node became faster or slower: "never", "between"
                \* the steps, or "within" the check that is due
    connecting, \* that check has its answer and is about to connect again
    outage,     \* the database or the portal's own node of the chain failed
    next,       \* position in Order of the check that is due
    passed,     \* the checks that passed
    score,
    phase       \* "checks", "scored" or "raised"

guild == <<row, node, endpoint, known, changed>>
vars == <<guild, connecting, outage, next, passed, score, phase>>

\* historyfull is looked at for Hyperion only.
\* "tail" is an https URL with a port and a path behind it, "bare" a row
\* whose URLs are both NULL: node_list skips it for full nodes only.
Urls == {"https", "tail", "http", "bare"}
Row == [url : Urls, full : BOOLEAN]

\* What a node may do. Every request of a node that answers
\*   "ok"        gets what the check hopes for,
\*   "page"      gets HTML with status 200, as from a proxy,
\*   "errorpage" gets status 500, with HTML,
\*   "error"     gets any other answer with an error status;
\* the others are "ok" but for what their name says: "list" is any JSON but an
\* object, "noSocket" a node that closes a bare TLS connection, or has an IPv6
\* address only, "nullActions" an answer with "actions": null, "v1Raises" a
\* node whose v1 API answers so or like "page".
Kinds == [s \in Services |->
    {"ok", "page", "error", "errorpage"} \union
    CASE s = "chain-api" -> {"otherChain", "list", "noCors", "noCert",
                             "noSocket", "open", "http1"}
      [] s = "history-v1" -> {"noActions", "nullActions"}
      [] s = "hyperion-v2" -> {"noHealth", "noElastic", "gaps", "uncounted",
                               "short", "lagging", "noRecent", "noOld",
                               "noV1", "v1Raises"}
      [] s = "hyperion-v2-testnet" -> {"noHealth", "noElastic", "gaps",
                                       "uncounted", "short", "lagging",
                                       "noRecent", "noOld"}
      [] s = "atomic-assets-api" -> {"behind", "redisDown"}]

Listed == DOMAIN row

-----------------------------------------------------------------------------
\* What the checks decide

\* A request with this timeout gets an answer.
Within(s, timeout) == node[s].delay <= timeout

HasUrl(s) == row[s].url # "bare"
HasHttps(s) == row[s].url \in {"https", "tail"}
Is(s, kinds) == node[s].answers \in kinds
Refusing == {"error", "errorpage"}

\* check_api: COALESCE(https, http) + info needs a URL, and .get an object.
\* The tuple that getRequest returns for a failure is true, so a failure is
\* noticed where its .json() or .headers is missing.
ApiRaises(c) ==
    /\ "chain-api" \in Listed
    /\ \/ ~HasUrl("chain-api")
       \/ /\ c # "cors_check" /\ Within("chain-api", 7)
          /\ Is("chain-api", {"list"})

ApiPasses(c) ==
    /\ "chain-api" \in Listed
    /\ Within("chain-api", 7)
    /\ ~Is("chain-api", Refusing)
    /\ IF c = "cors_check" THEN ~Is("chain-api", {"noCors", "page"})
       ELSE ~Is("chain-api", {"page", "otherChain"})

\* The get of check_https. Unlike check_api it verifies the certificate.
HttpsAnswered == /\ Within("chain-api", 20)
                 /\ ~Is("chain-api", Refusing \union {"noCert"})

\* check_https: without an https URL the except clause uses curlreq, which
\* nothing assigned.
HttpsRaises == "chain-api" \in Listed /\ ~HasHttps("chain-api")

HttpsPasses ==
    /\ "chain-api" \in Listed
    /\ HttpsAnswered
    /\ ~Is("chain-api", {"page", "otherChain", "list"})

\* check_tls and check_http2 connect to the node once more.
ConnectsAgain == "chain-api" \in Listed /\ HasHttps("chain-api") /\ HttpsAnswered

\* check_tls turns the port into an integer outside of its try, and check_http2
\* before it assigns curlCommand, which its except clause uses. So it does
\* where the connection fails, while check_tls fails then.
SocketRaises(c, connects) ==
    row["chain-api"].url = "tail" \/ (c = "http2_check" /\ ~connects)

SocketPasses(c, connects) ==
    connects /\ (c = "http2_check" => ~Is("chain-api", {"http1"}))

\* api_security: any answer with a good status counts as an open API.
SecurityPasses ==
    \/ "chain-api" \notin Listed
    \/ ~HasUrl("chain-api")
    \/ ~Within("chain-api", 20)
    \/ ~Is("chain-api", {"open", "page"})

\* Mutant: the body of every error status is parsed
HistoryRaisesOnError(s) ==
    /\ s \in Listed
    /\ \/ ~HasUrl(s)
       \/ Within(s, 10) /\ Is(s, {"page", "errorpage", "error", "nullActions",
                                  "v1Raises"})

\* check_history_v1: response.json() is outside of the try clauses, and so is
\* the length of what "actions" holds.
HistoryRaises(s) ==
    /\ s \in Listed
    /\ \/ ~HasUrl(s)
       \/ Within(s, 10) /\ Is(s, {"page", "errorpage", "nullActions", "v1Raises"})

HistoryPasses(s) ==
    /\ s \in Listed
    /\ Within(s, 10)
    /\ Is(s, {"ok"})

\* hyperionindexedBlocks: a node that does not count missing blocks passes as
\* long as last_indexed \in range(last_indexed - 10, total_indexed + 1), which
\* is not the case where it is "short" of blocks.
IndexedRaises(s) == HasUrl(s) /\ Within(s, 15) /\ Is(s, {"noHealth"})
IndexedPasses(s) ==
    /\ HasUrl(s) /\ Within(s, 15)
    /\ ~Is(s, Refusing \union {"page", "noHealth", "noElastic", "gaps", "short"})

\* check_hyperion up to its call of check_history_v1, which is the one for the
\* mainnet node also where the testnet node is checked.
ReachesV1(s, partial) ==
    /\ IndexedPasses(s)
    /\ IF partial THEN row[s].full
       ELSE Within(s, 7) /\ ~Is(s, {"lagging"})

HyperionRaises(s, partial) ==
    /\ s \in Listed
    /\ \/ IndexedRaises(s)
       \/ ReachesV1(s, partial) /\ HistoryRaises("hyperion-v2")

\* The tuple of check_history_v1 is true whatever is in it.
HyperionPasses(s, partial) ==
    /\ s \in Listed
    /\ ReachesV1(s, partial)
    /\ ~Is(s, {IF partial THEN "noOld" ELSE "noRecent"})

\* check_atomic_assets returns in the first turn of its loop over the
\* services, so that only the status of postgres counts.
AtomicPasses ==
    LET s == "atomic-assets-api" IN
    /\ s \in Listed
    /\ HasUrl(s) /\ Within(s, 7)
    /\ Is(s, {"ok", "redisDown"})

\* Mutant: deductions are added
WorthAdds(ps) == [c \in DOMAIN Points |->
    CASE c = "rounds_availability" -> Availability
      [] c # "rounds_availability" /\ c \in ps -> Points[c]
      [] c # "rounds_availability" /\ c \in Checks \ ps -> Deduction[c]
      [] c \notin Checks \union ps \union {"rounds_availability"} -> 0]

\* pointsResults: whatever the results, rounds_availability adds the same, and a
\* name of the point system that no check has adds nothing. Nothing looks at
\* min_requirements.
Worth(ps) == [c \in DOMAIN Points |->
    CASE c = "rounds_availability" -> Availability
      [] c # "rounds_availability" /\ c \in ps -> Points[c]
      [] c # "rounds_availability" /\ c \in Checks \ ps -> -Deduction[c]
      [] c \notin Checks \union ps \union {"rounds_availability"} -> 0]
Scored(ps) == SumFunction(Worth(ps))

-----------------------------------------------------------------------------
\* The checks, in turn

Quick == Min(Delays)
Good == [answers |-> "ok", delay |-> Quick]
InGoodOrder(s) == row[s].url = "https" /\ node[s] = Good

Init ==
    /\ endpoint \in {"absent", "malformed", "host:port"}
    /\ known \in BOOLEAN
    /\ \E listing \in Listings : \E troubled \in SUBSET listing :
         /\ Cardinality(troubled) + (IF endpoint = "host:port" THEN 0 ELSE 1)
                                  + (IF known THEN 0 ELSE 1) <= MaxTroubled
         /\ \E url \in [troubled -> Urls], full \in SUBSET (listing \intersect Hyperion) :
              row = [s \in listing |->
                        [url |-> IF s \in troubled THEN url[s] ELSE "https",
                         full |-> s \in full]]
         /\ \E n \in [troubled -> [answers : UNION Range(Kinds), delay : Delays]] :
              /\ \A s \in troubled : n[s].answers \in Kinds[s]
              /\ node = [s \in listing |-> IF s \in troubled THEN n[s] ELSE Good]
    /\ changed = "never" /\ connecting = FALSE /\ outage = FALSE
    /\ next = 1
    /\ passed = Metadata
    /\ score = 0
    /\ phase = "checks"

\* A check comes to its end.
Verdict(c, raises, passes) ==
    /\ phase = "checks" /\ next \in DOMAIN Order /\ Order[next] = c
    /\ phase' = IF raises THEN "raised" ELSE phase
    /\ next' = IF raises THEN next ELSE next + 1
    /\ passed' = IF passes /\ ~raises THEN passed \union {c} ELSE passed
    /\ UNCHANGED <<guild, score>>

\* A check that is one step.
Step(c, raises, passes) ==
    /\ ~connecting /\ Verdict(c, raises, passes)
    /\ UNCHANGED <<connecting, outage>>

CheckApi == \E c \in Api : Step(c, ApiRaises(c), ApiPasses(c))

CheckHttps == Step("https_check", HttpsRaises, HttpsPasses)

\* The first part of the other two checks of check_https: without an answer
\* they come to the same as the first one.
AskHttps ==
    \E c \in Https \ {"https_check"} :
        \/ ~ConnectsAgain /\ Step(c, HttpsRaises, FALSE)
        \/ /\ ConnectsAgain /\ ~connecting
           /\ phase = "checks" /\ next \in DOMAIN Order /\ Order[next] = c
           /\ connecting' = TRUE
           /\ UNCHANGED <<guild, outage, next, passed, score, phase>>

\* Their second part. A node that took the first connection, within three
\* seconds, takes the second one within five unless it has changed meanwhile.
ConnectSocket ==
    \E c \in Https \ {"https_check"}, connects \in BOOLEAN :
        /\ connecting
        /\ connects => ~Is("chain-api", {"noSocket"})
        /\ ~connects => Is("chain-api", {"noSocket"}) \/ changed = "within"
        /\ Verdict(c, SocketRaises(c, connects), SocketPasses(c, connects))
        /\ connecting' = FALSE
        /\ UNCHANGED outage

ApiSecurity == \E c \in Security : Step(c, FALSE, SecurityPasses)

CheckHistory ==
    Step("full_history", HistoryRaises("history-v1"), HistoryPasses("history-v1"))

CheckHyperion ==
    \E c \in HyperionChecks :
        Step(c, HyperionRaises(HyperionNode(c), Partial(c)),
                HyperionPasses(HyperionNode(c), Partial(c)))

CheckAtomicAssets == Step("atomic_api", FALSE, AtomicPasses)

\* delphiresults; and compareJSON, which needs the guild's URL from
\* oig.producer, and fails on every exception: only what they decide.
CheckNetwork ==
    \E ok \in BOOLEAN : \/ Step("oracle_feed", FALSE, ok)
                        \/ Step("wwwjson", FALSE, ok /\ known)

\* cpuresults against 0.3 ms. It takes the guild's name in the test network
\* from oig.producer.
CheckCpu == \E ok \in BOOLEAN : Step("cpu_time", ~known, ok)

\* verify_block_from_p2p: what SeedNode shows it to come to.
CheckSeedNode ==
    \/ Step("seed_node", endpoint = "malformed", FALSE)
    \/ endpoint = "host:port" /\ Step("seed_node", FALSE, TRUE)

\* The portal's own node of the chain does not answer, which fails the check,
\* or answers without a head block, which raises once there is a head block
\* of the guild's node to compare with.
HeadBlockUnknown ==
    /\ endpoint # "absent" /\ ~connecting
    /\ \E raises \in BOOLEAN : Verdict("seed_node", raises, FALSE)
    /\ outage' = TRUE /\ UNCHANGED connecting

\* What check c comes to where the database takes no connection, which
\* getQueryNodes raises and some checks catch; or fails at the query, which
\* getQueryNodes takes for a guild without nodes, but cpu.py does not catch.
Unreachable(c) == Verdict(c, c \in Api \union Https \union Security
                                   \union {"cpu_time", "seed_node"}, FALSE)
QueryFails(c) == Verdict(c, c = "cpu_time", c \in Security)

\* check_hyperion asks the database again for the v1 API, and does not look at
\* what became of it.
SecondQueryFails(c) ==
    LET s == HyperionNode(c) IN
    /\ c \in HyperionChecks /\ s \in Listed /\ ~IndexedRaises(s)
    /\ Verdict(c, FALSE, HyperionPasses(s, Partial(c)))

DatabaseFails ==
    /\ ~connecting /\ ~outage
    /\ \E c \in Range(Order) \ {"oracle_feed"} :
          Unreachable(c) \/ QueryFails(c) \/ SecondQueryFails(c)
    /\ outage' = TRUE /\ UNCHANGED connecting

\* Mutant: scored before the seed node is checked
PointsResultsEarly ==
    /\ phase = "checks" /\ next \in {Len(Order), Len(Order) + 1}
    /\ phase' = "scored"
    /\ score' = Scored(passed)
    /\ UNCHANGED <<guild, connecting, outage, next, passed>>

PointsResults ==
    /\ phase = "checks" /\ next = Len(Order) + 1
    /\ phase' = "scored"
    /\ score' = Scored(passed)
    /\ UNCHANGED <<guild, connecting, outage, next, passed>>

\* Environment: a node becomes slow or quick while the checks run, once.
NodeChanges ==
    /\ phase = "checks" /\ changed = "never"
    /\ \E s \in Listed, d \in {Quick, Max(Delays)} :
         /\ d # node[s].delay
         /\ node' = [node EXCEPT ![s].delay = d]
    /\ changed' = IF connecting THEN "within" ELSE "between"
    /\ UNCHANGED <<row, endpoint, known, connecting, outage, next, passed,
                   score, phase>>

\* The loop goes on with the next guild, or the exception leaves it.
Over == phase # "checks" /\ UNCHANGED vars

Next == \/ CheckApi \/ CheckHttps \/ AskHttps \/ ConnectSocket \/ ApiSecurity
        \/ CheckHistory \/ CheckHyperion \/ CheckAtomicAssets
        \/ CheckNetwork \/ CheckCpu \/ CheckSeedNode
        \/ HeadBlockUnknown \/ DatabaseFails
        \/ PointsResults \/ NodeChanges \/ Over

Spec == Init /\ [][Next]_vars

-----------------------------------------------------------------------------
\* Properties

\* Type invariant: the checks that passed were due, a second connection belongs
\* to one of the checks that need it, and a score is there once all checks were.
TypeOK ==
    /\ Listed \subseteq Services /\ row \in [Listed -> Row] /\ DOMAIN node = Listed
    /\ \A s \in Listed : node[s].answers \in Kinds[s] /\ node[s].delay \in Delays
    /\ endpoint \in {"absent", "malformed", "host:port"} /\ known \in BOOLEAN
    /\ changed \in {"never", "between", "within"}
    /\ connecting \in BOOLEAN /\ outage \in BOOLEAN
    /\ connecting => /\ phase = "checks" /\ "chain-api" \in Listed
                     /\ next \in DOMAIN Order
                     /\ Order[next] \in Https \ {"https_check"}
    /\ next \in 1..(Len(Order) + 1)
    /\ passed \subseteq Metadata \union {Order[i] : i \in 1..(next - 1)}
    /\ score \in Int
    /\ phase \in {"checks", "scored", "raised"}
    /\ phase = "scored" => next = Len(Order) + 1

\* A guild in order: one that oig.producer has, HTTPS for its API, which takes a
\* bare connection, a URL for the other services, no port with a path behind
\* it, a host and a port for its seed node, JSON objects wherever there is JSON,
\* complete health, and actions where the history has none to tell.
Orderly ==
    /\ known /\ endpoint # "malformed"
    /\ \A s \in Listed :
          /\ IF s = "chain-api" THEN row[s].url = "https" ELSE HasUrl(s)
          /\ ~Is(s, {"list", "noSocket", "noHealth", "nullActions", "v1Raises"})
          /\ s \in {"history-v1", "hyperion-v2"} => ~Is(s, {"page", "errorpage"})

\* The run of all guilds ends in three cases only (finalresults catches nothing
\* around its checks): a guild is not in that order; the portal's own database
\* or node of the chain fails; or a node changes between the two connections
\* that the check of HTTP/2 makes. Dead, slow, lagging and wrong nodes, error
\* statuses, missing services, and changes at any other time cost the guild its
\* own points and nothing else.
OnlyDisorderRaises ==
    phase = "raised" => ~Orderly \/ outage \/ changed = "within"

\* The checks of each service, and those that no listed node can fail.
ChecksOf == [s \in Services |->
    CASE s = "chain-api" -> Api \union Https
      [] s = "history-v1" -> {"full_history"}
      [] s = "hyperion-v2" -> {"hyperion_v2", "hyperion_v2_full"}
      [] s = "hyperion-v2-testnet" -> {"hyperion_v2_testnet", "hyperion_v2_testnet_full"}
      [] s = "atomic-assets-api" -> {"atomic_api"}]

\* Neither the guild's nodes nor the portal's own services changed.
Steady == changed = "never" /\ ~outage

\* Where all nodes were in good order the whole time, every check of a listed
\* service passes, the full ones if the guild declares full history.
HealthyGuildPasses ==
    (phase = "scored" /\ Steady /\ \A s \in Listed : InGoodOrder(s)) =>
        /\ Security \subseteq passed
        /\ \A s \in Listed : \A c \in ChecksOf[s] :
             c \in passed \/ (~row[s].full
                             /\ c \in {"hyperion_v2_full", "hyperion_v2_testnet_full"})

\* A service that is not listed, or whose node never answered in any check's
\* time, passes no check but those of the APIs that should be closed, and the
\* guild has no more points than one that fails only the checks of that
\* service, whatever the database does meanwhile.
SilentServiceFails ==
    phase = "scored" =>
        \A s \in Services :
            s \notin Listed \/ (changed = "never" /\ node[s].delay > 20) =>
                /\ ChecksOf[s] \intersect passed = {}
                /\ score <= Scored(Checks \ ChecksOf[s])

\* The timeouts agree: an https node with a valid certificate that passes the
\* API check, and whose speed does not change, passes the HTTPS check, which
\* waits longer.
ApiThenHttps ==
    (phase = "scored" /\ Steady /\ "api_node" \in passed
        /\ ~Is("chain-api", {"noCert"})) => "https_check" \in passed

\* The verdicts fit what the guild's nodes did: a healthy guild passes, silence
\* passes nothing and earns nothing, the API and the HTTPS check agree.
VerdictsDeserved == HealthyGuildPasses /\ SilentServiceFails /\ ApiThenHttps
=============================================================================
