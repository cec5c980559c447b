------------------------------ MODULE CheckRun ------------------------------
(***************************************************************************)
(* start.main of backend/start.py, run by two processes that share the     *)
(* PostgreSQL tables and nothing else:                                     *)
(*                                                                         *)
(*   Cron    start.py, started hourly by run_checks.sh: always a full run; *)
(*           its pid file keeps a second one from starting,                *)
(*   Worker  the thread of backend/main.py: rescans of one guild, and full *)
(*           runs too where /run is called without bp.                     *)
(*                                                                         *)
(* A full run rebuilds oig.producer and oig.nodes before it checks: it     *)
(* lists the guilds of the chain, upserts them, DELETES all nodes, fetches *)
(* the mainnet nodes guild by guild and inserts them, then the testnet     *)
(* ones.  Each call of db_connect is a transaction of its own, so each is  *)
(* a step here, and so is each guild that is fetched or checked.           *)
(*                                                                         *)
(* What a check finds out about a node is abstracted to whether it finds   *)
(* the node's row in oig.nodes at all; when runs start is module Cadence,  *)
(* and one of the checks in detail is module SeedNode.                     *)
(***************************************************************************)
EXTENDS Naturals

CONSTANTS
    Guilds,      \* owner_names registered on chain
    Poison,      \* guilds whose wax.json makes node_list raise
    Shared,      \* guilds whose nodes of both nets agree in owner_name,
                 \* node_type, http_node_url and features
    Listing,     \* nodes the guilds' wax.json files list at first
    Established, \* whether the tables hold an earlier refresh at first
    WorkerFull,  \* values of `full' to consider
    Outages,     \* whether requests fail and checks raise
    MaxChanges   \* bound on the changes by the admin and the guilds

Actors == {"Cron", "Worker"}
Nets == {"mainnet", "testnet"}
Nodes == Guilds \X Nets

ASSUME ConstantsAssumption ==
    /\ Poison \subseteq Guilds /\ Shared \subseteq Guilds
    /\ Listing \subseteq Nodes
    /\ Established \in BOOLEAN
    /\ WorkerFull \subseteq BOOLEAN /\ Outages \in BOOLEAN
    /\ MaxChanges \in Nat

VARIABLES
    producer,  \* oig.producer: a guild's `active' column, or "absent"
    nodes,     \* oig.nodes: the guilds and nets there is a row for
    listed,    \* the nodes listed by the wax.json files of the guilds
    pc,        \* where each process is in start.main
    net,       \* which of the two refreshes of oig.nodes it is in
    todo,      \* what is left of the loop it is in
    rows,      \* producersList: the `active' it will write for each guild
    acc,       \* node_list or finaltuple: rows gathered for the next insert
    scope,     \* producersdb: the guilds the run checks
    full,      \* whether /run is also called without bp
    changes,   \* number of changes by the admin and the guilds
    outdated,  \* a refresh is missing: oig.nodes need not be complete
    clean,     \* processes whose refresh began after the table got outdated
    retired,   \* guilds that were inactive when the run of Cron began, and
               \* that nobody has set active since
    misread    \* those of them whose status that run failed to read

tables == <<producer, nodes>>
locals == <<todo, rows, acc, scope>>
world == <<listed, full, changes>>
ghosts == <<outdated, clean, retired, misread>>
vars == <<tables, locals, world, ghosts, pc, net>>

Phases == {"idle", "list", "store", "delete", "read", "fetch", "insert",
           "open", "check", "save"}

TypeOK ==
    /\ producer \in [Guilds -> {"absent", "active", "inactive"}]
    /\ nodes \subseteq Nodes
    /\ listed \subseteq Nodes
    /\ pc \in [Actors -> Phases]
    /\ net \in [Actors -> Nets]
    /\ todo \in [Actors -> SUBSET Nodes]
    /\ rows \in [Actors -> [Guilds -> {"absent", "active", "inactive"}]]
    /\ acc \in [Actors -> SUBSET Nodes]
    /\ scope \in [Actors -> SUBSET Guilds]
    /\ full \in WorkerFull
    /\ changes \in 0..MaxChanges
    /\ outdated \in BOOLEAN
    /\ clean \subseteq Actors
    /\ retired \subseteq Guilds
    /\ misread \subseteq Guilds

Unlisted == [g \in Guilds |-> "absent"]

\* The unique index of oig.nodes does not have the column net: what one refresh
\* stores of a list has no testnet row that collides with a mainnet one.
Stored(list) ==
    {node \in list : ~ /\ node[1] \in Shared /\ node[2] = "testnet"
                       /\ <<node[1], "mainnet">> \in list}

Init ==
    /\ IF Established
       THEN producer = [g \in Guilds |-> "active"] /\ nodes = Stored(Listing)
       ELSE producer = Unlisted /\ nodes = {}
    /\ listed = Listing
    /\ full \in WorkerFull
    /\ pc = [a \in Actors |-> "idle"]
    /\ net = [a \in Actors |-> "mainnet"]
    /\ todo = [a \in Actors |-> {}]
    /\ rows = [a \in Actors |-> Unlisted]
    /\ acc = [a \in Actors |-> {}]
    /\ scope = [a \in Actors |-> {}]
    /\ changes = 0
    /\ outdated = ~Established /\ clean = {}
    /\ retired = {} /\ misread = {}

Active == {g \in Guilds : producer[g] = "active"}    \* getProducers
Goto(a, p) == pc' = [pc EXCEPT ![a] = p]

\* Something happened that only a refresh that begins later makes good.
Spoil == outdated' = TRUE /\ clean' = {}

-----------------------------------------------------------------------------
\* main: a full run starts at the list of producers, a rescan at the checks.

StartFull(a) ==
    /\ pc[a] = "idle" /\ (a = "Cron" \/ full)
    /\ Goto(a, "list")
    /\ todo' = [todo EXCEPT ![a] = Guilds \X {"mainnet"}]
    /\ retired' = IF a = "Cron" THEN {g \in Guilds : producer[g] = "inactive"}
                                ELSE retired
    /\ misread' = IF a = "Cron" THEN {} ELSE misread
    /\ UNCHANGED <<tables, world, outdated, clean, net, rows, acc, scope>>

StartRescan(g) ==
    /\ pc["Worker"] = "idle"
    /\ Goto("Worker", "check")
    /\ scope' = [scope EXCEPT !["Worker"] = {g}]
    /\ todo' = [todo EXCEPT !["Worker"] = {g} \X Nets]
    /\ UNCHANGED <<tables, world, ghosts, net, rows, acc>>

\* Mutant: a guild the table does not know is given no status at all.
ListGuildNull(a, g) ==
    /\ pc[a] = "list" /\ <<g, "mainnet">> \in todo[a]
    /\ todo' = [todo EXCEPT ![a] = @ \ {<<g, "mainnet">>}]
    /\ rows' = [rows EXCEPT ![a][g] = IF producer[g] = "absent"
                                      THEN "null" ELSE producer[g]]
    /\ UNCHANGED <<tables, world, ghosts, pc, net, acc, scope>>

\* producer_chain_list, one guild: its `active' is read from the table, and a
\* guild the table does not know is active.  So is a guild whose status could
\* not be read, since one bare except clause stands for both.  A guild whose
\* files cannot be fetched is left out.
ListGuild(a, g) ==
    /\ pc[a] = "list" /\ <<g, "mainnet">> \in todo[a]
    /\ todo' = [todo EXCEPT ![a] = @ \ {<<g, "mainnet">>}]
    /\ \/ /\ rows' = [rows EXCEPT ![a][g] = IF producer[g] = "absent"
                                            THEN "active" ELSE producer[g]]
          /\ UNCHANGED misread
       \/ /\ Outages
          /\ rows' = [rows EXCEPT ![a][g] = "active"]
          /\ misread' = IF a = "Cron" THEN misread \cup ({g} \cap retired)
                                    ELSE misread
       \/ Outages /\ UNCHANGED <<rows, misread>>
    /\ UNCHANGED <<tables, world, outdated, clean, retired, pc, net, acc,
                   scope>>

\* An empty list ends the program.
ListDone(a) ==
    /\ pc[a] = "list" /\ todo[a] = {}
    /\ Goto(a, IF rows[a] = Unlisted THEN "idle" ELSE "store")
    /\ UNCHANGED <<tables, locals, world, ghosts, net>>

\* producerInsert: the upsert writes `active' back as well.
StoreProducers(a) ==
    /\ pc[a] = "store"
    /\ producer' = [g \in Guilds |-> IF rows[a][g] = "absent"
                                     THEN producer[g] ELSE rows[a][g]]
    /\ rows' = [rows EXCEPT ![a] = Unlisted]
    /\ Goto(a, "delete")
    /\ UNCHANGED <<nodes, todo, acc, scope, world, ghosts, net>>

\* Mutant: only the mainnet rows are deleted.
DeleteMainnet(a) ==
    /\ pc[a] = "delete"
    /\ nodes' = {node \in nodes : node[2] = "testnet"}
    /\ clean' = clean \cup {a}
    /\ Goto(a, "read")
    /\ UNCHANGED <<producer, locals, world, outdated, retired, misread, net>>

\* nodesDelete swallows an error of the statement, and the run goes on with the
\* rows it did not delete.  (A connection that fails raises: Abort.)
DeleteNodes(a) ==
    /\ pc[a] = "delete"
    /\ \/ nodes' = {} /\ clean' = clean \cup {a}
       \/ Outages /\ UNCHANGED <<nodes, clean>>
    /\ Goto(a, "read")
    /\ UNCHANGED <<producer, locals, world, outdated, retired, misread, net>>

\* Mutant: the nodes of retired guilds are fetched as well.
ReadAllProducers(a) ==
    /\ pc[a] = "read"
    /\ todo' = [todo EXCEPT ![a] = {g \in Guilds : producer[g] # "absent"}
                                   \X {net[a]}]
    /\ Goto(a, "fetch")
    /\ UNCHANGED <<tables, world, ghosts, net, rows, acc, scope>>

\* node_list reads the active producers, then fetches one after the other.
ReadProducers(a) ==
    /\ pc[a] = "read"
    /\ todo' = [todo EXCEPT ![a] = Active \X {net[a]}]
    /\ Goto(a, "fetch")
    /\ UNCHANGED <<tables, world, ghosts, net, rows, acc, scope>>

\* An unreachable wax.json counts as one that lists no nodes.
FetchNodes(a, g) ==
    /\ pc[a] = "fetch" /\ <<g, net[a]>> \in todo[a] /\ g \notin Poison
    /\ todo' = [todo EXCEPT ![a] = @ \ {<<g, net[a]>>}]
    /\ \/ /\ acc' = [acc EXCEPT ![a] = @ \cup (listed \cap {<<g, net[a]>>})]
          /\ UNCHANGED ghosts
       \/ /\ Outages /\ Spoil
          /\ UNCHANGED <<acc, retired, misread>>
    /\ UNCHANGED <<tables, world, pc, net, rows, scope>>

FetchDone(a) ==
    /\ pc[a] = "fetch" /\ todo[a] = {}
    /\ Goto(a, "insert")
    /\ UNCHANGED <<tables, locals, world, ghosts, net>>

\* Mutant: the testnet rows replace the mainnet rows.
InsertReplaces(a) ==
    /\ pc[a] = "insert"
    /\ nodes' = IF net[a] = "testnet" THEN acc[a] ELSE nodes \cup acc[a]
    /\ acc' = [acc EXCEPT ![a] = {}]
    /\ net' = [net EXCEPT ![a] = IF @ = "mainnet" THEN "testnet"
                                                ELSE "mainnet"]
    /\ Goto(a, IF net[a] = "mainnet" THEN "read" ELSE "open")
    /\ outdated' = (outdated /\ (net[a] = "mainnet" \/ a \notin clean))
    /\ UNCHANGED <<producer, todo, rows, scope, world, clean, retired,
                   misread>>

\* The table has a row that nodesInsert takes for that of the node: it would
\* be updated in place, and its net is not among the columns that are set.
Has(table, node) ==
    \/ node \in table
    \/ node[1] \in Shared /\ \E n \in Nets : <<node[1], n>> \in table

\* nodesInsert, after which comes the other net or the checks.
InsertNodes(a) ==
    /\ pc[a] = "insert"
    /\ nodes' = nodes \cup {node \in acc[a] : ~Has(nodes, node)}
    /\ acc' = [acc EXCEPT ![a] = {}]
    /\ \/ /\ net[a] = "mainnet"
          /\ net' = [net EXCEPT ![a] = "testnet"]
          /\ Goto(a, "read")
          /\ UNCHANGED outdated
       \/ /\ net[a] = "testnet"
          /\ Goto(a, "open")
          /\ outdated' = (outdated /\ a \notin clean)
          /\ net' = [net EXCEPT ![a] = "mainnet"]
    /\ UNCHANGED <<producer, todo, rows, scope, world, clean, retired,
                   misread>>

\* Mutant: retired guilds are checked as well.
OpenAllChecks(a) ==
    /\ pc[a] = "open"
    /\ scope' = [scope EXCEPT ![a] = {g \in Guilds : producer[g] # "absent"}]
    /\ todo' = [todo EXCEPT ![a] = scope'[a] \X Nets]
    /\ Goto(a, "check")
    /\ UNCHANGED <<tables, world, ghosts, net, rows, acc>>

\* finalresults of a full run reads the active producers once more.
OpenChecks(a) ==
    /\ pc[a] = "open"
    /\ scope' = [scope EXCEPT ![a] = Active]
    /\ todo' = [todo EXCEPT ![a] = Active \X Nets]
    /\ Goto(a, "check")
    /\ UNCHANGED <<tables, world, ghosts, net, rows, acc>>

\* The checks of one guild look its nodes up in the table, first those of
\* mainnet, then those of testnet (getQueryNodes).
CheckGuild(a, g, n) ==
    /\ pc[a] = "check" /\ <<g, n>> \in todo[a]
    /\ n = "testnet" => <<g, "mainnet">> \notin todo[a]
    /\ \A h \in Guilds \ {g} : <<h, "testnet">> \in todo[a]
                                   => <<h, "mainnet">> \in todo[a]
    /\ todo' = [todo EXCEPT ![a] = @ \ {<<g, n>>}]
    /\ acc' = [acc EXCEPT ![a] = @ \cup (nodes \cap {<<g, n>>})]
    /\ UNCHANGED <<tables, world, ghosts, pc, net, rows, scope>>

ChecksDone(a) ==
    /\ pc[a] = "check" /\ todo[a] = {}
    /\ Goto(a, "save")
    /\ UNCHANGED <<tables, locals, world, ghosts, net>>

\* resultsInsert: one transaction for all results of the run.  The checks
\* never read oig.results back, so the table is no variable here.
SaveResults(a) ==
    /\ pc[a] = "save"
    /\ scope' = [scope EXCEPT ![a] = {}]
    /\ acc' = [acc EXCEPT ![a] = {}]
    /\ retired' = IF a = "Cron" THEN {} ELSE retired
    /\ Goto(a, "idle")
    /\ misread' = IF a = "Cron" THEN {} ELSE misread
    /\ UNCHANGED <<tables, todo, rows, world, outdated, clean, net>>

\* The phases in which oig.nodes is being rebuilt.
Rebuilding == {"delete", "read", "fetch", "insert"}

\* An exception no check or fetch catches ends the run where it is: the
\* process of cron ends, the worker goes on with its next task.  What the run
\* deleted stays deleted and what it gathered is gone.
Abort(a) ==
    /\ \/ Outages /\ pc[a] # "idle"
       \/ pc[a] = "fetch" /\ \E g \in Poison : <<g, net[a]>> \in todo[a]
    /\ Goto(a, "idle")
    /\ IF pc[a] \in Rebuilding THEN Spoil ELSE UNCHANGED <<outdated, clean>>
    /\ todo' = [todo EXCEPT ![a] = {}]
    /\ rows' = [rows EXCEPT ![a] = Unlisted]
    /\ acc' = [acc EXCEPT ![a] = {}]
    /\ scope' = [scope EXCEPT ![a] = {}]
    /\ net' = [net EXCEPT ![a] = "mainnet"]
    /\ retired' = IF a = "Cron" THEN {} ELSE retired
    /\ misread' = IF a = "Cron" THEN {} ELSE misread
    /\ UNCHANGED <<tables, world>>

RunStep(a) ==
    \/ \E g \in Guilds : ListGuild(a, g) \/ FetchNodes(a, g)
    \/ \E g \in Guilds, n \in Nets : CheckGuild(a, g, n)
    \/ ListDone(a) \/ StoreProducers(a) \/ DeleteNodes(a)
    \/ ReadProducers(a) \/ FetchDone(a) \/ InsertNodes(a)
    \/ OpenChecks(a) \/ ChecksDone(a) \/ SaveResults(a)
    \/ Abort(a)

-----------------------------------------------------------------------------
\* The OIG sets a guild inactive or active, and a guild edits its wax.json.

SetActive(g, s) ==
    /\ changes < MaxChanges
    /\ producer[g] # "absent" /\ producer[g] # s
    /\ producer' = [producer EXCEPT ![g] = s]
    /\ changes' = changes + 1
    /\ retired' = retired \ (IF s = "active" THEN {g} ELSE {})
    /\ Spoil
    /\ UNCHANGED <<nodes, locals, listed, full, misread, pc, net>>

EditJson(node) ==
    /\ changes < MaxChanges
    /\ listed' = IF node \in listed THEN listed \ {node}
                                    ELSE listed \cup {node}
    /\ changes' = changes + 1
    /\ Spoil
    /\ UNCHANGED <<tables, locals, full, retired, misread, pc, net>>

Outside ==
    \/ \E g \in Guilds, s \in {"active", "inactive"} : SetActive(g, s)
    \/ \E node \in Nodes : EditJson(node)

Next ==
    \/ \E a \in Actors : StartFull(a) \/ RunStep(a)
    \/ \E g \in Guilds : StartRescan(g)
    \/ Outside

Spec == Init /\ [][Next]_vars

-----------------------------------------------------------------------------
\* Properties

Refreshing == {a \in Actors : pc[a] \in Rebuilding}

\* The rows that the active guilds list.
Wanted == {node \in listed : producer[node[1]] = "active"}

\* Whenever nobody rebuilds oig.nodes, and no refresh that failed or that a
\* change overtook is the last one, the table has every node that the active
\* guilds list, even where two full runs rebuilt it at the same time
\* (start.py:312-328); of two nodes that collide in the unique index
\* (db_connect.py:195) it has one.  What a check misses while the table is
\* being rebuilt, or after a run that failed, this does not exclude.
NodesComplete ==
    Refreshing = {} /\ ~outdated => \A node \in Wanted : Has(nodes, node)

\* Where the worker only rescans, the table then has no other node either, and
\* of two that collide it has that of mainnet.
NodesExact ==
    ~full /\ Refreshing = {} /\ ~outdated => nodes = Stored(Wanted)

\* Where the worker only rescans, a guild that was retired before a run began,
\* and was not set active again, is not among the guilds that run checks,
\* unless the run could not read its status (producers.py:133-139,
\* db_connect.py:91-94, start.py:103).
RetiredNotChecked ==
    ~full => (retired \ misread) \cap scope["Cron"] = {}

\* docs/admin.md:27: "Inactive Guilds are considered retired": a run does not
\* make a guild active again that the OIG set inactive.
RetiredStaysRetired ==
    [][\A g \in Guilds :
          producer[g] = "inactive" /\ changes' = changes
              => producer'[g] = "inactive"]_vars

\* A guild whose wax.json makes the refresh raise (nodes.py:64) stops the
\* checks of all only until it is retired: from then on the other active
\* guilds get results again and again, if full runs of cron begin again and
\* again.  That they do is no promise of the code: re-scans put them off
\* (module Cadence), and a check may last for ever.
ChecksRecover ==
    []<><<StartFull("Cron")>>_vars =>
        \A g \in Guilds \ Poison :
            <>[](/\ producer[g] = "active"
                 /\ \A p \in Poison : producer[p] # "active") =>
                []<><<SaveResults("Cron") /\ g \in scope["Cron"]>>_vars
=============================================================================
