--------------------------- MODULE CheckRunProofs ---------------------------
(***************************************************************************)
(* Theorems about CheckRun, for every set of guilds, finite or not, every  *)
(* number of changes, with and without outages and full runs of the        *)
(* worker: what two processes that rebuild oig.nodes without a lock leave  *)
(* in it.                                                                  *)
(***************************************************************************)
EXTENDS CheckRun, TLAPS

-----------------------------------------------------------------------------
\* The inductive invariant

\* What a local variable of start.main holds where it is not in use.
LocalsInv ==
    \A a \in Actors :
        /\ pc[a] \notin {"read", "fetch", "insert"} => net[a] = "mainnet"
        /\ pc[a] \notin {"list", "store"} => rows[a] = Unlisted
        /\ pc[a] \notin {"fetch", "insert", "check", "save"} => acc[a] = {}
        /\ pc[a] \notin {"check", "save"} => scope[a] = {}
        /\ pc[a] \in {"fetch", "insert"} => acc[a] \subseteq Guilds \X {net[a]}

\* A worker that only rescans touches neither oig.producer nor oig.nodes.
OnlyCronRefreshes == ~full => pc["Worker"] \in {"idle", "check", "save"}

\* Nothing has gone wrong since some refresh began that has ended or goes on.
Sound == ~outdated \/ clean # {}

\* The refresh of a has the node in hand, or has yet to come to it.
StillBrings(a, node) ==
    \/ pc[a] = "delete"
    \/ pc[a] = "read" /\ net[a] = "mainnet"
    \/ pc[a] \in {"read", "fetch", "insert"} /\ node[2] = "testnet"
           /\ (pc[a] = "read" \/ net[a] = "mainnet")
    \/ pc[a] = "fetch" /\ node \in todo[a]
    \/ pc[a] \in {"fetch", "insert"} /\ node \in acc[a]

\* No node is missed: it has a row, or a refresh that goes on brings it.
NothingMissed ==
    Sound => \A node \in Wanted :
                 Has(nodes, node) \/ \E a \in Actors : StillBrings(a, node)

\* Where cron refreshes alone, nothing that is in the table or on its way to
\* it is unwanted, and producersList will not retire a guild.
NothingUnwanted ==
    ~full /\ Sound =>
        /\ nodes \subseteq Stored(Wanted)
        /\ pc["Cron"] \in {"fetch", "insert"} => acc["Cron"] \subseteq Wanted
        /\ pc["Cron"] = "fetch" =>
             \A node \in todo["Cron"] : producer[node[1]] = "active"
        /\ \A g \in Guilds : producer[g] = "active" =>
             rows["Cron"][g] \in {"absent", "active"}

\* A guild that was retired when cron's run began is inactive in the table, in
\* the row that the run will write, and for its checks, unless its status could
\* not be read.
RetiredInv ==
    ~full => \A g \in retired \ misread :
                 /\ producer[g] = "inactive"
                 /\ rows["Cron"][g] # "active"
                 /\ g \notin scope["Cron"]

IInv == /\ TypeOK /\ LocalsInv /\ OnlyCronRefreshes
        /\ NothingMissed /\ NothingUnwanted /\ RetiredInv

-----------------------------------------------------------------------------
\* One lemma for each action

\* Cron, or the worker, begins a full run (start.py:296-312).
LEMMA StartFullKeeps ==
    ASSUME IInv, NEW a \in Actors, StartFull(a)
    PROVE  IInv'
  <1> USE DEF IInv, tables, locals, world, ghosts, Goto
  <1>1. TypeOK'
      BY DEF StartFull, TypeOK, Phases, Nets, Nodes
  <1>2. LocalsInv'
      BY DEF StartFull, LocalsInv
  <1>3. OnlyCronRefreshes'
      BY DEF StartFull, OnlyCronRefreshes
  <1>4. NothingMissed'
      BY DEF StartFull, NothingMissed, Sound, Wanted, StillBrings
  <1>5. NothingUnwanted'
      BY DEF StartFull, NothingUnwanted, Sound, Wanted
  <1>6. RetiredInv'
      BY DEF StartFull, Unlisted, LocalsInv, RetiredInv
  <1> QED
      BY <1>1, <1>2, <1>3, <1>4, <1>5, <1>6

\* The worker begins to check one guild (start.py:97-118).
LEMMA StartRescanKeeps ==
    ASSUME IInv, NEW g \in Guilds, StartRescan(g)
    PROVE  IInv'
  <1> USE DEF IInv, tables, locals, world, ghosts, Goto
  <1>1. TypeOK'
      BY DEF StartRescan, TypeOK, Phases, Actors, Nodes
  <1>2. LocalsInv'
      BY DEF StartRescan, TypeOK, LocalsInv
  <1>3. OnlyCronRefreshes'
      BY DEF StartRescan, OnlyCronRefreshes
  <1>4. NothingMissed'
      BY DEF StartRescan, NothingMissed, Sound, Wanted, StillBrings
  <1>5. NothingUnwanted'
      BY DEF StartRescan, NothingUnwanted, Sound, Wanted
  <1>6. RetiredInv'
      BY DEF StartRescan, RetiredInv
  <1> QED
      BY <1>1, <1>2, <1>3, <1>4, <1>5, <1>6

\* The run lists one guild of the chain with the status it has in
\* oig.producer, or without one (producers.py:34-141).
LEMMA ListGuildKeeps ==
    ASSUME IInv, NEW a \in Actors, NEW g \in Guilds, ListGuild(a, g)
    PROVE  IInv'
  <1> USE DEF IInv, tables, locals, world, ghosts, Goto
  <1>1. TypeOK'
      BY DEF ListGuild, TypeOK, Actors
  <1>2. LocalsInv'
      BY DEF ListGuild, TypeOK, LocalsInv
  <1>3. OnlyCronRefreshes'
      BY DEF ListGuild, OnlyCronRefreshes
  <1>4. NothingMissed'
      BY DEF ListGuild, NothingMissed, Sound, Wanted, StillBrings
  <1>5. NothingUnwanted'
      BY DEF ListGuild, TypeOK, NothingUnwanted, Sound, Wanted, Actors
  <1>6. RetiredInv'
      BY DEF ListGuild, TypeOK, RetiredInv, Actors
  <1> QED
      BY <1>1, <1>2, <1>3, <1>4, <1>5, <1>6

\* All guilds are listed (start.py:312-315).
LEMMA ListDoneKeeps ==
    ASSUME IInv, NEW a \in Actors, ListDone(a)
    PROVE  IInv'
  <1> USE DEF IInv, tables, locals, world, ghosts, Goto
  <1>1. TypeOK'
      BY DEF ListDone, TypeOK, Phases
  <1>2. LocalsInv'
      BY DEF ListDone, LocalsInv
  <1>3. OnlyCronRefreshes'
      BY DEF ListDone, OnlyCronRefreshes
  <1>4. NothingMissed'
      BY DEF ListDone, NothingMissed, Sound, Wanted, StillBrings
  <1>5. NothingUnwanted'
      BY DEF ListDone, NothingUnwanted, Sound, Wanted
  <1>6. RetiredInv'
      BY DEF ListDone, RetiredInv
  <1> QED
      BY <1>1, <1>2, <1>3, <1>4, <1>5, <1>6

\* The list is written to oig.producer: where cron is alone no row can retire a
\* guild that is active (db_connect.py:166-177).
LEMMA StoreProducersKeeps ==
    ASSUME IInv, NEW a \in Actors, StoreProducers(a)
    PROVE  IInv'
  <1> USE DEF IInv, tables, locals, world, ghosts, Goto
  <1>1. TypeOK'
      BY DEF StoreProducers, Unlisted, TypeOK, Phases
  <1>2. LocalsInv'
      BY DEF StoreProducers, TypeOK, LocalsInv
  <1>3. OnlyCronRefreshes'
      BY DEF StoreProducers, OnlyCronRefreshes
  <1>4. NothingMissed'
      BY DEF StoreProducers, TypeOK, NothingMissed, StillBrings
  <1>5. NothingUnwanted'
    <2> SUFFICES ASSUME ~full, Sound PROVE NothingUnwanted'
        BY DEF StoreProducers, NothingUnwanted, Sound
    <2>1. a = "Cron" /\ pc'["Cron"] = "delete" /\ rows'["Cron"] = Unlisted
        BY DEF StoreProducers, TypeOK, OnlyCronRefreshes, Actors
    <2>2. \A g \in Guilds : producer[g] = "active" => producer'[g] = "active"
        BY <2>1 DEF StoreProducers, NothingUnwanted
    <2>3. Wanted \subseteq Wanted'
        BY <2>2 DEF StoreProducers, Wanted, TypeOK, Nodes
    <2>4. Stored(Wanted) \subseteq Stored(Wanted)'
        BY <2>2, <2>3 DEF StoreProducers, Wanted, Stored, TypeOK, Nodes
    <2> QED
        BY <2>1, <2>3, <2>4 DEF StoreProducers, NothingUnwanted, Unlisted
  <1>6. RetiredInv'
      BY DEF StoreProducers, Unlisted, TypeOK, OnlyCronRefreshes, RetiredInv,
             Actors
  <1> QED
      BY <1>1, <1>2, <1>3, <1>4, <1>5, <1>6

\* oig.nodes is emptied: the refresh has all nodes still to bring
\* (db_connect.py:235-250).
LEMMA DeleteNodesKeeps ==
    ASSUME IInv, NEW a \in Actors, DeleteNodes(a)
    PROVE  IInv'
  <1> USE DEF IInv, tables, locals, world, ghosts, Goto
  <1>1. TypeOK'
      BY DEF DeleteNodes, TypeOK, Phases
  <1>2. LocalsInv'
      BY DEF DeleteNodes, LocalsInv
  <1>3. OnlyCronRefreshes'
      BY DEF DeleteNodes, OnlyCronRefreshes
  <1>4. NothingMissed'
      BY DEF DeleteNodes, LocalsInv, NothingMissed, StillBrings
  <1>5. NothingUnwanted'
    <2> SUFFICES ASSUME ~full, Sound' PROVE NothingUnwanted'
        BY DEF DeleteNodes, NothingUnwanted
    <2>1. a = "Cron" /\ pc'["Cron"] = "read" /\ rows'["Cron"] = Unlisted
        BY DEF DeleteNodes, TypeOK, LocalsInv, OnlyCronRefreshes, Actors
    <2>2. nodes' \subseteq Stored(Wanted)'
        BY DEF DeleteNodes, NothingUnwanted, Sound, Wanted, Stored
    <2> QED
        BY <2>1, <2>2 DEF NothingUnwanted, Unlisted
  <1>6. RetiredInv'
      BY DEF DeleteNodes, RetiredInv
  <1> QED
      BY <1>1, <1>2, <1>3, <1>4, <1>5, <1>6

\* The active guilds are read, whose nodes the refresh is to bring
\* (nodes.py:31-46).
LEMMA ReadProducersKeeps ==
    ASSUME IInv, NEW a \in Actors, ReadProducers(a)
    PROVE  IInv'
  <1> USE DEF IInv, tables, locals, world, ghosts, Goto
  <1>1. TypeOK'
      BY DEF ReadProducers, Active, TypeOK, Phases, Nodes
  <1>2. LocalsInv'
      BY DEF ReadProducers, LocalsInv
  <1>3. OnlyCronRefreshes'
      BY DEF ReadProducers, OnlyCronRefreshes
  <1>4. NothingMissed'
      BY DEF ReadProducers, Active, TypeOK, NothingMissed, Sound, Wanted,
             StillBrings, Nodes, Nets
  <1>5. NothingUnwanted'
      BY DEF ReadProducers, Active, TypeOK, LocalsInv, NothingUnwanted, Sound,
             Wanted
  <1>6. RetiredInv'
      BY DEF ReadProducers, RetiredInv
  <1> QED
      BY <1>1, <1>2, <1>3, <1>4, <1>5, <1>6

\* The nodes of one guild are fetched, or missed in an outage (nodes.py:6-81).
LEMMA FetchNodesKeeps ==
    ASSUME IInv, NEW a \in Actors, NEW g \in Guilds, FetchNodes(a, g)
    PROVE  IInv'
  <1> USE DEF IInv, tables, locals, world, ghosts, Goto
  <1>1. TypeOK'
    <2>1. listed \cap {<<g, net[a]>>} \subseteq Nodes
        BY DEF TypeOK
    <2> QED
        BY DEF FetchNodes, Spoil, TypeOK
  <1>2. LocalsInv'
      BY DEF FetchNodes, TypeOK, LocalsInv
  <1>3. OnlyCronRefreshes'
      BY DEF FetchNodes, OnlyCronRefreshes
  <1>4. NothingMissed'
    <2>1. CASE Outages /\ Spoil
        BY <2>1 DEF Spoil, NothingMissed, Sound
    <2>2. CASE acc' = [acc EXCEPT ![a] = @ \cup (listed \cap {<<g, net[a]>>})]
               /\ UNCHANGED ghosts
      <3>1. Sound' = Sound /\ Wanted' = Wanted
          BY <2>2 DEF FetchNodes, Sound, Wanted
      <3>2. ASSUME NEW b \in Actors, NEW node \in Wanted, StillBrings(b, node)
            PROVE  StillBrings(b, node)'
          BY <2>2, <3>2 DEF FetchNodes, TypeOK, Wanted, StillBrings
      <3> QED
          BY <3>1, <3>2 DEF FetchNodes, NothingMissed
    <2> QED
        BY <2>1, <2>2 DEF FetchNodes
  <1>5. NothingUnwanted'
      BY DEF FetchNodes, Spoil, TypeOK, NothingUnwanted, Sound, Wanted, Actors
  <1>6. RetiredInv'
      BY DEF FetchNodes, RetiredInv
  <1> QED
      BY <1>1, <1>2, <1>3, <1>4, <1>5, <1>6

\* The nodes of one network are together (nodes.py:80-81).
LEMMA FetchDoneKeeps ==
    ASSUME IInv, NEW a \in Actors, FetchDone(a)
    PROVE  IInv'
  <1> USE DEF IInv, tables, locals, world, ghosts, Goto
  <1>1. TypeOK'
      BY DEF FetchDone, TypeOK, Phases
  <1>2. LocalsInv'
      BY DEF FetchDone, LocalsInv
  <1>3. OnlyCronRefreshes'
      BY DEF FetchDone, OnlyCronRefreshes
  <1>4. NothingMissed'
      BY DEF FetchDone, NothingMissed, Sound, Wanted, StillBrings
  <1>5. NothingUnwanted'
      BY DEF FetchDone, NothingUnwanted, Sound, Wanted
  <1>6. RetiredInv'
      BY DEF FetchDone, RetiredInv
  <1> QED
      BY <1>1, <1>2, <1>3, <1>4, <1>5, <1>6

\* They are inserted: what the run brought is in the table
\* (db_connect.py:191-201).
LEMMA InsertNodesKeeps ==
    ASSUME IInv, NEW a \in Actors, InsertNodes(a)
    PROVE  IInv'
  <1> USE DEF IInv, tables, locals, world, ghosts, Goto
  <1>1. TypeOK'
    <2>1. acc[a] \subseteq Nodes /\ outdated \in BOOLEAN
        BY DEF TypeOK
    <2>2. CASE net[a] = "mainnet"
        BY DEF InsertNodes, TypeOK, Phases, Nets
    <2>3. CASE net[a] = "testnet"
        BY DEF InsertNodes, TypeOK, Phases, Nets
    <2> QED
        BY <2>2, <2>3 DEF InsertNodes
  <1>2. LocalsInv'
      BY DEF InsertNodes, TypeOK, LocalsInv
  <1>3. OnlyCronRefreshes'
      BY DEF InsertNodes, TypeOK, OnlyCronRefreshes, Actors
  <1>4. NothingMissed'
    <2> SUFFICES ASSUME Sound', NEW node \in Wanted'
                 PROVE  Has(nodes, node)'
                            \/ \E b \in Actors : StillBrings(b, node)'
        BY DEF NothingMissed
    <2>1. Sound /\ node \in Wanted
      <3>1. outdated \in BOOLEAN
          BY DEF TypeOK
      <3>2. Sound
          BY <3>1 DEF InsertNodes, Sound
      <3>3. node \in Wanted
          BY DEF InsertNodes, Wanted
      <3> QED
          BY <3>2, <3>3
    <2>2. CASE Has(nodes, node) \/ node \in acc[a]
        BY <2>2 DEF InsertNodes, Has
    <2>3. ASSUME NEW b \in Actors, StillBrings(b, node), node \notin acc[a]
          PROVE  StillBrings(b, node)'
        BY <2>1, <2>3
        DEF InsertNodes, TypeOK, LocalsInv, StillBrings, Wanted, Nodes, Nets
    <2> QED
        BY <2>1, <2>2, <2>3 DEF NothingMissed
  <1>5. NothingUnwanted'
    <2> SUFFICES ASSUME ~full, Sound PROVE NothingUnwanted'
        BY DEF InsertNodes, NothingUnwanted, Sound
    <2>1. /\ a = "Cron" /\ pc["Cron"] = "insert"
          /\ pc["Worker"] \notin {"delete", "read", "fetch", "insert"}
        BY DEF InsertNodes, OnlyCronRefreshes, Actors
    <2>2. /\ nodes \subseteq Stored(Wanted) /\ acc["Cron"] \subseteq Wanted
          /\ acc["Cron"] \subseteq Guilds \X {net["Cron"]}
        BY <2>1 DEF NothingUnwanted, LocalsInv
    <2>3. ASSUME NEW node \in acc["Cron"], ~Has(nodes, node)
          PROVE  node \in Stored(Wanted)
      <3>1. node \in Wanted /\ node[2] = net["Cron"]
          BY <2>2
      <3>2. CASE node[2] = "mainnet"
          BY <3>1, <3>2 DEF Stored
      <3>3. CASE node[2] # "mainnet"
        <4>1. ASSUME node[1] \in Shared, <<node[1], "mainnet">> \in Wanted
              PROVE  FALSE
          <5> DEFINE main == <<node[1], "mainnet">>
          <5>1. main[1] = node[1] /\ main[2] = "mainnet"
              OBVIOUS
          <5>2. main \notin acc["Cron"] /\ net["Cron"] # "mainnet"
              BY <2>2, <3>1, <3>3, <5>1
          <5>3. \A b \in Actors : ~StillBrings(b, main)
              BY <2>1, <5>1, <5>2 DEF StillBrings, Actors
          <5>4. Has(nodes, main)
              BY <4>1, <5>3 DEF NothingMissed
          <5>5. Has(nodes, node)
              BY <4>1, <5>1, <5>4 DEF Has, Nets
          <5> QED
              BY <2>3, <5>5
        <4> QED
            BY <3>1, <4>1 DEF Stored
      <3> QED
          BY <3>2, <3>3
    <2>4. nodes' \subseteq Stored(Wanted)
        BY <2>1, <2>2, <2>3 DEF InsertNodes
    <2>5. Stored(Wanted)' = Stored(Wanted) /\ producer' = producer
        BY DEF InsertNodes, Wanted, Stored
    <2>6. pc'["Cron"] \notin {"fetch", "insert"} /\ rows' = rows
        BY <2>1 DEF InsertNodes, TypeOK
    <2> QED
        BY <2>4, <2>5, <2>6 DEF NothingUnwanted
  <1>6. RetiredInv'
      BY DEF InsertNodes, RetiredInv
  <1> QED
      BY <1>1, <1>2, <1>3, <1>4, <1>5, <1>6

\* The guilds to be checked are read (start.py:97-118).
LEMMA OpenChecksKeeps ==
    ASSUME IInv, NEW a \in Actors, OpenChecks(a)
    PROVE  IInv'
  <1> USE DEF IInv, tables, locals, world, ghosts, Goto
  <1>1. TypeOK'
      BY DEF OpenChecks, Active, TypeOK, Phases, Nodes
  <1>2. LocalsInv'
      BY DEF OpenChecks, TypeOK, LocalsInv
  <1>3. OnlyCronRefreshes'
      BY DEF OpenChecks, OnlyCronRefreshes
  <1>4. NothingMissed'
      BY DEF OpenChecks, NothingMissed, Sound, Wanted, StillBrings
  <1>5. NothingUnwanted'
      BY DEF OpenChecks, NothingUnwanted, Sound, Wanted
  <1>6. RetiredInv'
      BY DEF OpenChecks, Active, RetiredInv
  <1> QED
      BY <1>1, <1>2, <1>3, <1>4, <1>5, <1>6

\* One guild is checked (start.py:118-291).
LEMMA CheckGuildKeeps ==
    ASSUME IInv, NEW a \in Actors, NEW g \in Guilds, NEW n \in Nets, CheckGuild(a, g, n)
    PROVE  IInv'
  <1> USE DEF IInv, tables, locals, world, ghosts, Goto
  <1>1. TypeOK'
      BY DEF CheckGuild, TypeOK
  <1>2. LocalsInv'
      BY DEF CheckGuild, LocalsInv
  <1>3. OnlyCronRefreshes'
      BY DEF CheckGuild, OnlyCronRefreshes
  <1>4. NothingMissed'
      BY DEF CheckGuild, NothingMissed, Sound, Wanted, StillBrings
  <1>5. NothingUnwanted'
      BY DEF CheckGuild, NothingUnwanted, Sound, Wanted
  <1>6. RetiredInv'
      BY DEF CheckGuild, RetiredInv
  <1> QED
      BY <1>1, <1>2, <1>3, <1>4, <1>5, <1>6

\* All guilds are checked (start.py:291).
LEMMA ChecksDoneKeeps ==
    ASSUME IInv, NEW a \in Actors, ChecksDone(a)
    PROVE  IInv'
  <1> USE DEF IInv, tables, locals, world, ghosts, Goto
  <1>1. TypeOK'
      BY DEF ChecksDone, TypeOK, Phases
  <1>2. LocalsInv'
      BY DEF ChecksDone, LocalsInv
  <1>3. OnlyCronRefreshes'
      BY DEF ChecksDone, OnlyCronRefreshes
  <1>4. NothingMissed'
      BY DEF ChecksDone, NothingMissed, Sound, Wanted, StillBrings
  <1>5. NothingUnwanted'
      BY DEF ChecksDone, NothingUnwanted, Sound, Wanted
  <1>6. RetiredInv'
      BY DEF ChecksDone, RetiredInv
  <1> QED
      BY <1>1, <1>2, <1>3, <1>4, <1>5, <1>6

\* The results are inserted and the run ends (start.py:337-343).
LEMMA SaveResultsKeeps ==
    ASSUME IInv, NEW a \in Actors, SaveResults(a)
    PROVE  IInv'
  <1> USE DEF IInv, tables, locals, world, ghosts, Goto
  <1>1. TypeOK'
      BY DEF SaveResults, TypeOK, Phases
  <1>2. LocalsInv'
      BY DEF SaveResults, TypeOK, LocalsInv
  <1>3. OnlyCronRefreshes'
      BY DEF SaveResults, OnlyCronRefreshes
  <1>4. NothingMissed'
      BY DEF SaveResults, NothingMissed, Sound, Wanted, StillBrings
  <1>5. NothingUnwanted'
      BY DEF SaveResults, NothingUnwanted, Sound, Wanted
  <1>6. RetiredInv'
      BY DEF SaveResults, RetiredInv
  <1> QED
      BY <1>1, <1>2, <1>3, <1>4, <1>5, <1>6

\* An exception ends the run; where it ends a refresh, that counts as something
\* that went wrong (start.py:296-343).
LEMMA AbortKeeps ==
    ASSUME IInv, NEW a \in Actors, Abort(a)
    PROVE  IInv'
  <1> USE DEF IInv, tables, locals, world, ghosts, Goto
  <1>1. TypeOK'
      BY DEF Abort, Spoil, Unlisted, TypeOK, Phases, Nets
  <1>2. LocalsInv'
      BY DEF Abort, TypeOK, LocalsInv
  <1>3. OnlyCronRefreshes'
      BY DEF Abort, OnlyCronRefreshes
  <1>4. NothingMissed'
    <2>1. CASE pc[a] \in Rebuilding
        BY <2>1 DEF Abort, Spoil, NothingMissed, Sound
    <2>2. CASE pc[a] \notin Rebuilding
      <3>1. Sound' = Sound /\ Wanted' = Wanted
          BY <2>2 DEF Abort, Sound, Wanted
      <3>2. ASSUME NEW b \in Actors, NEW node, StillBrings(b, node)
            PROVE  StillBrings(b, node)'
          BY <2>2, <3>2 DEF Abort, StillBrings, Rebuilding
      <3> QED
          BY <3>1, <3>2 DEF Abort, NothingMissed
    <2> QED
        BY <2>1, <2>2
  <1>5. NothingUnwanted'
      BY DEF Abort, Spoil, Unlisted, NothingUnwanted, Sound, Wanted
  <1>6. RetiredInv'
      BY DEF Abort, RetiredInv
  <1> QED
      BY <1>1, <1>2, <1>3, <1>4, <1>5, <1>6

\* Somebody sets oig.producer.active, which counts as a change that a refresh
\* has yet to see.
LEMMA SetActiveKeeps ==
    ASSUME IInv, NEW g \in Guilds, NEW s \in {"active", "inactive"}, SetActive(g, s)
    PROVE  IInv'
  <1> USE DEF IInv, tables, locals, world, ghosts, Goto
  <1>1. TypeOK'
      BY ConstantsAssumption DEF SetActive, Spoil, TypeOK
  <1>2. LocalsInv'
      BY DEF SetActive, LocalsInv
  <1>3. OnlyCronRefreshes'
      BY DEF SetActive, OnlyCronRefreshes
  <1>4. NothingMissed'
      BY DEF SetActive, Spoil, NothingMissed, Sound
  <1>5. NothingUnwanted'
      BY DEF SetActive, Spoil, NothingUnwanted, Sound
  <1>6. RetiredInv'
      BY DEF SetActive, RetiredInv
  <1> QED
      BY <1>1, <1>2, <1>3, <1>4, <1>5, <1>6

\* A guild edits its JSON, which counts as such a change, too.
LEMMA EditJsonKeeps ==
    ASSUME IInv, NEW node \in Nodes, EditJson(node)
    PROVE  IInv'
  <1> USE DEF IInv, tables, locals, world, ghosts, Goto
  <1>1. TypeOK'
      BY ConstantsAssumption DEF EditJson, Spoil, TypeOK
  <1>2. LocalsInv'
      BY DEF EditJson, LocalsInv
  <1>3. OnlyCronRefreshes'
      BY DEF EditJson, OnlyCronRefreshes
  <1>4. NothingMissed'
      BY DEF EditJson, Spoil, NothingMissed, Sound
  <1>5. NothingUnwanted'
      BY DEF EditJson, Spoil, NothingUnwanted, Sound
  <1>6. RetiredInv'
      BY DEF EditJson, RetiredInv
  <1> QED
      BY <1>1, <1>2, <1>3, <1>4, <1>5, <1>6

-----------------------------------------------------------------------------
\* The invariant

\* The inductive invariant holds before the first run, whether or not the tables
\* hold an earlier refresh.
LEMMA InitIInv == Init => IInv
  <1> SUFFICES ASSUME Init PROVE IInv
      OBVIOUS
  <1>1. TypeOK
    <2>1. nodes \subseteq Nodes
        BY ConstantsAssumption DEF Init, Stored
    <2> QED
        BY <2>1, ConstantsAssumption DEF Init, TypeOK, Phases, Nets, Unlisted
  <1>2. LocalsInv /\ OnlyCronRefreshes /\ RetiredInv
      BY DEF Init, LocalsInv, OnlyCronRefreshes, RetiredInv, Actors
  <1>3. NothingMissed /\ NothingUnwanted
      BY ConstantsAssumption
      DEF Init, NothingMissed, NothingUnwanted, Wanted, Stored, Has, Sound,
          Nodes, Nets, Unlisted, Actors
  <1> QED
      BY <1>1, <1>2, <1>3 DEF IInv

\* A step that changes nothing keeps it.
LEMMA StutterKeeps == IInv /\ UNCHANGED vars => IInv'
  BY DEF IInv, vars, tables, locals, world, ghosts, TypeOK, LocalsInv,
         OnlyCronRefreshes, NothingMissed, NothingUnwanted, RetiredInv, Sound,
         Wanted, StillBrings

\* Every step keeps the inductive invariant.
LEMMA NextIInv == IInv /\ [Next]_vars => IInv'
  <1> SUFFICES ASSUME IInv, [Next]_vars PROVE IInv'
      OBVIOUS
  <1>1. ASSUME NEW a \in Actors, StartFull(a) PROVE IInv'
      BY <1>1, StartFullKeeps
  <1>2. ASSUME NEW a \in Actors, RunStep(a) PROVE IInv'
    <2>1. ASSUME NEW g \in Guilds, ListGuild(a, g) \/ FetchNodes(a, g)
          PROVE  IInv'
        BY <2>1, ListGuildKeeps, FetchNodesKeeps
    <2>2. ASSUME NEW g \in Guilds, NEW n \in Nets, CheckGuild(a, g, n)
          PROVE  IInv'
        BY <2>2, CheckGuildKeeps
    <2>3. CASE ListDone(a) \/ StoreProducers(a) \/ DeleteNodes(a)
        BY <2>3, ListDoneKeeps, StoreProducersKeeps, DeleteNodesKeeps
    <2>4. CASE ReadProducers(a) \/ FetchDone(a) \/ InsertNodes(a)
        BY <2>4, ReadProducersKeeps, FetchDoneKeeps, InsertNodesKeeps
    <2>5. CASE OpenChecks(a) \/ ChecksDone(a) \/ SaveResults(a)
        BY <2>5, OpenChecksKeeps, ChecksDoneKeeps, SaveResultsKeeps
    <2>6. CASE Abort(a)
        BY <2>6, AbortKeeps
    <2> QED
        BY <1>2, <2>1, <2>2, <2>3, <2>4, <2>5, <2>6 DEF RunStep
  <1>3. ASSUME NEW g \in Guilds, StartRescan(g) PROVE IInv'
      BY <1>3, StartRescanKeeps
  <1>4. CASE Outside
      BY <1>4, SetActiveKeeps, EditJsonKeeps DEF Outside
  <1>5. CASE UNCHANGED vars
      BY <1>5, StutterKeeps
  <1> QED
      BY <1>1, <1>2, <1>3, <1>4, <1>5 DEF Next

\* The inductive invariant holds whatever the two processes do.
LEMMA Invariance == Spec => []IInv
  BY InitIInv, NextIInv, PTL DEF Spec

-----------------------------------------------------------------------------
\* Theorems

\* Tables, local variables and bounds have their types (db_connect.py,
\* start.py).
THEOREM RunTypeCorrect == Spec => []TypeOK
  <1>1. IInv => TypeOK
      BY DEF IInv
  <1> QED
      BY <1>1, Invariance, PTL

\* However two full runs overlap, when the last refresh is over oig.nodes has
\* every node of every active guild, or the one it collides with
\* (start.py:312-328, db_connect.py:195).
THEOREM RefreshComplete == Spec => []NodesComplete
  <1>1. IInv => NodesComplete
    <2> SUFFICES ASSUME IInv, Refreshing = {}, ~outdated
                 PROVE  \A node \in Wanted : Has(nodes, node)
        BY DEF NodesComplete
    <2>1. \A a \in Actors, node \in Wanted : ~StillBrings(a, node)
        BY DEF Refreshing, Rebuilding, StillBrings
    <2> QED
        BY <2>1 DEF IInv, NothingMissed, Sound
  <1> QED
      BY <1>1, Invariance, PTL

\* Where only cron makes full runs, the table then has nothing else, and of two
\* nodes that collide it has that of mainnet (db_connect.py:195, 235,
\* start.py:312-328).
THEOREM RefreshExact == Spec => []NodesExact
  <1>1. IInv /\ NodesComplete => NodesExact
    <2> SUFFICES ASSUME IInv, NodesComplete, ~full, Refreshing = {}, ~outdated
                 PROVE  nodes = Stored(Wanted)
        BY DEF NodesExact
    <2>1. nodes \subseteq Stored(Wanted)
        BY DEF IInv, NothingUnwanted, Sound
    <2>2. ASSUME NEW node \in Stored(Wanted), node \notin nodes
          PROVE  FALSE
      <3>1. node \in Wanted /\ Has(nodes, node)
          BY <2>2 DEF Stored, NodesComplete
      <3>2. PICK n \in Nets : node[1] \in Shared /\ <<node[1], n>> \in nodes
          BY <2>2, <3>1 DEF Has
      <3>3. <<node[1], n>> \in Stored(Wanted)
          BY <2>1, <3>2
      <3>4. node = <<node[1], node[2]>> /\ node[2] \in Nets
          BY <3>1 DEF IInv, TypeOK, Wanted, Nodes
      <3>5. n # node[2]
          BY <2>2, <3>2, <3>4
      <3> QED
          BY <2>2, <3>1, <3>2, <3>3, <3>4, <3>5 DEF Stored, Nets
    <2> QED
        BY <2>1, <2>2
  <1> QED
      BY <1>1, Invariance, RefreshComplete, PTL

\* Where only cron makes full runs, no run checks a guild that was retired
\* before it began and has been since, but for one whose status the run could
\* not read and therefore took for new (producers.py:133-139, start.py:103).
THEOREM RetiredUnchecked == Spec => []RetiredNotChecked
  <1>1. IInv => RetiredNotChecked
      BY DEF IInv, RetiredInv, RetiredNotChecked
  <1> QED
      BY <1>1, Invariance, PTL
=============================================================================
