---------------------------- MODULE PortalPages ----------------------------
(***************************************************************************)
(* The pages of the portal and the data they show: App.tsx, router.tsx,    *)
(* HomePage.tsx, GuildDetails.tsx and EmptyBlocks.tsx over the queries of  *)
(* api.ts (RTK Query), and what pgquery.js selects for them.               *)
(*                                                                         *)
(* A component that is left loses its state; the store keeps an answer for *)
(* a minute after its last reader.  A hook goes on returning its previous  *)
(* answer while one for new arguments is under way.  The error element     *)
(* takes the place of the whole page, the header with it.  The list of     *)
(* results is module ResultsList, login and notification PortalSession.    *)
(***************************************************************************)
EXTENDS Integers, Sequences, FiniteSets, SequencesExt

CONSTANTS
    Guilds,     \* names that may stand in the address of a guild page
    Top21,      \* the guilds that oig.producer has in the top 21 ...
    Standby,    \* ... and the others it has
    Table,      \* oig.results: for each guild the times of its checks
    DayLength,  \* times of one day
    PerDay,     \* 3 in the code: checks of one day that are sent
    Limit,      \* 100 in the code: checks that are sent
    Recent,     \* the last thirty days, <<from, to>>
    Picks,      \* ranges of days that are picked, from midnight to midnight
    MaxOpened,  \* bound on the guild pages in the history
    MaxAsked,   \* bound on the requests for missing blocks under way
    None        \* nothing yet

Ranges == {Recent} \cup Picks
Request == [guild : Guilds, range : Ranges, top21 : BOOLEAN]

ASSUME PagesAssumption ==
    /\ Top21 \cup Standby \subseteq Guilds /\ Top21 \cap Standby = {}
    /\ \A g \in Guilds : Table[g] \subseteq Nat /\ IsFiniteSet(Table[g])
    /\ DayLength \in Nat \ {0} /\ PerDay \in Nat \ {0} /\ Limit \in Nat \ {0}
    /\ Ranges \subseteq Nat \X Nat /\ Recent \notin Picks
    /\ MaxOpened \in Nat /\ MaxAsked \in Nat \ {0}
    /\ None \notin Guilds /\ None \notin Request
    /\ {"home", "empty"} \cap Guilds = {}

VARIABLES
    page,     \* "home", "guild" or "empty"
    guild,    \* the guild in the address, or None
    broken,   \* a render has thrown, and the error element is shown
    query,    \* producers and latest: "none", "pending", "failed", or what
              \* came: "ok", and "empty" for latest results without a row
    opened,   \* addresses in the history of this document
    kept,     \* guilds whose results the store has
    view,     \* the state of GuildDetails and its hooks
    empty     \* the state of EmptyBlocks and its hook

vars == <<page, guild, broken, query, opened, kept, view, empty>>

View ==
    [range : Ranges,                         \* dateRange
     rowsOf : Guilds \cup {None},            \* whose results the hook returns
     rowsBusy : BOOLEAN,                     \* those of this guild are asked for
     charts : Seq(Nat),                      \* times of the points of a chart
     average : (Guilds \X Ranges) \cup {None},
     averageState : {"busy", "ok", "failed"},
     seen : SUBSET Ranges,                   \* whose averages have come
     asked : SUBSET Request,                 \* missing blocks under way,
     current : Request \cup {None},          \* the last request for them,
     missing : Request \cup {None},          \* the one whose answer is shown,
     passed : BOOLEAN,     \* and whether the last request failed, was overtaken
                           \* or belongs to the guild before a jump
     jumped : BOOLEAN]     \* came here from another guild page

Empty ==
    [range : Ranges, of : Ranges \cup {None},
     state : {"busy", "ok", "failed"}, seen : SUBSET Ranges]

TypeOK ==
    /\ page \in {"home", "guild", "empty"}
    /\ guild \in Guilds \cup {None} /\ (guild # None <=> page = "guild")
    /\ query \in [{"producers", "latest"} ->
                    {"none", "pending", "ok", "empty", "failed"}]
    /\ query["producers"] # "empty"
    /\ kept \subseteq opened \cap Guilds
    /\ opened \subseteq Guilds \cup {"home", "empty"}
    /\ broken \in BOOLEAN
    /\ view \in View
    /\ empty \in Empty

FreshView ==
    [range |-> Recent, rowsOf |-> None, rowsBusy |-> FALSE,
     charts |-> <<>>, average |-> None, averageState |-> "ok", seen |-> {},
     asked |-> {}, current |-> None, missing |-> None, passed |-> FALSE,
     jumped |-> FALSE]

FreshEmpty == [range |-> Recent, of |-> None, state |-> "ok", seen |-> {}]

-----------------------------------------------------------------------------
\* What the server selects, and what the charts make of it

Day(t) == t \div DayLength

Within(t, r) == r[1] <= t /\ t <= r[2]

\* The first n of the times in S, from the newest on, ...
Newest(S, n) == {t \in S : Cardinality({u \in S : u >= t}) <= n}

\* ... and all of them in that order: the newest k of them are those from the
\* one in place k on.
NewestFirst(S) ==
    [k \in 1..Cardinality(S) |->
       CHOOSE t \in S : Cardinality({u \in S : u >= t}) = k]

OfTheDay(g, t) == {u \in Table[g] : Day(u) = Day(t)}

\* truncatedPaginatedResults: the newest checks of each day, of which the
\* newest are sent, newest first.
Truncated ==
    [g \in Guilds |->
       Newest({t \in Table[g] : t \in Newest(OfTheDay(g, t), PerDay)}, Limit)]

\* total_count of monthlyaverageresults.
TotalCount(g, r) == Cardinality({t \in Table[g] : Within(t, r)})

\* The filter keeps the order.
Selected(g, r) == NewestFirst({t \in Truncated[g] : Within(t, r)})

\* The points of buildChartData and of buildScoreData.
BuildChartData(g, r) == Reverse(Selected(g, r))

-----------------------------------------------------------------------------
\* Rendering GuildDetails

Known(g, q) == q["producers"] = "ok" /\ g \in Top21 \cup Standby

\* An empty list is an answer, too.
Came(q) == q["latest"] \in {"ok", "empty"}

\* Mutant: the list of results is filtered by the dates as well.
ThrowsOnDates(g, v, q) ==
    Known(g, q) /\ v.rowsOf # None /\ BuildChartData(v.rowsOf, v.range) = <<>>

\* results[0] is undefined where there are no results, and GuildInfo and
\* GuildsCheckResults throw.
Throws(g, v, q) == Known(g, q) /\ v.rowsOf # None /\ Truncated[v.rowsOf] = {}

\* The list of the home page reads results[0] as well.
HomeThrows(q) == q["producers"] = "ok" /\ q["latest"] = "empty"

\* Mutant: the effect does not depend on dateRange.
ChartedOnce(v, q) ==
    IF Came(q) /\ v.rowsOf # None /\ v.charts = <<>>
    THEN [v EXCEPT !.charts = BuildChartData(v.rowsOf, v.range)]
    ELSE v

\* The effect on latestResults, results and dateRange.
Charted(v, q) ==
    IF Came(q) /\ v.rowsOf # None
    THEN [v EXCEPT !.charts = BuildChartData(v.rowsOf, v.range)]
    ELSE v

\* GuildDetails is rendered for guild g with state v.
Render(g, v) ==
    /\ broken' = Throws(g, v, query')
    /\ view' = IF broken' THEN [FreshView EXCEPT !.jumped = v.jumped]
               ELSE Charted(v, query')

\* Mutant: the request is not made again for another range.
AskedOnce(g, v, q) ==
    IF v.current # None THEN v
    ELSE LET r == [guild |-> g, range |-> v.range,
                   top21 |-> q["producers"] = "ok" /\ g \in Top21]
         IN [v EXCEPT !.asked = @ \cup {r}, !.current = r, !.passed = FALSE]

\* The effect that asks for the missing blocks runs on mounting and when
\* dateRange changes, but not when the producers come: its dependency
\* `producer' is always null.
AskedMissing(g, v, q) ==
    LET r == [guild |-> g, range |-> v.range,
              top21 |-> q["producers"] = "ok" /\ g \in Top21]
    IN [v EXCEPT !.asked = @ \cup {r}, !.current = r, !.passed = FALSE]

\* The hook asks for averages it has not, and refetchAvgResults for the others.
AskedAverage(g, v) ==
    [v EXCEPT !.average = IF v.range \in v.seen THEN <<g, v.range>> ELSE @,
              !.averageState = "busy"]

-----------------------------------------------------------------------------
\* Navigation

Readers(p) == IF p = "empty" THEN {} ELSE {"producers", "latest"}

\* A query is made on mounting unless it has an answer or is under way.
Subscribe(S, q) == [x \in DOMAIN q |->
                      IF x \in S /\ q[x] \in {"none", "failed"}
                      THEN "pending" ELSE q[x]]

\* EmptyBlocks is mounted or dateRange has changed.
AskedEmpty(e) ==
    IF e.range \in e.seen THEN [e EXCEPT !.of = e.range, !.state = "ok"]
                          ELSE [e EXCEPT !.state = "busy"]

Mounted(g, q) ==
    LET v == [FreshView EXCEPT !.rowsOf = IF g \in kept' THEN g ELSE None,
                               !.rowsBusy = g \notin kept']
    IN AskedMissing(g, AskedAverage(g, v), q)

\* Page p is mounted.
Mount(p, g) ==
    /\ page' = p /\ guild' = g
    /\ empty' = IF p = "empty" THEN AskedEmpty(FreshEmpty) ELSE FreshEmpty
    /\ IF p = "guild" THEN Render(g, Mounted(g, query'))
       ELSE /\ broken' = (p = "home" /\ HomeThrows(query'))
            /\ view' = FreshView

Address(p, g) == IF p = "guild" THEN g ELSE p

\* Mutant: the results outlive the document.
LoadKept(p, g) ==
    /\ query' = Subscribe(Readers(p) \cup {"producers"},
                          [x \in DOMAIN query |-> "none"])
    /\ opened' = {Address(p, g)} /\ UNCHANGED kept
    /\ Mount(p, g)

\* A new document: a typed address, a reload or a link of the breadcrumb.  App
\* asks for the producers whatever the page.
Load(p, g) ==
    /\ query' = Subscribe(Readers(p) \cup {"producers"},
                          [x \in DOMAIN query |-> "none"])
    /\ kept' = {} /\ opened' = {Address(p, g)}
    /\ Mount(p, g)

\* The links of the header.
Go(p) ==
    /\ ~broken /\ page # p
    /\ query' = Subscribe(Readers(p), query)
    /\ opened' = opened \cup {p} /\ UNCHANGED kept
    /\ Mount(p, None)

\* An entry of the history whose component is mounted anew.
Return(p, g) ==
    /\ Address(p, g) \in opened \ {Address(page, guild)}
    /\ page = p => broken
    /\ query' = Subscribe(Readers(p), query)
    /\ UNCHANGED <<opened, kept>>
    /\ Mount(p, g)

\* HomePage shows the list; its cards lead to the guilds with results.
HomeList == page = "home" /\ \A x \in DOMAIN query : query[x] = "ok"

OpenGuild(g) ==
    /\ HomeList
    /\ g \in Top21 \cup Standby /\ Table[g] # {}
    /\ opened' = opened \cup {g} /\ Cardinality(opened' \cap Guilds) <= MaxOpened
    /\ UNCHANGED <<query, kept>>
    /\ Mount("guild", g)

\* An entry of the history that is another guild page: the component is not
\* mounted anew, and keeps what belongs to the guild before.
Jump(g) ==
    /\ page = "guild" /\ ~broken /\ g \in opened \ {guild}
    /\ UNCHANGED <<page, query, opened, kept, empty>>
    /\ guild' = g
    /\ Render(g, [view EXCEPT
                    !.rowsOf = IF g \in kept THEN g ELSE @,
                    !.rowsBusy = g \notin kept,
                    !.averageState = "busy", !.seen = {},
                    !.passed = TRUE, !.jumped = TRUE])

\* The store drops what nobody has read for a minute.
Expire ==
    /\ \/ /\ page = "empty" \/ broken
          /\ query["latest"] # "none"
          /\ query' = [query EXCEPT !["latest"] = "none"] /\ UNCHANGED kept
       \/ /\ \E g \in kept : (g = guild => broken) /\ kept' = kept \ {g}
          /\ UNCHANGED query
    /\ UNCHANGED <<page, guild, broken, opened, view, empty>>

-----------------------------------------------------------------------------
\* Dates

\* The picker is part of the list of results.
PickerShown == /\ page = "guild" /\ ~broken
               /\ Known(guild, query) /\ view.rowsOf # None

\* The second click: setDateRange, and the three effects on dateRange.  After
\* the first, only the picker knows of a start.
PickEnd(r) ==
    /\ PickerShown /\ Cardinality(view.asked) < MaxAsked
    /\ UNCHANGED <<page, guild, query, opened, kept, empty>>
    /\ LET v == [view EXCEPT !.range = r]
       IN Render(guild, AskedMissing(guild, AskedAverage(guild, v), query))

EmptyLoading == empty.of = None /\ empty.state = "busy"

PickEmpty ==
    /\ page = "empty" /\ ~EmptyLoading
    /\ \E r \in Picks : empty' = AskedEmpty([empty EXCEPT !.range = r])
    /\ UNCHANGED <<page, guild, broken, query, opened, kept, view>>

-----------------------------------------------------------------------------
\* Answers

OnGuildPage == page = "guild" /\ ~broken

\* latestresults has a row of each active guild with results, if any.
Answers(x) ==
    {"failed"} \cup
    (IF x = "producers" THEN {"ok"}
     ELSE {"empty"} \cup
          {s \in {"ok"} : \E g \in Top21 \cup Standby : Table[g] # {}})

QueryAnswered(x) ==
    /\ query[x] = "pending"
    /\ \E s \in Answers(x) : query' = [query EXCEPT ![x] = s]
    /\ IF OnGuildPage THEN Render(guild, view)
       ELSE /\ broken' = (broken \/ (page = "home" /\ HomeThrows(query')))
            /\ UNCHANGED view
    /\ UNCHANGED <<page, guild, opened, kept, empty>>

RowsAnswered ==
    /\ OnGuildPage /\ view.rowsBusy
    /\ UNCHANGED <<page, guild, query, opened, empty>>
    /\ \/ /\ kept' = kept \cup {guild}
          /\ Render(guild, [view EXCEPT !.rowsOf = guild, !.rowsBusy = FALSE])
       \/ Render(guild, [view EXCEPT !.rowsBusy = FALSE]) /\ UNCHANGED kept

AverageAnswered ==
    /\ OnGuildPage /\ view.averageState = "busy"
    /\ UNCHANGED <<page, guild, broken, query, opened, kept, empty>>
    /\ \/ view' = [view EXCEPT !.average = <<guild, view.range>>,
                               !.averageState = "ok", !.seen = @ \cup {view.range}]
       \/ view' = [view EXCEPT !.averageState = "failed"]

\* setMissingBlocks takes whichever answer comes.
MissingAnswered(r) ==
    /\ OnGuildPage /\ r \in view.asked
    /\ UNCHANGED <<page, guild, broken, query, opened, kept, empty>>
    /\ LET last == view.current \notin view.asked \ {r}
       IN \/ view' = [view EXCEPT !.asked = @ \ {r}, !.missing = r,
                                  !.passed = @ \/ (r # view.current /\ last)]
          \/ view' = [view EXCEPT !.asked = @ \ {r},
                                  !.passed = @ \/ r = view.current]

EmptyAnswered ==
    /\ page = "empty" /\ empty.state = "busy"
    /\ UNCHANGED <<page, guild, broken, query, opened, kept, view>>
    /\ \/ empty' = [empty EXCEPT !.of = empty.range, !.state = "ok",
                                 !.seen = @ \cup {empty.range}]
       \/ empty' = [empty EXCEPT !.state = "failed"]

-----------------------------------------------------------------------------
Next == \/ \E p \in {"home", "empty"} : Load(p, None) \/ Go(p) \/ Return(p, None)
        \/ \E g \in Guilds : \/ Load("guild", g) \/ Return("guild", g)
                            \/ OpenGuild(g) \/ Jump(g)
        \/ Expire \/ PickEmpty
        \/ \E r \in Picks : PickEnd(r)
        \/ \E x \in DOMAIN query : QueryAnswered(x)
        \/ RowsAnswered \/ AverageAnswered \/ EmptyAnswered
        \/ \E r \in view.asked : MissingAnswered(r)

Init ==
    /\ page = "home" /\ guild = None /\ broken = FALSE
    /\ query = Subscribe(Readers("home"), [x \in {"producers", "latest"} |-> "none"])
    /\ opened = {"home"} /\ kept = {}
    /\ view = FreshView /\ empty = FreshEmpty

Spec == Init /\ [][Next]_vars

-----------------------------------------------------------------------------
\* Properties

\* Once the results of this guild have come, the charts show its checks within
\* the selected dates that the server sent, oldest first, whatever came in which
\* order.  Before that they are empty, or, after a jump, those of another guild
\* of the history: of what is wrong there no more can be said
\* (GuildDetails.tsx:44, 61-71, helpers.ts:27-40).
ChartsFollow ==
    OnGuildPage =>
        /\ guild \in kept /\ Came(query) =>
             /\ ToSet(view.charts) = {t \in Truncated[guild] : Within(t, view.range)}
             /\ \A i, j \in DOMAIN view.charts :
                  i < j => view.charts[i] < view.charts[j]
        /\ guild \notin kept /\ view.charts # <<>> =>
             /\ view.jumped
             /\ \E g \in opened \cap Guilds :
                  ToSet(view.charts) = {t \in Truncated[g] : Within(t, view.range)}

\* The averages are those of the dates whose charts stand beside them unless
\* they are being asked for or could not be had, and they count every point of
\* the charts: the two queries and the filter of the charts agree on what is
\* within the dates (pgquery.js:181-188, 213-236, helpers.ts:28-31).
AveragesFit ==
    OnGuildPage /\ view.averageState = "ok" /\ view.average # None =>
        /\ view.average = <<guild, view.range>>
        /\ view.rowsOf = guild =>
             Len(view.charts) <= TotalCount(guild, view.average[2])

\* The missing blocks that are shown are those of this guild and these dates
\* once nothing is under way, unless the request for them failed, its answer was
\* overtaken, or no dates have been picked since the page was reached from that
\* of another guild (GuildDetails.tsx:73-85).
MissingFits ==
    OnGuildPage /\ view.asked = {} /\ ~view.passed =>
        /\ view.missing # None
        /\ view.missing.guild = guild /\ view.missing.range = view.range

\* Only for the dates that the page begins with can the missing blocks come
\* from the wrong chain, because the producers were not there when they were
\* asked for; no guild outside the top 21 is looked for on the mainnet
\* (GuildDetails.tsx:79).
SourceFits ==
    \A r \in view.asked \cup ({view.missing} \ {None}) :
        /\ r.top21 => r.guild \in Top21
        /\ r.range # Recent => (r.top21 <=> r.guild \in Top21)

\* Averages and missing blocks, which come with queries of their own, fit the
\* guild and the dates of the page and the chain of the guild, with the
\* exceptions that the three name.
AnswersFit == AveragesFit /\ MissingFits /\ SourceFits

\* Pages break only for want of results, and no range of dates breaks one.  A
\* guild page breaks for a guild without a result, its own or, after a jump,
\* another one of the history; the home page where no active guild has results;
\* the page of empty blocks never (GuildDetails.tsx:117, 131,
\* GuildsCheckResults.tsx:120).
OnlyNoResultsBreak ==
    broken =>
        \/ /\ page = "guild" /\ guild \in Top21 \cup Standby
           /\ \E g \in opened \cap Guilds :
                Table[g] = {} /\ (g = guild \/ view.jumped)
        \/ /\ page = "home"
           /\ query["producers"] = "ok" /\ query["latest"] \in {"empty", "none"}
=============================================================================
