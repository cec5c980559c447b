---------------------------- MODULE ResultsList ----------------------------
(***************************************************************************)
(* The list of check results: GuildsCheckResults.tsx with its Pagination,  *)
(* Top21Toggle, ResultsToggle, search field and GuildCards.                *)
(*                                                                         *)
(* The home page shows one row per guild and lets it be searched and       *)
(* filtered; a guild's page shows the rows of one guild page by page, and  *)
(* stays mounted with its list when the history leads on to another        *)
(* guild's page.  Producers do not change while it is mounted.  The names  *)
(* that other modules have, too, bear the prefix List, so that a module    *)
(* can extend this one beside that of the pages the list is on.            *)
(***************************************************************************)
EXTENDS Integers, Sequences, FiniteSets, SequencesExt

CONSTANTS
    Listed,         \* names of guilds, in the order of the home page
    Searches,       \* what may be typed, as the set of the names that match
    ItemsPerPage,   \* 15 in the code
    MaxRows,        \* bound on the rows of one guild
    MaxBeyond       \* bound on how far Next and Previous leave the pages

ASSUME ListAssumption ==
    /\ Listed \in Seq(STRING) /\ IsInjective(Listed)
    /\ \A s \in Searches : s \subseteq ToSet(Listed)
    /\ ItemsPerPage \in Nat \ {0}
    /\ MaxRows \in Nat \ {0} /\ MaxBeyond \in Nat

VARIABLES
    filterable,        \* home page or guild page
    results,           \* rows, as [owner_name, rownum]
    producers,         \* what oig.producer says of the guilds in it
    activePage,        \* Pagination: the page that is highlighted, 0 without it
    itemOffset,
    paginatedGuilds,
    showAll,           \* columns: requirements instead of services
    activeToggle,
    searchTerm,        \* the names that match what is typed
    filterableGuilds,
    moved              \* the offset was kept while Pagination was not there, or
                       \* beyond the ends, and no page was turned to since

listVars == <<filterable, results, producers, activePage, itemOffset,
              paginatedGuilds, showAll, activeToggle, searchTerm,
              filterableGuilds, moved>>

props == <<filterable, results, producers>>
pages == <<activePage, itemOffset, paginatedGuilds, moved>>
filter == <<activeToggle, searchTerm, filterableGuilds>>

Names == ToSet(Listed)
Row == [owner_name : Names, rownum : 1..MaxRows]
\* NULL, which the columns may hold, counts as false in both.
Producer == [active : BOOLEAN, top21 : BOOLEAN]

-----------------------------------------------------------------------------
\* What is computed from the properties of the component

\* A guild that oig.producer does not know counts as active.
IsActive(name) ==
    name \in DOMAIN producers => producers[name].active

\* mapProducerToGuild: the rows do not know who is in the top 21.
InTop21(row) == /\ row.owner_name \in DOMAIN producers
                /\ producers[row.owner_name].top21

\* The numbers of P, from the smallest on.
InOrder(P) ==
    [k \in 1..Cardinality(P) |->
       CHOOSE i \in P : Cardinality({j \in P : j <= i}) = k]

\* filter(): the rows of s in the places P, in the order in which they are there.
Filter(s, P) == [k \in 1..Cardinality(P) |-> s[InOrder(P)[k]]]

ActiveGuilds ==
    Filter(results, {i \in DOMAIN results : IsActive(results[i].owner_name)})

TotalItems == Len(ActiveGuilds)

PagesCount == (TotalItems + ItemsPerPage - 1) \div ItemsPerPage

\* The remainder of JavaScript has the sign of the dividend.
Remainder(a, b) == IF a >= 0 THEN a % b ELSE -((-a) % b)

\* s.slice(from, to): a negative position counts from the end.
Slice(s, from, to) ==
    LET position(p) == IF p >= 0 THEN p
                       ELSE IF Len(s) + p > 0 THEN Len(s) + p ELSE 0
        last == IF position(to) < Len(s) THEN position(to) ELSE Len(s)
    IN SubSeq(s, position(from) + 1, last)

\* Mutant: the second argument is taken for a length.
SlicedLength(offset) == Slice(ActiveGuilds, offset, ItemsPerPage)

\* Mutant: slice is called without an end.
SlicedToEnd(offset) == Slice(ActiveGuilds, offset, TotalItems)

\* The effect on results, itemOffset and totalItems.
Paginated(offset) == Slice(ActiveGuilds, offset, offset + ItemsPerPage)

GetGuildsToggle(toggle) ==
    Filter(ActiveGuilds,
           {i \in DOMAIN ActiveGuilds :
              CASE toggle = "top21" -> InTop21(ActiveGuilds[i])
                [] toggle = "standby" -> ~InTop21(ActiveGuilds[i])
                [] toggle = "all" -> TRUE})

Including(guilds, term) ==
    Filter(guilds, {i \in DOMAIN guilds : guilds[i].owner_name \in term})

-----------------------------------------------------------------------------
ListTypeOK ==
    /\ results \in Seq(Row)
    /\ DOMAIN producers \subseteq Names
    /\ \A name \in DOMAIN producers : producers[name] \in Producer
    /\ activePage \in Int /\ itemOffset \in Int
    /\ paginatedGuilds \in Seq(Row) /\ filterableGuilds \in Seq(Row)
    /\ {filterable, showAll, moved} \subseteq BOOLEAN
    /\ activeToggle \in {"all", "top21", "standby"}
    /\ searchTerm \in Searches \cup {Names}
    /\ Len(paginatedGuilds) <= ItemsPerPage

\* truncatedPaginatedResults has some rows of one guild, newest first.
RowsOf(name, n) == [i \in 1..n |-> [owner_name |-> name, rownum |-> i]]

\* latestresults has one row of each of some guilds.
ListInit ==
    /\ filterable \in BOOLEAN
    /\ producers \in UNION {[S -> Producer] : S \in SUBSET Names}
    /\ IF filterable
       THEN \E S \in (SUBSET Names) \ {{}} :
              LET rows == Filter(Listed, {i \in DOMAIN Listed : Listed[i] \in S})
              IN results = [i \in DOMAIN rows |->
                              [owner_name |-> rows[i], rownum |-> 1]]
       ELSE \E name \in Names, n \in 1..MaxRows : results = RowsOf(name, n)
    /\ activePage = 0 /\ itemOffset = 0 /\ moved = FALSE
    /\ paginatedGuilds = Paginated(0)
    /\ showAll = FALSE
    /\ activeToggle = "all" /\ searchTerm = Names
    /\ filterableGuilds = ActiveGuilds

-----------------------------------------------------------------------------
\* Pagination, which is there if there is more than one page.  On the first
\* page Previous, and on the last one Next, only ignore the mouse: the
\* keyboard leads on.
HandlePageClick(index) ==
    /\ ~filterable /\ TotalItems > ItemsPerPage
    /\ activePage' = index
    /\ itemOffset' = Remainder(index * ItemsPerPage, TotalItems)
    /\ paginatedGuilds' = Paginated(itemOffset')
    /\ moved' = FALSE
    /\ UNCHANGED <<props, showAll, filter>>

PageClick == \E index \in 0..(PagesCount - 1) : HandlePageClick(index)
Previous == activePage > -MaxBeyond /\ HandlePageClick(activePage - 1)
NextPage == activePage < PagesCount - 1 + MaxBeyond /\ HandlePageClick(activePage + 1)

\* The history leads to another guild page, or back after the rows were asked
\* for anew.  The offset is kept; Pagination keeps its page if it is there
\* before and after, and begins anew otherwise.
ResultsChange(name, n) ==
    /\ ~filterable
    /\ results' = RowsOf(name, n)
    /\ UNCHANGED <<filterable, producers, itemOffset, showAll, filter>>
    /\ paginatedGuilds' = Paginated(itemOffset)'
    /\ \/ /\ TotalItems > ItemsPerPage /\ TotalItems' > ItemsPerPage
          /\ activePage' = activePage
          /\ moved' = (moved \/ activePage \notin 0..(PagesCount - 1))
       \/ /\ TotalItems <= ItemsPerPage \/ TotalItems' <= ItemsPerPage
          /\ activePage' = 0
          /\ moved' = (itemOffset # 0)

OnColumnsSwitch(all) ==
    /\ showAll' = all
    /\ UNCHANGED <<props, pages, filter>>

OnTop21Switch(toggle) ==
    /\ filterable
    /\ activeToggle' = toggle
    /\ filterableGuilds' = Including(GetGuildsToggle(toggle), searchTerm)
    /\ UNCHANGED <<props, pages, showAll, searchTerm>>

Search(term) ==
    /\ filterable
    /\ searchTerm' = term
    /\ filterableGuilds' = Including(GetGuildsToggle(activeToggle), term)
    /\ UNCHANGED <<props, pages, showAll, activeToggle>>

ListNext ==
    \/ PageClick \/ Previous \/ NextPage
    \/ \E name \in Names, n \in 1..MaxRows : ResultsChange(name, n)
    \/ \E all \in BOOLEAN : OnColumnsSwitch(all)
    \/ \E toggle \in {"all", "top21", "standby"} : OnTop21Switch(toggle)
    \/ \E term \in Searches \cup {Names} : Search(term)

ListSpec == ListInit /\ [][ListNext]_listVars

-----------------------------------------------------------------------------
\* Properties

GuildsToDisplay == IF filterable THEN filterableGuilds ELSE paginatedGuilds

\* The cards are those of the page that is highlighted, although page and
\* offset are kept by two components and the offset is reduced modulo the
\* number of rows (GuildsCheckResults.tsx:57-60, Pagination.tsx:14-17).  A page
\* beyond the ends is no page.  It holds while the history leads from guild to
\* guild, but not where the rows of one fit on a page: Pagination goes and
\* begins anew with the first page, while the offset is kept
\* (GuildsCheckResults.tsx:43, 47-55).  It holds again with the next page
\* turned to.
HighlightedPageShown ==
    ~filterable /\ ~moved /\ activePage \in 0..(PagesCount - 1) =>
        \A i \in 1..ItemsPerPage :
            LET n == activePage * ItemsPerPage + i
            IN IF n <= TotalItems
               THEN i <= Len(GuildsToDisplay) /\ GuildsToDisplay[i] = ActiveGuilds[n]
               ELSE i > Len(GuildsToDisplay)

\* In every case the cards of a guild page are successive rows of the results
\* that it has now, never rows of the guild before (GuildsCheckResults.tsx:47-55).
CardsOfResults ==
    ~filterable =>
        \E k \in 0..TotalItems :
            \A i \in DOMAIN GuildsToDisplay :
                /\ k + i <= TotalItems
                /\ GuildsToDisplay[i] = ActiveGuilds[k + i]

\* The elements of t stand in s, in the same order.
Follows(t, s) ==
    \A k, l \in DOMAIN t : k < l =>
        \E i, j \in DOMAIN s : i < j /\ t[k] = s[i] /\ t[l] = s[j]

\* Toggle and search field, which are handled one at a time, both hold for the
\* cards, and no active guild that meets both is missing, in whatever order
\* they were used; the cards keep the order of the results, in which each guild
\* stands once (GuildsCheckResults.tsx:96-116).
FilterShown ==
    filterable =>
        /\ ToSet(GuildsToDisplay) =
             {row \in ToSet(results) :
                /\ IsActive(row.owner_name)
                /\ activeToggle = "top21" => InTop21(row)
                /\ activeToggle = "standby" => ~InTop21(row)
                /\ row.owner_name \in searchTerm}
        /\ Follows(GuildsToDisplay, results)

\* The cards are those that page, toggle and search field stand for.
CardsAsSelected == HighlightedPageShown /\ CardsOfResults /\ FilterShown
=============================================================================
