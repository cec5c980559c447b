--------------------------- MODULE MCPortalPages ---------------------------
\* Day 1 to day 4, of which it is the middle: a guild of the top 21 with four
\* checks on day 3 and more checks than are sent, one on standby, one that has
\* no results yet, and an address that is no guild.
EXTENDS PortalPages

GuildsOfModel == {"alpha", "beta", "fresh", "typo"}
TableOfModel ==
    [g \in GuildsOfModel |-> CASE g = "alpha" -> {12, 31, 32, 33, 34, 41}
                               [] g = "beta" -> {20, 30}
                               [] OTHER -> {}]
RecentOfModel == <<15, 45>>
PicksOfModel == {<<10, 30>>, <<30, 40>>}
=============================================================================
