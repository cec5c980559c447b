--------------------------- MODULE MCResultsList ---------------------------
\* Two guilds; what is typed matches none or one of them.
EXTENDS ResultsList

GuildsOfModel == <<"amsterdam", "bountyblok">>
SearchesOfModel == {{}, {"amsterdam"}, {"bountyblok"}}
=============================================================================
