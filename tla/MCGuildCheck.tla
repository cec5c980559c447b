---------------------------- MODULE MCGuildCheck ----------------------------
EXTENDS GuildCheck, TLC

\* A guild without nodes, one per service, and both Hyperion networks, whose
\* checks depend on each other.
MCListings == {{}, Hyperion}
              \union {{s} : s \in Services}

\* db_changes.sql in quarters of a point, and a name that no check has.
MCPoints == [c \in {"hyperion_v2", "hyperion_v2_full", "rounds_availability"} |-> 106]
    @@ [c \in {"hyperion_v2_testnet", "atomic_api"} |-> 53]
    @@ [c \in {"cpu_time", "api_node", "https_check", "http2_check",
               "cors_check", "seed_node", "minimum-points"} |-> 0]

MCDeduction == [c \in DOMAIN MCPoints |->
    CASE c \in {"cpu_time", "rounds_availability"} -> 100
      [] c \in {"api_node", "https_check", "http2_check", "cors_check",
                "seed_node"} -> 20
      [] OTHER -> 0]
=============================================================================
