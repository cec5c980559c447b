SPECIFICATION Spec
CONSTANTS
    Guilds = {g1, g2}
    Poison = {}
    Shared = {g2}
    Listing <- AllNodes
    Established = FALSE
    WorkerFull = {TRUE, FALSE}
    Outages = TRUE
    MaxChanges = 1
INVARIANTS
    TypeOK
    NodesComplete
    NodesExact
    RetiredNotChecked
