SPECIFICATION Spec
CONSTANTS
    Guilds = {g1, g2}
    Poison = {g2}
    Shared = {g2}
    Listing <- AllNodes
    Established = TRUE
    WorkerFull = {TRUE}
    Outages = FALSE
    MaxChanges = 2
PROPERTY ChecksRecover
