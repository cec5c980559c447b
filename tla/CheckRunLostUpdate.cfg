SPECIFICATION Spec
CONSTANTS
    Guilds = {g1}
    Poison = {}
    Shared = {}
    Listing <- AllNodes
    Established = TRUE
    WorkerFull = {FALSE}
    Outages = FALSE
    MaxChanges = 1
PROPERTY RetiredStaysRetired
