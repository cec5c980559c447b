SPECIFICATION Spec
CONSTANTS
    Hour = 2
    Guilds = 4
    Nth = 3
    InitialRows = 3
    MaxImport = 3
    MaxRun = 3
    Fails = TRUE
    Rescans = TRUE
INVARIANTS
    TypeOK
    ResultsEveryThreeHours
PROPERTIES
    FullRunsApart
    OverdueRunStarts
