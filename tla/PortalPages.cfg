SPECIFICATION Spec
CONSTANTS
    Guilds <- GuildsOfModel
    Top21 = {"alpha"}
    Standby = {"beta", "fresh"}
    Table <- TableOfModel
    DayLength = 10
    PerDay = 3
    Limit = 4
    Recent <- RecentOfModel
    Picks <- PicksOfModel
    MaxOpened = 2
    MaxAsked = 2
    None = None
INVARIANTS
    TypeOK
    ChartsFollow
    AnswersFit
    OnlyNoResultsBreak
