SPECIFICATION FairSpec
CONSTANTS
    Calls = {c1, c2}
    KyRetries = 1
    GotRetries = 1
    MaxOutages = 1
    MaxProducers = 2
INVARIANTS
    TypeOK
    NobodyWaitsInVain
    AnswersTrue
PROPERTIES
    ErrorsContained
    CallServiceSpec
    EveryCallEnds
CHECK_DEADLOCK FALSE
