SPECIFICATION FairSpec
CONSTANTS
    Threads = {t1, t2, t3, t4, t5}
    AutoThread = AutoThread
    StopThread = StopThread
    NoThread = NoThread
    MaxRequests = 2
    FullRequests = {}
PROPERTY EveryRequestStarts
CHECK_DEADLOCK FALSE
