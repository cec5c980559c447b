SPECIFICATION FairSpec
CONSTANTS
    Tabs = {tab1, tab2}
    Accounts = {alice, bob}
    None = None
    MaxConnects = 2
    MaxClicks = 2
INVARIANTS
    TypeOK
    SessionsFit
    VisibleHasTimer
PROPERTY NoticeGoesAway
CHECK_DEADLOCK FALSE
