SPECIFICATION FairSpec
CONSTANTS
    MaxHead = 1
    MaxStream = 4
INVARIANTS
    TypeOK
    PassIsDeserved
    HealthyPeerPasses
    RaisesBeforeContact
PROPERTY SilenceEnds
CHECK_DEADLOCK FALSE
