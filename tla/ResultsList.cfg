SPECIFICATION ListSpec
CONSTANTS
    Listed <- GuildsOfModel
    Searches <- SearchesOfModel
    ItemsPerPage = 2
    MaxRows = 5
    MaxBeyond = 2
INVARIANTS
    ListTypeOK
    
