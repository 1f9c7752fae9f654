SPECIFICATION FairSpec
CONSTANTS
    Clients = {c}
    Kinds = {"grace", "port"}
    MaxSpawns = 3
INVARIANTS TypeOK NoOrphan
PROPERTY EveryCallEnds
CHECK_DEADLOCK TRUE
