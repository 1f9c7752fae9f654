SPECIFICATION Spec
CONSTANTS
    alice = alice
    bob = bob
    Clients = {alice, bob}
    ToolsOf <- AnyAndRaw
    QueueSize = 2
    Lines = {0, 2}
    Faults <- SomeFaults
    Failing = {"CFSR", "names", "list"}
    MaxCalls = 1
    MaxRuns = 1
    MaxTimeouts = 1
INVARIANTS TypeOK AlwaysReports
PROPERTIES NothingStale OwnOutput FaultsExplained
CHECK_DEADLOCK TRUE
