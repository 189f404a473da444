\* One process that crashes and fails, scheduled fairly; no symmetry
SPECIFICATION FairSpec
CONSTANTS
    Turns = {t1, t2}
    Workers = {w1}
    NoTurn = NoTurn
    NoWorker = NoWorker
    EventsSeen = {"created", "comment"}
    ToolsCalled = {}
    Closing = {FALSE}
    MaxUpdates = 0
    MaxStalls = 0
    MaxCrashes = 1
    MaxFaults = 1
INVARIANTS
    QuietWhenOver
PROPERTIES
    EveryTurnEndsUnlessAbandoned
CHECK_DEADLOCK FALSE
