\* No fault of any kind, fair scheduling
SPECIFICATION FairSpec
CONSTANTS
    Turns = {t1, t2}
    Workers = {w1}
    NoTurn = NoTurn
    NoWorker = NoWorker
    EventsSeen = {"created", "comment"}
    ToolsCalled = {}
    Closing = {FALSE}
    MaxUpdates = 0
    MaxStalls = 0
    MaxCrashes = 0
    MaxFaults = 0
PROPERTIES
    NewestTurnStarts
CHECK_DEADLOCK FALSE
