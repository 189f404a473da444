\* A comment overtakes a turn that was directed to a human
SPECIFICATION Spec
CONSTANTS
    Turns = {t1, t2}
    Workers = {w1}
    NoTurn = NoTurn
    NoWorker = NoWorker
    EventsSeen = {"comment"}
    ToolsCalled = {"direction"}
    Closing = {FALSE}
    MaxUpdates = 0
    MaxStalls = 0
    MaxCrashes = 0
    MaxFaults = 0
SYMMETRY Symmetry
INVARIANTS
    HumanDirectionIsHandedOver
CHECK_DEADLOCK FALSE
