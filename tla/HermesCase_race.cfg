\* Two processes, one of which may lose its lease and go on
SPECIFICATION Spec
CONSTANTS
    Turns = {t1, t2}
    Workers = {w1, w2}
    NoTurn = NoTurn
    NoWorker = NoWorker
    EventsSeen = {"created", "comment"}
    ToolsCalled = {}
    Closing = {FALSE}
    MaxUpdates = 0
    MaxStalls = 1
    MaxCrashes = 0
    MaxFaults = 0
SYMMETRY Symmetry
INVARIANTS
    OneActiveTurn
    WaitingTurnIsDriven
PROPERTIES
    EndedTurnsStay
    KeepsClaims
CHECK_DEADLOCK FALSE
