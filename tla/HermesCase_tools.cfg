\* The tools of the route phase race the intake and the process
SPECIFICATION Spec
CONSTANTS
    Turns = {t1, t2}
    Workers = {w1}
    NoTurn = NoTurn
    NoWorker = NoWorker
    EventsSeen = {"created", "comment", "feedback"}
    ToolsCalled = {"direction", "escalate"}
    Closing = {FALSE}
    MaxUpdates = 1
    MaxStalls = 0
    MaxCrashes = 0
    MaxFaults = 0
SYMMETRY Symmetry
INVARIANTS
    ActiveTurnIsCurrent
    OnlyOutdatedIsCancelled
    RunningTurnIsDriven
CHECK_DEADLOCK FALSE
