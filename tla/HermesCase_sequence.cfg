\* Three events of every kind, one process, the tool that solves the case
SPECIFICATION Spec
CONSTANTS
    Turns = {t1, t2, t3}
    Workers = {w1}
    NoTurn = NoTurn
    NoWorker = NoWorker
    EventsSeen = {"created", "comment", "feedback", "reply"}
    ToolsCalled = {"solve"}
    Closing = {FALSE}
    MaxUpdates = 0
    MaxStalls = 0
    MaxCrashes = 0
    MaxFaults = 0
SYMMETRY Symmetry
INVARIANTS
    TypeOK
    NoCustomerTurnAfterSolve
    OneReplyPerReview
PROPERTIES
    KeepsTurns
CHECK_DEADLOCK FALSE
