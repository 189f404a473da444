\* Three turns change the conversation version under one draft
SPECIFICATION Spec
CONSTANTS
    Turns = {t1, t2, t3}
    Kinds = {"reply", "review"}
    MaxDrafts = 2
    Attached = {1}
    Workers = {w1}
    Drains = {w1}
    NoWorker = NoWorker
    NoTurn = NoTurn
    MaxComments = 1
    MaxSyncs = 1
    MaxClicks = 1
    MaxTroubles = 0
SYMMETRY Symmetry
INVARIANTS
    RefusedIsNeverSent
PROPERTIES
    KeepsTurns
CHECK_DEADLOCK FALSE
