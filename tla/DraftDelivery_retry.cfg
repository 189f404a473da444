\* A process dies between the ledger row and the mark, and an engineer approves again
SPECIFICATION Spec
CONSTANTS
    Turns = {t1}
    Kinds = {"auto"}
    MaxDrafts = 1
    Attached = {}
    Workers = {w1}
    Drains = {w1}
    NoWorker = NoWorker
    NoTurn = NoTurn
    MaxComments = 0
    MaxSyncs = 0
    MaxClicks = 1
    MaxTroubles = 1
INVARIANTS
    FailedPreparationSendsNothing
CHECK_DEADLOCK FALSE
