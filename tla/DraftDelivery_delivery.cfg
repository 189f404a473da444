\* One draft, prepared by two processes of which one runs the drain
SPECIFICATION FairSpec
CONSTANTS
    Turns = {t1}
    Kinds = {"auto", "manual"}
    MaxDrafts = 1
    Attached = {}
    Workers = {w1, w2}
    Drains = {w1}
    NoWorker = NoWorker
    NoTurn = NoTurn
    MaxComments = 1
    MaxSyncs = 0
    MaxClicks = 1
    MaxTroubles = 1
INVARIANTS
    TypeOK
    SentOnce
    PreparingIsDriven
    CompletedPreparationIsFinal
    LedgerTellsTheTruth
    DeniedNeedsAHuman
    OfferedIsCurrent
PROPERTIES
    KeepsPromise
    KeepsClaims
    PreparationEnds
    EveryPostIsRecorded
CHECK_DEADLOCK FALSE
