\* One routed execution, two workers of each role, every kind of fault
SPECIFICATION Spec
CONSTANTS
    Executions = {e1}
    RouteWorkers = {r1, r2}
    AutomationWorkers = {a1, a2}
    NativeStatus = {}
    NoExecution = NoExecution
    MaxStalls = 2
    MaxDefers = 1
    MaxCrashes = 1
    MaxPrepRequests = 1
SYMMETRY WorkerSymmetry
INVARIANTS
    TypeOK
    NoReplayAfterExternalStart
    SingleExternalActor
    ExternalCallIsJournalled
    OneSuccessorPerExecution
    ExecutionMatchesJobs
PROPERTIES
    SettledJobsStay
    KeepsClaims
CHECK_DEADLOCK FALSE
