\* One execution, whose processing job is a native status notification and whose
\* agent turn is fenced; every fault of the safety run may strike
SPECIFICATION FairSpec
CONSTANTS
    Executions = {e1}
    RouteWorkers = {r1}
    AutomationWorkers = {a1}
    NativeStatus = {e1}
    NoExecution = NoExecution
    MaxStalls = 1
    MaxDefers = 1
    MaxCrashes = 2
    MaxPrepRequests = 1
PROPERTIES
    EveryJobSettles
    EveryExecutionSettles
CHECK_DEADLOCK FALSE
