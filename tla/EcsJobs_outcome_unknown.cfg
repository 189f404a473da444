\* A delivery-preparation job shares its execution with the agent turn
SPECIFICATION Spec
CONSTANTS
    Executions = {e1}
    RouteWorkers = {r1}
    AutomationWorkers = {a1, a2}
    NativeStatus = {}
    NoExecution = NoExecution
    MaxStalls = 0
    MaxDefers = 0
    MaxCrashes = 1
    MaxPrepRequests = 1
PROPERTY OutcomeUnknownStays
CHECK_DEADLOCK FALSE
