CONSTANTS
    Requests = {r1, r2, r3}
    Executions = {e1, e2, e3}
    NoExecution = NoExecution
    MaxRefused = 1
    MaxRestarts = 1
SPECIFICATION Spec
CHECK_DEADLOCK FALSE
INVARIANTS
    RowTellsTruth
PROPERTIES
    CancelAnswered
    CancelStops
