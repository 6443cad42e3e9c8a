CONSTANTS
    Executions = {e1, e2, e3}
    Cases = {c1, c2}
    RootCases = {c2}
    Nobody = Nobody
    MaxCrashes = 1
SPECIFICATION Spec
CONSTRAINTS CrashesThatCount OneFailsAtATime
SYMMETRY Symmetry
CHECK_DEADLOCK FALSE
INVARIANTS
    CasesAreSafe
    FailuresAreLocal
PROPERTIES
    OthersKeepTheirCases
    ResolvedOnce
