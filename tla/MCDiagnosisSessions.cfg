SPECIFICATION Spec
CONSTRAINT ResumesThatCount
CONSTANTS
    Executions = {e1, e2, e3}
    Cases = {k1, k2}
    Nobody = nobody
    Slots = {s1, s2}
    AtATime = 2
    Report = report
    Seats = 2
    RootCases = {k2}
    MaxRestarts = 1
SYMMETRY Symmetry
INVARIANTS
    TypeOK
    ReportIsNeverRefused
    CasesAreSafe
    SeatsGivenBack
    FoundCasesSurvive
PROPERTIES
    ReportReadsSavedCases
