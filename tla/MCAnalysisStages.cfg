CONSTANTS
    Chapters = {c1, c2}
    Batches = 3
    SettingsInUse <- AnySettings
    MaxExecutions = 4
SPECIFICATION Spec
SYMMETRY Symmetry
CHECK_DEADLOCK FALSE
INVARIANTS
    CompletedIsCovered
    ResultsAreCurrent
PROPERTIES
    ExpensiveWorkKept
