CONSTANTS
    Chapters = {c1, c2}
    Batches = 2
    SettingsInUse <- AllOn
    MaxExecutions = 2
SPECIFICATION Spec
CHECK_DEADLOCK FALSE
INVARIANTS
    CompletedIsWhole
