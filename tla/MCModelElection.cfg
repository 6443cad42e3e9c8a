CONSTANTS
    r1 = r1
    r2 = r2
    w1 = w1
    w2 = w2
    w3 = w3
    m1 = m1
    m2 = m2
    Runs = {r1, r2}
    Works = {w1, w2, w3}
    Models = {m1, m2}
    NoModel = NoModel
    RunOf <- MCRunOf
    FixedModelOf <- MCFixedModelOf
    Configs <- Lowered
    MaxAttempts = 2
    NotifySuspends = TRUE
    LoopFaults = TRUE
SPECIFICATION PoolSpec
SYMMETRY Symmetry
CONSTRAINT FewFaults
CHECK_DEADLOCK FALSE
INVARIANTS
    SeatsAreDistinct
    LedgerExact
    RetriedFirst
PROPERTIES
    GivesUpOnlyByTheClock
