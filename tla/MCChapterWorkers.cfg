CONSTANTS
    r1 = r1
    w1 = w1
    w2 = w2
    m1 = m1
    m2 = m2
    Runs = {r1}
    Works = {w1, w2}
    Models = {m1}
    NoModel = NoModel
    RunOf <- OneRun
    WorkList <- OneRunList
    FixedModelOf <- AnyModel
    Configs <- TwoSeats
    MaxAttempts = 2
    NotifySuspends = TRUE
    LoopFaults = TRUE
    LostReplies = TRUE
    CancelFlag = TRUE
    CancelAnywhere = TRUE
SPECIFICATION Spec
CONSTRAINT OneDisturbance
CHECK_DEADLOCK FALSE
INVARIANTS
    TypeOK
    AllSavedOnReturn
    WorksAccounted
    SeatsSound
    CleanEnds
    MemoryMatchesStore
PROPERTIES
    KeepsPromise
    LostOnlyToRetry
