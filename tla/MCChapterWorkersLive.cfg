CONSTANTS
    r1 = r1
    w1 = w1
    w2 = w2
    m1 = m1
    m2 = m2
    Runs = {r1}
    Works = {w1, w2}
    Models = {m1}
    NoModel = NoModel
    RunOf <- OneRun
    WorkList <- OneRunList
    FixedModelOf <- AnyModel
    Configs <- TwoSeats
    MaxAttempts = 2
    NotifySuspends = TRUE
    LoopFaults = FALSE
    LostReplies = FALSE
    CancelFlag = FALSE
    CancelAnywhere = TRUE
SPECIFICATION FairSpec
CONSTRAINT FewRetries
CHECK_DEADLOCK FALSE
PROPERTIES
    RunsStop
