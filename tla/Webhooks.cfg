CONSTANTS
    c1 = c1
    c2 = c2
    r1 = r1
    r2 = r2
    h1 = h1
    h2 = h2
    Charges <- OneCharge
    Replicas <- TwoReplicas
    Handlers <- TwoHandlers
    MaxRetries = 2
    MaxHooks = 2
SPECIFICATION FairSpec
CHECK_DEADLOCK FALSE
INVARIANTS
    AnswersTheAttempt
    EventActsOnce
    DeliveredWasRecorded
PROPERTIES
    SendersEnd
    CallbacksAreKept
