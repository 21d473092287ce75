CONSTANTS
    r1 = r1
    r2 = r2
    c1 = c1
    c2 = c2
    Consumer = Consumer
    NoConn = NoConn
    MaxEvent = 1
    Runs <- TwoRuns
    Slots <- TwoSlots
    MaxCopies = 2
    MaxFaults = 1
SPECIFICATION Spec
SYMMETRY Symmetry
CHECK_DEADLOCK FALSE
INVARIANTS
    NotifiedOnce
    PublishedIsSomewhere
    RecordedIsAnswered
    GivenUpWasWrittenOrCutOff
