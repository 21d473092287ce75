CONSTANTS
    s1 = s1
    s2 = s2
    a1 = a1
    a2 = a2
    Seats <- TwoSeats
    Asks <- TwoAsks
    MaxSelected = 2
    HoldTtl = 2
    GiveUp = 1
    MaxVersion = 3
    MaxVisits = 2
SPECIFICATION FairSpec
CHECK_DEADLOCK FALSE
INVARIANTS
    SelectedIsShownFree
    ChargedOncePerVisit
PROPERTIES
    MapNeverGoesBack
    PollStops
