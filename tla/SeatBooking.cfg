CONSTANTS
    s1 = s1
    s2 = s2
    b1 = b1
    b2 = b2
    w1 = w1
    w2 = w2
    Seats <- TwoSeats
    Bookings <- TwoBookings
    Sweepers <- TwoSweepers
    HoldTime = 1
    MaxTime = 4
SPECIFICATION SeatFairSpec
CHECK_DEADLOCK FALSE
INVARIANTS
    OneOwner
    OwnerHasSeat
    TakenSeatHasOwner
PROPERTIES
    AllocationIsKept
    OnlyOwnerMovesSeat
    LapsedSeatReclaimed
    LostBookingEnds
