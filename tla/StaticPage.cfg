CONSTANTS
    s1 = s1
    a1 = a1
    k1 = k1
    k2 = k2
    Shows <- OneShow
    Seats <- OneSeat
    FirstShow = s1
    HoldCalls <- TwoCalls
    PayCalls <- OneCall
    MaxBookings = 2
    MaxOpenings = 2
SPECIFICATION FairSpec
INVARIANTS
    CountdownIsOfTheBooking
    ChargedOncePerOpening
    TicketWasPaid
PROPERTIES
    HoldButtonReturns
