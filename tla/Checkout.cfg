CONSTANTS
    s1 = s1
    b1 = b1
    b2 = b2
    w1 = w1
    w2 = w2
    k1 = k1
    k2 = k2
    k3 = k3
    h1 = h1
    h2 = h2
    r1 = r1
    r2 = r2
    Seats <- OneSeat
    Bookings <- TwoBookings
    Sweepers <- OneSweeper
    Keys <- TwoKeys
    Handlers <- OneHandler
    Reconcilers <- OneReconciler
    HoldTime = 0
    MaxTime = 2
    MaxPayments = 2
    StuckAge = 0
SPECIFICATION Spec
SYMMETRY Symmetry
CHECK_DEADLOCK FALSE
INVARIANTS
    ConfirmedWasPaid
PROPERTIES
    SeatSpec
    PaymentMovesWithItsBooking
