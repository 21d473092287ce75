CONSTANTS
    s1 = s1
    b1 = b1
    b2 = b2
    w1 = w1
    w2 = w2
    k1 = k1
    k2 = k2
    k3 = k3
    h1 = h1
    h2 = h2
    r1 = r1
    r2 = r2
    Seats <- OneSeat
    Bookings <- OneBooking
    Sweepers <- OneSweeper
    Keys <- TwoKeys
    Handlers <- TwoHandlers
    Reconcilers <- OneReconciler
    HoldTime = 1
    MaxTime = 3
    MaxPayments = 2
    StuckAge = 0
SPECIFICATION Spec
SYMMETRY Symmetry
CHECK_DEADLOCK FALSE
PROPERTY CancelSparesConfirmed
