CONSTANTS
    s1 = s1
    b1 = b1
    b2 = b2
    w1 = w1
    w2 = w2
    k1 = k1
    k2 = k2
    k3 = k3
    h1 = h1
    h2 = h2
    r1 = r1
    r2 = r2
    Seats <- OneSeat
    Bookings <- TwoBookings
    Sweepers <- OneSweeper
    Keys <- ThreeKeys
    Handlers <- OneHandler
    Reconcilers <- OneReconciler
    HoldTime = 0
    MaxTime = 1
    MaxPayments = 3
    StuckAge = 0
SPECIFICATION RetriedFairSpec
CHECK_DEADLOCK FALSE
PROPERTY NewestPaymentSettles
