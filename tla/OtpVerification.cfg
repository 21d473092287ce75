CONSTANTS
    h1 = h1
    h2 = h2
    Handlers <- TwoHandlers
    FailureThreshold = 2
    Cooldown = 1
    MaxAttempts = 2
    Lifetime = 1
    MaxCodes = 2
    MaxLost = 1
SPECIFICATION Spec
SYMMETRY Symmetry
INVARIANTS
    GuessesBounded
    VerifiedWasAccepted
PROPERTIES
    CooldownIsServed
    VerifiedStays
