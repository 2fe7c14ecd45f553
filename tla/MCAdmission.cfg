\* Turns, their prices, rate limits, crashes and failing writes.
SPECIFICATION AdmissionSpec
CONSTANTS
    Sessions = {s1, s2}
    MaxCost = 2
    Budget = 3
    MaxWindow = 1
    MaxTorn = 2
    CooldownBase = 1
    CooldownMax = 2
    OverloadedDelay = 1
    Delays = {0, 1, 3}
    MaxConsecutive = 2
INVARIANTS
    AdmissionInv
    IndInv
    OvershootBounded
    DriftBounded
PROPERTIES
    NoTurnBeforeRetryAfter
    CooldownEnds
