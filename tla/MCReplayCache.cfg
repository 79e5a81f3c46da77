CONSTANTS
    Request = {r1, r2, r3}
    BodyId = {b1, b2, b3}
    Body <- Bodies
    Window = 1
    TTL = 4
    Max = 2
    TicksPerSec = 2
    MaxTime = 6
    NoBody = NoBody
SPECIFICATION Spec
SYMMETRY Symmetry
CHECK_DEADLOCK FALSE
INVARIANTS AcceptedOnceWhileCached WindowCoveredByCache
