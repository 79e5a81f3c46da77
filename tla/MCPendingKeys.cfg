CONSTANTS
    Key = {k1}
    NoKey = NoKey
    Mode = "local-key"
    MaxUnsealAttempts = 2
    UnsealCooldown = 2
    MaxTime = 3
    PendingId = {p1, p2}
    Device = {d1, d2}
    Confirm = {c1, c2}
    MaxPendingGlobal = 2
    MaxPendingPerDevice = 1
    PendingTTL = 1
    NoId = NoId
    NoDevice = NoDevice
SPECIFICATION Spec
SYMMETRY Symmetry
INVARIANTS CountersMatchQueue QueueWithinLimits UploadLoadedOnce LockoutSlowsGuessing
