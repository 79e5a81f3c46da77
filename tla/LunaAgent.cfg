CONSTANTS
    Conn = {c1, c2}
    Key = {k1, k2}
    Session = {s1, s2}
    Mode = "local-key"
    HostKeyFingerprint = None
    None = None
    Ephemeral = Ephemeral
    MaxStarts = 2
    MaxChanges = 1
SPECIFICATION AgentFairSpec
CHECK_DEADLOCK FALSE
INVARIANTS BoundToOwnSession LockHolds 
 
