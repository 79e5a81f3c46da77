CONSTANTS
    Call = {c1}
    h1 = h1
    h2 = h2
    s1 = s1
    s2 = s2
    Host = {h1, h2}
    Session = {s1, s2}
    HostOf <- HostsOfSessions
    Key = {k1, k2}
    NoHost = NoHost
    NoSession = NoSession
    NoKey = NoKey
    Malformed = Malformed
SPECIFICATION ClientFairSpec
CHECK_DEADLOCK FALSE
INVARIANTS  OkMeansGranted LeaseDestinationProven 
PROPERTY GrantReturned
