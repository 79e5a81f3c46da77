CONSTANTS
    LookupKey = {l1, l2}
    Approver = {a1, a2}
    MaxTime = 2
    Tx = {t1, t2}
    Waiter = {}
    Call = {c1}
    TTL = {1}
    DefaultTTL = 1
    Env = "prod"
    NoTx = NoTx
    NoKey = NoKey
    NoApprover = NoApprover
SPECIFICATION Spec
SYMMETRY Symmetry
INVARIANTS LeaseOnlyFromApproval CredentialTracesToHuman IndexMatchesLeases FindActiveIsLongest
PROPERTIES ImplementsDecision PurgeRemovesOnlyExpired
