CONSTANTS
    LookupKey = {l1}
    Approver = {a1}
    MaxTime = 0
    Tx = {t1}
    Waiter = {w1, w2}
    Call = {c1}
    TTL = {1}
    DefaultTTL = 1
    Env = "prod"
    NoTx = NoTx
    NoKey = NoKey
    NoApprover = NoApprover
SPECIFICATION FairSpec
PROPERTY EveryWaiterReturns
