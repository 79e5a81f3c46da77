CONSTANTS
    Tx = {t1}
    User = {1, 2}
    ConfiguredChat <- Group
    AllowedUsers = {1}
    AllowedTTL = {300}
    MaxTaps = 3
    MaxCrashes = 1
SPECIFICATION ChannelFairSpec
CHECK_DEADLOCK FALSE
INVARIANTS HandledOnce GrantHasTap
PROPERTIES TapHandled 
