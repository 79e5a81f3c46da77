SPECIFICATION FairSpec
CONSTANTS
    MaxGen = 2
    MaxKeys = 2
    MaxFaults = 2
    Scripts <- OwnKeyScripts
    Script <- EnrollScript
INVARIANTS CrtFitsKey ConfigNamesMaterial
 
