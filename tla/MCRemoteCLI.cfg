SPECIFICATION RemoteFairSpec
CONSTANTS
    Commands <- SetupAgain
    Root = TRUE
    HasUser = TRUE
    MaxGen = 2
    MaxKills = 0
    MaxMishaps = 2
    ProfileCA = FALSE
PROPERTY LoadsInTheEnd
