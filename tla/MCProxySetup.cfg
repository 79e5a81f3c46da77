SPECIFICATION FairSpec
CONSTANTS
    Commands <- AllCommands
    Root = TRUE
    HasUser = FALSE
    MaxGen = 2
    MaxKills = 1
 
 
PROPERTY NothingOverwritten
 
