SPECIFICATION Spec
CONSTANTS
    Job = {j1}
    Base = Base
    NoFile = NoFile
    MaxSuffix = 2
    MaxBoots = 0
    ExeFollowsRename = TRUE
    OnWindows = FALSE
    RequireSignature = FALSE
    Faulty = {}
    OneAtATime = TRUE
PROPERTIES UpdateTakesEffect
CHECK_DEADLOCK FALSE
