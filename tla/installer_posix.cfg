SPECIFICATION Spec
CONSTANTS
    Job = {j1, j2}
    Base = Base
    NoFile = NoFile
    MaxSuffix = 2
    MaxBoots = 0
    ExeFollowsRename = FALSE
    OnWindows = FALSE
    RequireSignature = FALSE
    Faulty = {"backup", "swap", "exec"}
    OneAtATime = TRUE
INVARIANTS NeverWithoutBinary
PROPERTIES UpdateTakesEffect
CHECK_DEADLOCK FALSE
