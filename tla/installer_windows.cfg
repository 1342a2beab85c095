SPECIFICATION Spec
CONSTANTS
    Job = {j1, j2}
    Base = Base
    NoFile = NoFile
    MaxSuffix = 1
    MaxBoots = 1
    ExeFollowsRename = FALSE
    OnWindows = TRUE
    RequireSignature = TRUE
    Faulty = {"backup", "swap", "rollback"}
    OneAtATime = FALSE
SYMMETRY JobSymmetry
INVARIANTS InstalledIsVerified
CHECK_DEADLOCK FALSE
