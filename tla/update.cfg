SPECIFICATION FairSpec
CONSTANTS
    MaxCalls = 2
    UserStarts = 1
    Tags <- TagsDef
    Released <- ReleasedDef
    Assets <- AssetsDef
    Arch = "x64"
    MaxFailures = 1
INVARIANTS
    NewerIsOffered
    OneAtATime
    RollbackIsExact
PROPERTIES
    ProgramSurvives
    Resumed
CHECK_DEADLOCK FALSE
