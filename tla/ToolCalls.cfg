SPECIFICATION Spec
CONSTANTS
    Nothing = None
    None = None
    Configs <- SomeConfigs
    Candidates <- SomeCandidates
    Absolute <- SomeAbsolute
    Paths <- SomePaths
    Real <- SomeReal
    Parts <- SomeParts
    Directories = {"/r", "/r/w", "/r/w/d", "/r/p", "/o"}
    Worktrees = {"/r/w", "/o"}
    Texts = {"review", "--agent", "--approve-all", "prompt"}
INVARIANT LaunchIsAsAsked
INVARIANT PermissionIsOperators
CHECK_DEADLOCK FALSE
