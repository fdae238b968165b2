\* Start without waiting, then start again while the server is coming up.
CONSTANTS
    k1 = k1  k2 = k2  do53 = do53  dot = dot  both = both
    None = None
    Kernels = {k1}
    Instances = {auth}
    Profiles = {both}
    Configs = {A}
    Ids = {c1, c2}
    Listeners <- MCListeners
    Starters <- SoleStarters
    Regens = {}
    ReuseBudget = 1
    StartBudget = 3
    MaxCa = 1
SPECIFICATION Spec
PROPERTY BootingIsWaitedFor
CHECK_DEADLOCK FALSE
