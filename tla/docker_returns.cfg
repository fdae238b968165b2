\* Every call of two kernels that start and stop comes back.
CONSTANTS
    k1 = k1  k2 = k2  do53 = do53  dot = dot  both = both
    None = None
    Kernels = {k1, k2}
    Instances = {auth}
    Profiles = {both}
    Configs = {A}
    Ids = {c1, c2}
    Listeners <- MCListeners
    Starters <- AllStarters
    Regens = {}
    ReuseBudget = 1
    StartBudget = 2
    MaxCa = 1
SPECIFICATION FairSpec
PROPERTIES CallsReturn TeardownComplete
CHECK_DEADLOCK FALSE
