\* A profile with both listeners, reused after the CA was regenerated.
CONSTANTS
    k1 = k1  k2 = k2  do53 = do53  dot = dot  both = both
    None = None
    Kernels = {k1}
    Instances = {auth}
    Profiles = {both}
    Configs = {A}
    Ids = {c1, c2}
    Listeners <- MCListeners
    Starters <- SoleStarters
    Regens = {k1}
    ReuseBudget = 1
    StartBudget = 1
    MaxCa = 2
SPECIFICATION Spec
PROPERTY HandsOutTrustedTls
CHECK_DEADLOCK FALSE
