\* A start that overlaps regen.
CONSTANTS
    k1 = k1  k2 = k2
    CA = CA  NoFile = NoFile  Torn = Torn
    Procs = {k1, k2}
    Instances = {auth}
    ExtraSans = {}
    Asks <- SameNames
    Starts <- FirstStarts
    Regens = {k2}
    Forces <- AsDocumented
    SameSecond = FALSE
    Prepared = TRUE
    CaLife = 9
    LeafLife = 9
    MaxTime = 1
    MaxKeys = 5
SPECIFICATION Spec
INVARIANT ReusableLeafVerifies
CHECK_DEADLOCK FALSE
