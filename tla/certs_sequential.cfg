\* One kernel that starts, regenerates and crashes at will; certificates expire.
CONSTANTS
    k1 = k1  k2 = k2
    CA = CA  NoFile = NoFile  Torn = Torn
    Procs = {k1}
    Instances = {auth, fwd}
    ExtraSans = {ip}
    Asks <- SameNames
    Starts <- SoleStarts
    Regens = {k1}
    Forces <- AnyForce
    SameSecond = FALSE
    Prepared = FALSE
    CaLife = 3
    LeafLife = 2
    MaxTime = 5
    MaxKeys = 7
SPECIFICATION Spec
INVARIANTS TypeOK ReusableLeafVerifies IssuedLeafVerifies CaPairAtRest RegenLeavesOnlyFreshCa
CHECK_DEADLOCK FALSE
