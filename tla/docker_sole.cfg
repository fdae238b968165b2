\* One kernel starts an instance with two configs, a plain-only and a DoT-only profile, while another one stops it and regenerates the CA.
CONSTANTS
    k1 = k1  k2 = k2  do53 = do53  dot = dot
    None = None
    Kernels = {k1, k2}
    Instances = {auth}
    Profiles = {do53, dot}
    Configs = {A, B}
    Ids = {c1, c2, c3}
    Listeners <- MCListeners
    Starters <- SoleStarters
    Regens = {k2}
    ReuseBudget = 1
    StartBudget = 1
    MaxCa = 2
SPECIFICATION Spec
SYMMETRY Symmetry
INVARIANTS TypeOK LabelsTellConfig NoNameConflict
PROPERTIES StartDelivers ImplementsLabService HandsOutTrustedTls
CHECK_DEADLOCK FALSE
