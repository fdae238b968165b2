\* One kernel: launches, reuses, resumes, replaces, stops and nukes, with failures and crashes.
CONSTANTS
    k1 = k1  k2 = k2
    None = None
    Kernels = {k1}
    Calls <- AllCalls
    Names = {win}
    Clients = {}
    Confs = {A, B}
    Ids = {b1, b2}
    Groups = {g1, g2, g3}
    Addrs = {a1, a2}
SPECIFICATION Spec
SYMMETRY Fresh
INVARIANTS TypeOK OneLivePerName
PROPERTIES MatchingSurvives HandsOutMatch StopRemovesGroup NukeLeavesNothing CallerLetIn StateTellsTags
CHECK_DEADLOCK FALSE
