\* One kernel starts a client; requests fail and kernels crash.
CONSTANTS
    k1 = k1  k2 = k2
    None = None
    Kernels = {k1}
    Calls <- Starts
    Names = {cli}
    Clients = {cli}
    Confs = {A}
    Ids = {b1}
    Groups = {g1, g2}
    Addrs = {a1}
SPECIFICATION Spec
SYMMETRY Fresh
PROPERTIES ProfileGrantsSsm
CHECK_DEADLOCK FALSE
