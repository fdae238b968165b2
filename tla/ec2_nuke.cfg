\* A kernel launches a client while another one nukes.
CONSTANTS
    k1 = k1  k2 = k2
    None = None
    Kernels = {k1, k2}
    Calls <- NukeAside
    Names = {cli}
    Clients = {cli}
    Confs = {A}
    Ids = {b1, b2}
    Groups = {g1, g2}
    Addrs = {a1}
SPECIFICATION Spec
SYMMETRY Fresh
PROPERTIES NukeRemovesFound
CHECK_DEADLOCK FALSE
