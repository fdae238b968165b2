\* A kernel replaces an instance while another one asks for the status.
CONSTANTS
    k1 = k1  k2 = k2
    None = None
    Kernels = {k1, k2}
    Calls <- StatusAside
    Names = {win}
    Clients = {}
    Confs = {A}
    Ids = {b1, b2}
    Groups = {g1, g2}
    Addrs = {a1}
SPECIFICATION Spec
SYMMETRY Fresh
PROPERTIES StopRemovesGroup
CHECK_DEADLOCK FALSE
