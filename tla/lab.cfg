\* The pair, two forwarders, an EC2 server and an external one.
CONSTANTS
    k1 = k1  k2 = k2
    None = None
    Kernels = {k1}
    Catalogue <- MCCatalogue
    NoAddr = NoAddr
    Addrs = {a1, a2, a3}
    Depth = 3
    MaxCa = 2
    Hangs = {"lab-auth-dot"}
SPECIFICATION Spec
SYMMETRY Symmetry
VIEW View
INVARIANT TypeOK
PROPERTIES NoFalseAlarm MarkerProvesTls
CHECK_DEADLOCK FALSE
