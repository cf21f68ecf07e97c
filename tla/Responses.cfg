SPECIFICATION Spec
CONSTANTS
    k1 = k1
    k2 = k2
    k3 = k3
    k4 = k4
    o1 = o1
    o2 = o2
    Keys = {k1, k2, k3, k4}
    Unpackable = {k4}
    Offered <- MCOffered
    Firmwares <- RamFirmwares
    Objects = {o1}
    Capacity = 4
    Stored = {}
    None = None
    IntWidth = 2
    MaxOptions = 2
    Identity = "id"
SYMMETRY Alike
INVARIANTS
    ResponsesComplete
