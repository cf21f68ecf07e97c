SPECIFICATION Spec
CONSTANTS
    k1 = k1
    k2 = k2
    k3 = k3
    k4 = k4
    o1 = o1
    o2 = o2
    Keys = {k1, k2, k3}
    Unpackable = {k3}
    Offered <- MCOffered
    Firmwares <- MCFirmwares
    Objects = {o1, o2}
    Capacity = 2
    Stored = {"Frequent", "LongTerm"}
    None = None
    IntWidth = 2
    MaxOptions = 2
    Identity = "id"
SYMMETRY Alike
INVARIANTS
    TypeOK
    OwnedByEntries
    LiveValid
    RestartAgrees
    AppliedCurrent
    OnlyStaleKeysBlock
