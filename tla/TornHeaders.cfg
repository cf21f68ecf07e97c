SPECIFICATION Spec
CONSTANTS
    k1 = k1
    k2 = k2
    v1 = v1
    v2 = v2
    Keys = {k1, k2}
    Values = {v1, v2}
    NoValue = NoValue
    NoCall = NoCall
    NoReply = NoReply
    SizeOf <- SizesAlign4
    BankSize <- Banks43
    PrefixUnits = 2
    MaxSettings = 2
    GenModulus = 4
    MangledHeaders = {"damaged"}
    Faults = {}
INVARIANTS
    DInv
    ReopenAgrees
PROPERTIES
    SettingsStayReachable
    Refines
SYMMETRY KeySymmetry
