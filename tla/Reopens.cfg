SPECIFICATION FairSpec
CONSTANTS
    k1 = k1
    k2 = k2
    v1 = v1
    v2 = v2
    Keys = {k1, k2}
    Values = {v1, v2}
    NoValue = NoValue
    NoCall = NoCall
    NoReply = NoReply
    SizeOf <- SizesAlign8
    BankSize <- Banks22
    PrefixUnits = 1
    MaxSettings = 2
    GenModulus = 4
    MangledHeaders = {}
    Faults = {}
PROPERTIES
    Reopens
