SPECIFICATION Spec
CONSTANTS
    IntWidth = 8
    MaxOptions = 2
    ByteBits = 4
    TypeBits = 2
    Types <- MCTypes
    Scopes = 2
    RecordMagic = 10
    RecordVersion = 0
    Definitions <- MCDefinitions
    Candidates <- MCCandidates
    SettingKeys <- MCKeys
    Media <- MCMedia
INVARIANTS
    TypeOK
    LimitsExact
    ReadsBack
    DamageSeen
CHECK_DEADLOCK FALSE
