SPECIFICATION Spec
CONSTANTS
    CustomMembers <- MCCustom
    Payloads <- MCPayloads
    Texts <- MCTexts
    MaxDepth = 3
    MaxSlots = 2
    MaxMembers = 4
    MaxKeys = 6
    TxTokens = 12
    MaxEntries = 4
    LongOpCodes = {}
INVARIANTS
    IInv
    TypeOK
    NothingLost
    BitsHaveObjects
    PayloadMatches
    SentWhole
PROPERTIES
    NeverRebound
