-------------------------------- MODULE MCMessages --------------------------------
EXTENDS ConfigurationController
MCCustom == <<Member("rows", <<"Array", "Array", "String">>), Inline("limits", "NumberLimits")>>
MCTexts == [msgType |-> {"request"}, opCode |-> {"write.settings", "own"}, type |-> {"i32", "other"}]
MCPayloads == {Entry("request", "own", "Custom"), Entry("request", "write.settings", "SuccessResult"),
    Entry("Unknown", "own", "Custom")}
===================================================================================
