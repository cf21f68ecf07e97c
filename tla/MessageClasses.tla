------------------------------ MODULE MessageClasses ------------------------------
(* The classes that can appear in a message, each with the members its             *)
(* registerMembers() enters into the table of MPackObject, and what its             *)
(* createObject() makes for a pointer member or an array element. A numeric type    *)
(* stands for all of them; a kind is the chain of CppTypes of a member.             *)
EXTENDS Sequences

CONSTANT CustomMembers   \* the members of a payload class the application registers

Member(name, kind) == [name |-> name, kind |-> kind, class |-> "", optional |-> FALSE, omit |-> "None"]
Inline(name, class) == [Member(name, <<"Object">>) EXCEPT !.class = class]
Optional(name, kind) == [Member(name, kind) EXCEPT !.optional = TRUE]
Omitted(name, kind, policy) == [Member(name, kind) EXCEPT !.omit = policy]
Objects(name) == Member(name, <<"Array", "ObjectPtr">>)

SettingValue(value, limits) ==
    <<Member("address", <<"Number">>), Member("id", <<"String">>), Omitted("unit", <<"String">>, "NullOrEmptyCString"),
      Member("value", value), Omitted("readonly", <<"Bool">>, "FalseBool"), Inline("limits", limits)>>
MessageSettingOption(value) == <<Member("value", value), Member("id", <<"String">>)>>

Classes == [
    Message |-> <<Member("msgType", <<"String">>), Member("opCode", <<"String">>), Member("payload", <<"ObjectPtr">>)>>,
    Setting |-> <<Member("type", <<"String">>), Member("value", <<"ObjectPtr">>)>>,
    WriteSetting |-> <<Member("address", <<"Number">>), Member("type", <<"String">>), Member("value", <<"ObjectPtr">>)>>,
    WriteSettings |-> <<Objects("values")>>,
    WriteSettingsResultValue |-> <<Member("address", <<"Number">>), Member("success", <<"Bool">>),
                                   Omitted("errorMessage", <<"String">>, "NullCString")>>,
    WriteSettingsResult |-> <<Objects("values")>>,
    Group |-> <<Member("id", <<"String">>), Objects("settings")>>,
    Module |-> <<Member("id", <<"String">>), Objects("groups")>>,
    DeviceInfo |-> <<Member("model", <<"String">>), Member("firmwareVersion", <<"String">>)>>,
    Device |-> <<Member("deviceInfo", <<"ObjectPtr">>), Objects("modules")>>,
    SuccessResult |-> <<Member("success", <<"Bool">>), Omitted("errorMessage", <<"String">>, "NullCString")>>,
    BoolSetting |-> SettingValue(<<"Bool">>, "BoolLimits"),
    NumberSetting |-> SettingValue(<<"Number">>, "NumberLimits"),
    BoolLimits |-> <<Member("isRange", <<"Bool">>), Objects("options")>>,
    NumberLimits |-> <<Optional("min", <<"Number">>), Optional("max", <<"Number">>), Optional("step", <<"Number">>),
                       Member("isRange", <<"Bool">>), Objects("options")>>,
    BoolOption |-> MessageSettingOption(<<"Bool">>),
    NumberOption |-> MessageSettingOption(<<"Number">>),
    Custom |-> CustomMembers]

Null == "null"

\* createSettingValue(): an unknown type has no class.
SettingValueClass(type) ==
    CASE type = "bool" -> "BoolSetting" [] type = "i32" -> "NumberSetting" [] OTHER -> Null

\* createObject() of every class but Message; type is the member of that name.
Create(class, name, type) ==
    CASE class \in {"Setting", "WriteSetting"} -> SettingValueClass(type)
      [] class = "WriteSettings" -> "WriteSetting"
      [] class = "WriteSettingsResult" -> "WriteSettingsResultValue"
      [] class = "Group" -> IF name = "settings" THEN "Setting" ELSE Null
      [] class = "Module" -> "Group"
      [] class = "Device" -> (CASE name = "deviceInfo" -> "DeviceInfo" [] name = "modules" -> "Module" [] OTHER -> Null)
      [] class = "BoolLimits" -> "BoolOption"
      [] class = "NumberLimits" -> "NumberOption"
      [] OTHER -> Null
====================================================================================
