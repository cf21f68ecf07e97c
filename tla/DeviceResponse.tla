------------------------------ MODULE DeviceResponse ------------------------------
(* The MessagePack tokens the response serializers write. Every map and array is   *)
(* opened with a count that one pass over the registry computes and later passes    *)
(* have to fill: a release build of mpack has no write tracking to check it.         *)
EXTENDS SettingsRegistry, SequencesExt, MessagePackTokens

CONSTANT Identity   \* DeviceIdentity: a scalar, or nil for a null pointer

\* Every definition has a key and a list of options.
ASSUME FieldsAssumption ==
    \A f \in Firmwares : \A d \in f : {"key", "options"} \subseteq DOMAIN d /\ d.options \in Seq(Int)

\* The snapshots one visit() of the registry passes to its callback.
Visited ==
    [i \in DOMAIN entries |->
        LET d == entries[i].def
        IN  [field \in DOMAIN d \cup {"value"} |-> IF field = "value" THEN Live(i) ELSE d[field]]]

InGroup(s, module, group) == s.module = module /\ s.group = group

\* Faulty variant of ModuleCount: a module is counted wherever it follows another.
ModuleChanges(visited) ==
    Cardinality({i \in DOMAIN visited : i = 1 \/ visited[i].module # visited[i - 1].module})

\* The counting passes. SeenNames keeps each name once.
ModuleCount(visited) == Cardinality({s.module : s \in ToSet(visited)})
GroupCount(visited, module) == Cardinality({s.group : s \in {t \in ToSet(visited) : t.module = module}})
SettingCount(visited, module, group) == Cardinality({i \in DOMAIN visited : InGroup(visited[i], module, group)})

\* A pass whose callback writes Emit(s) for the snapshots at the indices that pass.
Emitted(visited, Passes(_), Emit(_)) ==
    FlattenSeq([i \in DOMAIN visited |-> When(Passes(i), Emit(visited[i]))])

\* addressOf(): a key that cannot be packed has address 0.
AddressOf(key) == IF key \in Unpackable THEN 0 ELSE key

LimitTokens(s) ==
    LET numeric == ~IsBool(s.type)
        bound(name, limit) == When(numeric /\ limit # {}, Field(name, limit))
    IN  <<Map(2 + Count(numeric /\ s.min # {}) + Count(numeric /\ s.max # {}) + Count(numeric /\ s.step # {}))>>
        \o bound("min", s.min) \o bound("max", s.max) \o bound("step", s.step)
        \o Field("isRange", s.isRange)
        \o Pair("options", <<Array(Len(s.options))>> \o
              FlattenSeq([i \in DOMAIN s.options |-> <<Map(2)>> \o Field("value", s.options[i]) \o Field("id", s.ids[i])]))

SettingTokens(s) ==
    <<Map(2)>> \o Field("type", s.type)
    \o Pair("value", <<Map(4 + Count(s.unit # "") + Count(s.readonly))>>
        \o Field("address", AddressOf(s.key)) \o Field("id", s.key)
        \o When(s.unit # "", Field("unit", s.unit))
        \o Field("value", s.value)
        \o When(s.readonly, Field("readonly", TRUE))
        \o Pair("limits", LimitTokens(s)))

GroupTokens(visited, module, group) ==
    <<Map(2)>> \o Field("id", group)
    \o Pair("settings", <<Array(SettingCount(visited, module, group))>>
        \o Emitted(visited, LAMBDA i : InGroup(visited[i], module, group), SettingTokens))

\* SeenNames::add() lets a name pass when no earlier snapshot of this pass had it.
ModuleTokens(visited, module) ==
    LET new(i) == /\ visited[i].module = module
                  /\ \A j \in 1..(i - 1) : ~InGroup(visited[j], module, visited[i].group)
    IN  <<Map(2)>> \o Field("id", module)
        \o Pair("groups", <<Array(GroupCount(visited, module))>>
            \o Emitted(visited, new, LAMBDA s : GroupTokens(visited, module, s.group)))

PayloadTokens(visited) ==
    LET new(i) == \A j \in 1..(i - 1) : visited[j].module # visited[i].module
    IN  <<Map(2)>>
        \o Pair("deviceInfo", <<Map(2)>> \o Field("model", Identity) \o Field("firmwareVersion", Identity))
        \o Pair("modules", <<Array(ModuleCount(visited))>>
            \o Emitted(visited, new, LAMBDA s : ModuleTokens(visited, s.module)))

Envelope(opCode, payload) ==
    <<Map(3)>> \o Field("msgType", "response") \o Field("opCode", opCode) \o Pair("payload", payload)

DeviceTokens == Envelope("read.device", PayloadTokens(Visited))

\* errorId() of both serializers.
ErrorId(res) ==
    IF res \in {"NotFound", "ReadOnly", "TypeMismatch", "InvalidOption", "StorageError"} THEN res ELSE "ValidationFailed"

SuccessTokens(opCode, res) ==
    Envelope(opCode, <<Map(IF res = "Ok" THEN 1 ELSE 2)>> \o Field("success", res = "Ok")
        \o When(res # "Ok", Field("errorMessage", ErrorId(res))))

\* results: one [address, result] for each value of the request.
WriteSettingsTokens(results) ==
    LET one(r) == <<Map(IF r.result = "Ok" THEN 2 ELSE 3)>> \o Field("address", r.address)
                  \o Field("success", r.result = "Ok")
                  \o When(r.result # "Ok", Field("errorMessage", ErrorId(r.result)))
    IN  Envelope("write.settings", <<Map(1)>> \o Pair("values",
            <<Array(Len(results))>> \o FlattenSeq([i \in DOMAIN results |-> one(results[i])])))

-----------------------------------------------------------------------------------
\* Every answer set() can give in this state, the failing store's included.
Answers == {Checked(k, v) : k \in Keys, v \in Offered} \cup {"StorageError"}

\* For every registry that adds, sets and updates can build, with the settings of
\* modules and groups interleaved in any order, the counts that the counting passes
\* announce are those that the writing passes fill, and every setting is written
\* exactly once; so are the results of one request, whatever each set() answered
\* (the write() of the three serializers).
ResponsesComplete ==
    LET device == DeviceTokens
        addresses == {i \in DOMAIN device : device[i].kind = "scalar" /\ device[i].name = "address"}
        answers == Answers
        one(r) == [address |-> 0, result |-> r]
    IN  /\ OneValue(device)
        /\ Cardinality(addresses) = Len(entries)
        /\ \A k \in Registered : Scalar("address", AddressOf(k)) \in ToSet(device)
        /\ \A r, q \in answers : OneValue(WriteSettingsTokens(<<one(r), one(q)>>))
        /\ \A r \in answers : OneValue(SuccessTokens("write.settings", r))
===================================================================================
