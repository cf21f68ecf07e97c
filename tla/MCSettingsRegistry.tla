---------------------------- MODULE MCSettingsRegistry ----------------------------
EXTENDS DeviceResponse, TLC
CONSTANTS k1, k2, k3, k4, o1, o2
Narrow == [bits |-> 2, signed |-> FALSE]
Flag == [bits |-> 1, signed |-> FALSE]
Plain == [key |-> k1, type |-> Narrow, default |-> 0, min |-> {}, max |-> {}, step |-> {},
    options |-> <<>>, ids |-> <<>>, isRange |-> FALSE, readonly |-> FALSE, policy |-> "Frequent", apply |-> "Immediate",
    module |-> "drive", group |-> "motion", unit |-> ""]
Other == [Plain EXCEPT !.key = k2, !.min = {1}, !.default = 1, !.unit = "rpm"]
Bounded == [Plain EXCEPT !.max = {0}, !.module = "board", !.apply = "OnRestart"]
Added == [Plain EXCEPT !.key = k3, !.step = {2}, !.module = "board", !.group = "safety"]
Moved == [Plain EXCEPT !.policy = "LongTerm", !.type = Flag, !.default = 1, !.options = <<0, 1>>, !.ids = <<"off", "on">>, !.readonly = TRUE]
Ram == [Other EXCEPT !.policy = "Memory", !.apply = "OnRestart"]
Nameless == [Moved EXCEPT !.ids = <<"off", "">>]
MCFirmwares == {{Plain}, {Bounded, Added, Other}, {Nameless, Moved}}
MCOffered == {[type |-> Narrow, num |-> n] : n \in 0..1} \cup {[type |-> Flag, num |-> 1]}
Alike == Permutations(Objects)
\* Four settings held in RAM only, of two modules with two groups each in a
\* firmware that may add them in any order.
RamFirmwares == {{[Plain EXCEPT !.policy = "Memory", !.readonly = TRUE], [Ram EXCEPT !.group = "safety"],
    [Added EXCEPT !.policy = "Memory"],
    [Moved EXCEPT !.policy = "Memory", !.key = k4, !.module = "board"]}}
===================================================================================
