------------------------------- MODULE SettingValues -------------------------------
(* One value on its way: a definition is added, a candidate is set, its record is  *)
(* written to a buffer, perhaps damaged in one byte, and read back.                 *)
EXTENDS SettingLimits, StoredSettingCodec

CONSTANTS Definitions, Candidates, SettingKeys, Media

\* The types of C++: a number is one its type holds, an optional has at most one.
ValuesOf(t) == Lowest(t)..Highest(t)
OptionalOf(S) == {{}} \cup {{n} : n \in S}

ASSUME DefinitionsAssumption ==
    \A d \in Definitions :
        /\ d.type \in IntegerTypes \cup {BoolType}
        /\ d.default \in ValuesOf(d.type)
        /\ d.min \in OptionalOf(ValuesOf(d.type))
        /\ d.max \in OptionalOf(ValuesOf(d.type))
        /\ d.step \in OptionalOf(ValuesOf(d.type))
        /\ d.options \in Seq(ValuesOf(d.type))
ASSUME CandidatesAssumption ==
    \A c \in Candidates : \E i \in DOMAIN Types : \E n \in ValuesOf(Types[i]) : c = [type |-> Types[i], num |-> n]
ASSUME KeysAssumption ==
    SettingKeys \subseteq [id : 0..(Power[2 * ByteBits] - 1), scope : 0..LastScope, instance : Byte]
ASSUME MediaAssumption == Media \subseteq [alignment : Nat, erased : Byte, room : Nat]

VARIABLES def, phase, candidate, record, answer

vars == <<def, phase, candidate, record, answer>>

Nothing == [result |-> "none"]

Init ==
    /\ def \in Definitions
    /\ phase = "new"
    /\ candidate = Nothing /\ record = Nothing /\ answer = Nothing

Define ==
    /\ phase = "new"
    /\ phase' = IF ValidDefinition(def) THEN "added" ELSE "refused"
    /\ UNCHANGED <<def, candidate, record, answer>>

\* set() without the store: the candidate is checked against the definition.
Check(c) ==
    /\ phase = "added"
    /\ candidate' = c
    /\ phase' = Validate(def, c)
    /\ UNCHANGED <<def, record, answer>>

\* A medium is [alignment, erased, room].
Save(key, medium) ==
    /\ phase = "Ok"
    /\ LET e == Encode(key, candidate, medium.alignment, medium.erased, medium.room)
       IN  /\ record' = IF e.result = "Ok" THEN [key |-> key, bytes |-> e.record, whole |-> TRUE] ELSE Nothing
           /\ phase' = IF e.result = "Ok" THEN "saved" ELSE "refused"
    /\ UNCHANGED <<def, candidate, answer>>

\* One byte of the record reads differently.
Damage ==
    /\ phase = "saved" /\ record.whole
    /\ \E i \in DOMAIN record.bytes : \E b \in Byte \ {record.bytes[i]} :
           record' = [record EXCEPT !.bytes[i] = b, !.whole = FALSE]
    /\ UNCHANGED <<def, phase, candidate, answer>>

Load ==
    /\ phase = "saved"
    /\ answer' = Decode(record.bytes)
    /\ phase' = "loaded"
    /\ UNCHANGED <<def, candidate, record>>

Next ==
    \/ Define
    \/ \E c \in Candidates : Check(c)
    \/ \E key \in SettingKeys, medium \in Media : Save(key, medium)
    \/ Damage
    \/ Load

Spec == Init /\ [][Next]_vars
-----------------------------------------------------------------------------------
TypeOK ==
    /\ phase \in {"new", "added", "refused", "Ok", "TypeMismatch", "BelowMinimum", "AboveMaximum",
                  "InvalidOption", "InvalidStep", "saved", "loaded"}
    /\ candidate \in Candidates \cup {Nothing}
    /\ record # Nothing => record.key \in SettingKeys /\ record.bytes \in Seq(Byte)
    /\ answer # Nothing => phase = "loaded"

\* What the limits mean, in whole numbers.
Legal(d, c) ==
    /\ c.type = d.type
    /\ \A m \in d.min : m <= c.num
    /\ \A m \in d.max : c.num <= m
    /\ d.options = <<>> \/ \E i \in DOMAIN d.options : d.options[i] = c.num
    /\ \A s \in d.step : (c.num - Origin(d)) % s = 0

\* The step check subtracts unsigned images, in int or modulo the width: the result
\* is the true distance modulo the step only then (validateLocal(), line 201).
Faithful(d, c) ==
    \/ \A s \in d.step : Power[d.type.bits] % s = 0
    \/ (c.num < 0) = (Origin(d) < 0)
    \/ d.type.bits >= IntWidth /\ c.num >= Origin(d)

\* A definition that add() accepted admits exactly the candidates its limits mean,
\* wherever the unsigned subtraction of the step check is faithful; where it is
\* not, a legal candidate may be refused and one between two steps accepted.
LimitsExact ==
    /\ phase \in {"Ok", "saved", "loaded"} /\ Faithful(def, candidate) => Legal(def, candidate)
    /\ phase \in {"BelowMinimum", "AboveMaximum", "InvalidOption", "InvalidStep", "TypeMismatch"}
          /\ Faithful(def, candidate) => ~Legal(def, candidate)

\* An undamaged record reads back as the key and value it was made from, whatever
\* the alignment and the erased value fill it up with.
ReadsBack ==
    phase = "loaded" /\ record.whole =>
        answer = [result |-> "Ok", key |-> record.key, value |-> candidate]

\* A record with one byte damaged never reads back as another key or value. Damage
\* to the fill goes unnoticed; damage to the type may change where the checksum
\* is expected, and is then left to the odds of the checksum.
DamageSeen ==
    phase = "loaded" /\ ~record.whole /\ answer.result = "Ok" =>
        \/ answer.key = record.key /\ answer.value = candidate
        \/ PayloadSize(answer.value.type) # PayloadSize(candidate.type)
===================================================================================
