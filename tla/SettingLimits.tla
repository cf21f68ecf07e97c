------------------------------ MODULE SettingLimits ------------------------------
(* What validateLocal() and validateDefinition() of SettingsRegistry accept, for *)
(* bool and the integer types. A type is [bits, signed]; bool is the one of one  *)
(* bit. A value is [type, num]. An optional is a set of at most one element, the *)
(* option table a sequence of numbers and one of the ids of each.                *)
EXTENDS Words, Sequences

CONSTANTS
    IntWidth,   \* bits of int, to which narrower operands are promoted
    MaxOptions

ASSUME IntWidthAssumption == IntWidth \in Nat \ {0}

Lowest(t) == IF t.signed THEN -(Power[t.bits - 1]) ELSE 0
Highest(t) == IF t.signed THEN Power[t.bits - 1] - 1 ELSE Power[t.bits] - 1
IsBool(t) == t.bits = 1

\* The origin of the steps: minimum.value_or(T{}).
Origin(d) == IF d.min = {} THEN 0 ELSE CHOOSE m \in d.min : TRUE

\* Faulty variant of Distance: no type wraps.
DistanceUnwrapped(t, n, origin) == (n % Power[t.bits]) - (origin % Power[t.bits])

\* Unsigned(value) - Unsigned(origin): computed in int when the type is narrower
\* than int, modulo the width of the type otherwise.
Distance(t, n, origin) ==
    LET raw == (n % Power[t.bits]) - (origin % Power[t.bits])
    IN  IF t.bits < IntWidth THEN raw ELSE raw % Power[t.bits]

\* A bool has no steps at all; an integer is a whole number of steps from the origin.
OffStep(d, n) ==
    \E s \in d.step : IsBool(d.type) \/ Distance(d.type, n, Origin(d)) % s # 0

Validate(d, c) ==
    IF c.type # d.type THEN "TypeMismatch"
    ELSE IF \E m \in d.min : c.num < m THEN "BelowMinimum"
    ELSE IF \E m \in d.max : c.num > m THEN "AboveMaximum"
    ELSE IF d.options # <<>> /\ \A i \in DOMAIN d.options : d.options[i] # c.num
         THEN "InvalidOption"
    ELSE IF OffStep(d, c.num) THEN "InvalidStep"
    ELSE "Ok"

\* The guards of validateDefinition(), in its order, each of which refuses.
ValidDefinition(d) ==
    LET accepts(n) == Validate(d, [type |-> d.type, num |-> n]) = "Ok"
    IN  /\ IsBool(d.type) => d.min \cup d.max \cup d.step = {} /\ ~d.isRange
        /\ Len(d.options) <= MaxOptions
        /\ \A m \in d.min, x \in d.max : m <= x
        /\ \A s \in d.step : s > 0
        /\ accepts(d.default)
        /\ \A i \in DOMAIN d.options :
              /\ d.ids[i] # "" /\ accepts(d.options[i])
              /\ \A j \in 1..(i - 1) : d.options[i] # d.options[j]
===================================================================================
