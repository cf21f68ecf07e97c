-------------------------------- MODULE MPackFormat --------------------------------
(* The MessagePack wire format of mpack: the bytes the encode functions store for   *)
(* a tag and what mpack_parse_tag() makes of them. A type byte has its real value;   *)
(* every other byte has Base values (256 in the code), and the limits up to which a  *)
(* value fits the type byte are constants, so that a small instance meets each       *)
(* format. A number is a TLA+ integer; a float is the number its bits are.           *)
EXTENDS Integers, Sequences

CONSTANTS
    Base,
    FixUint,    \* 127: the largest number in a type byte,
    FixInt,     \* -32: the smallest,
    FixStr,     \* 31: the longest string, and
    FixCount    \* 15: the largest count of an array or a map

ASSUME FixAssumption ==
    /\ Base \in 4..256 /\ Base % 2 = 0 /\ FixUint \in 0..127 /\ FixInt \in -32..-1
    /\ FixStr \in 0..31 /\ FixCount \in 0..15

\* A writer or a reader is a record with the error of its first failed call: a call
\* does its work only while there is none.
Then(state, Work(_)) == IF state.error = "ok" THEN Work(state) ELSE state

\* MPACK_EXTENSIONS is off: there are no ext tags.
Tag(type, value) == [type |-> type, value |-> value]
Number(n) == Tag(IF n < 0 THEN "int" ELSE "uint", n)

\* The formats with their value in the bytes after the type byte.
Format(type, code, width) == [type |-> type, code |-> code, width |-> width]
Formats == {
    Format("bin", 196, 1), Format("bin", 197, 2), Format("bin", 198, 4),
    Format("float", 202, 4), Format("double", 203, 8),
    Format("uint", 204, 1), Format("uint", 205, 2), Format("uint", 206, 4), Format("uint", 207, 8),
    Format("int", 208, 1), Format("int", 209, 2), Format("int", 210, 4), Format("int", 211, 8),
    Format("str", 217, 1), Format("str", 218, 2), Format("str", 219, 4),
    Format("array", 220, 2), Format("array", 221, 4), Format("map", 222, 2), Format("map", 223, 4)}

Reserved == 193
Extensions == 199..201 \cup 212..216

\* How many values the widest numbers have, and those of fewer bytes.
Weight[width \in 0..8] == IF width = 0 THEN 1 ELSE Base * Weight[width - 1]

\* mpack_store_*() and mpack_load_*(): big-endian, two's complement.
Store(n, width) == [i \in 1..width |-> (n \div Weight[width - i]) % Base]
Load(bytes) ==
    LET upTo[i \in 0..Len(bytes)] == IF i = 0 THEN 0 ELSE upTo[i - 1] * Base + bytes[i]
    IN  upTo[Len(bytes)]
AsInt(bytes) ==
    LET half == Weight[Len(bytes)] \div 2
        n == Load(bytes)
    IN  IF n >= half THEN (n - half) - half ELSE n

Fits(tag, f) ==
    /\ f.type = tag.type
    /\ IF tag.type = "int" THEN tag.value >= -(Weight[f.width] \div 2) ELSE tag.value < Weight[f.width]
\* The tags there are: a length or a count has 32 bits, a number 64.
Valid(tag) ==
    /\ CASE tag.type = "nil" -> tag.value = 0
         [] tag.type = "bool" -> tag.value \in {0, 1}
         [] tag.type = "int" -> tag.value \in Int /\ tag.value < 0
         [] OTHER -> tag.value \in Nat
    /\ tag.type \in {"nil", "bool"} \/ \E f \in Formats : Fits(tag, f)
Narrowest(tag) == CHOOSE f \in Formats : Fits(tag, f) /\ \A g \in Formats : Fits(tag, g) => f.width <= g.width

\* Each write function takes the narrowest format; a number below zero is an int,
\* any other an uint, whatever the C type of the argument.
Encode(tag) ==
    LET n == tag.value
    IN  CASE tag.type = "nil" -> <<192>>
          [] tag.type = "bool" -> <<194 + n>>
          [] tag.type = "uint" /\ n <= FixUint -> <<n>>
          [] tag.type = "int" /\ n >= FixInt -> <<256 + n>>
          [] tag.type = "map" /\ n <= FixCount -> <<128 + n>>
          [] tag.type = "array" /\ n <= FixCount -> <<144 + n>>
          [] tag.type = "str" /\ n <= FixStr -> <<160 + n>>
          [] OTHER -> LET f == Narrowest(tag) IN <<f.code>> \o Store(n, f.width)

\* The type bytes that hold a value themselves.
PositiveFixnums == 0..127
NegativeFixnums == 224..255
FixMaps == 128..143
FixArrays == 144..159
FixStrs == 160..191
Bools == {194, 195}
Single == PositiveFixnums \cup NegativeFixnums \cup FixMaps \cup FixArrays \cup FixStrs \cup Bools \cup {192}

\* mpack_parse_tag(): how many bytes it ensures once it has seen the type byte.
FormatOf(code) == CHOOSE f \in Formats : f.code = code
HeaderSize(code) ==
    IF code \in Single THEN 1 ELSE 1 + FormatOf(code).width

ParseTag(bytes) ==
    LET code == Head(bytes)
        f == FormatOf(code)
        field == SubSeq(bytes, 2, 1 + f.width)
    IN  CASE code \in PositiveFixnums -> Tag("uint", code)
          [] code \in NegativeFixnums -> Tag("int", code - 256)
          [] code \in FixMaps -> Tag("map", code - 128)
          [] code \in FixArrays -> Tag("array", code - 144)
          [] code \in FixStrs -> Tag("str", code - 160)
          [] code = 192 -> Tag("nil", 0)
          [] code \in Bools -> Tag("bool", code % 2)
          [] OTHER -> Tag(f.type, IF f.type = "int" THEN AsInt(field) ELSE Load(field))
====================================================================================
