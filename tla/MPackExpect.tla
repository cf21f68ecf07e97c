-------------------------------- MODULE MPackExpect --------------------------------
(* The expect functions of mpack (mpack-expect.c): a read that knows what it wants   *)
(* and flags mpack_error_type at anything else. got is what the function returns.    *)
(* A counted read of a str or bin leaves its bytes to the caller.                    *)
EXTENDS MPackReader

CONSTANTS
    NotUtf8,    \* the texts that mpack_utf8_check() refuses
    AsFloat(_)  \* the float that a number or a double is converted to, with loss

\* The C integer types: width bytes, signed or not.
Integer(width, signed) == [width |-> width, signed |-> signed]
Lowest(type) == IF type.signed THEN -(Weight[type.width] \div 2) ELSE 0
Highest(type) == IF type.signed THEN Weight[type.width] \div 2 - 1 ELSE Weight[type.width] - 1
IsNumber(tag) == tag.type \in {"uint", "int"}

Wrong(r) == FlagError(r, "type")
Require(r, Accepted(_)) == Then(r, LAMBDA s : IF Accepted(s.got) THEN s ELSE Wrong(s))
Convert(r, Result(_)) == Then(r, LAMBDA s : Returning(s, Result(s.got)))
ValueOf(tag) == tag.value

ExpectInt(r, type) ==
    LET Fit(tag) == IsNumber(tag) /\ tag.value \in Lowest(type)..Highest(type)
    IN  Convert(Require(ReadTag(r), Fit), ValueOf)
ExpectIntRange(r, type, min, max) == Require(ExpectInt(r, type), LAMBDA n : n \in min..max)
ExpectIntMatch(r, type, value) == ExpectIntRange(r, type, value, value)

\* Any number is converted to a float; a strict one takes the bits of a float only.
ToFloat(tag) == IF tag.type = "float" THEN tag ELSE AsFloat(tag)
ExpectFloat(r) ==
    Convert(Require(ReadTag(r), LAMBDA tag : IsNumber(tag) \/ tag.type \in {"float", "double"}), ToFloat)
ExpectFloatStrict(r, types) == Require(ReadTag(r), LAMBDA tag : tag.type \in types)

\* mpack_expect_native_u8() and the like: width bytes of the buffer.
ExpectNative(r, width) == Convert(ReadInPlace(r, width), Load)
TypeByte(r) == Convert(ReadInPlace(r, 1), Head)

ExpectNil(r) == Convert(Require(TypeByte(r), LAMBDA code : code = 192), LAMBDA code : Nil)
ExpectBool(r) == Convert(Require(TypeByte(r), LAMBDA code : code \in Bools), LAMBDA code : code = 195)
ExpectBoolMatch(r, value) == Require(ExpectBool(r), LAMBDA b : b = value)
ExpectTag(r, tag) == Require(ReadTag(r), LAMBDA t : t = tag)

------------------------------------------------------------------------------------
(* Maps and arrays: the count. Nil may stand for none. *)
ExpectCompound(r, type) == Convert(Require(ReadTag(r), LAMBDA tag : tag.type = type), ValueOf)
ExpectCompoundRange(r, type, min, max) == Require(ExpectCompound(r, type), LAMBDA n : n \in min..max)
ExpectCompoundOrNil(r, type, max) ==
    LET Countable(tag) == tag.type = "nil" \/ (tag.type = type /\ tag.value <= max)
    IN  Convert(Require(ReadTag(r), Countable), ValueOf)
\* The memory for the elements of an array; none of it for none of them.
ExpectArrayAlloc(r, max, orNil, canAllocate) ==
    Then(IF orNil THEN ExpectCompoundOrNil(r, "array", max) ELSE ExpectCompoundRange(r, "array", 0, max),
         LAMBDA c : IF c.got > 0 /\ ~canAllocate THEN FlagError(c, "memory") ELSE c)

------------------------------------------------------------------------------------
(* Strings and blobs: the length, or the bytes. *)
StrWidth(code) == CASE code = 217 -> 1 [] code = 218 -> 2 [] code = 219 -> 4 [] OTHER -> 0

ExpectStr(r) ==
    LET Length(t) ==
            IF t.got \in FixStrs THEN Returning(t, t.got - 160)
            ELSE IF StrWidth(t.got) > 0 THEN ExpectNative(t, StrWidth(t.got))
            ELSE Wrong(t)
    IN  Then(TypeByte(r), Length)
ExpectBin(r) == ExpectCompound(r, "bin")
ExpectStrMax(r, max) ==
    Then(ExpectStr(r), LAMBDA s : IF s.got > max THEN FlagError(s, "too_big") ELSE s)
ExpectLength(r, type) == IF type = "str" THEN ExpectStr(r) ELSE ExpectBin(r)

ExpectBuf(r, type, size) ==
    Then(ExpectLength(r, type),
         LAMBDA s : IF s.got > size THEN FlagError(s, "too_big") ELSE ReadNative(s, s.got))
\* A size that is not the one expected is a wrong type.
ExpectBinSizeBuf(r, size) ==
    Then(ExpectCompoundRange(r, "bin", size, size), LAMBDA s : ReadNative(s, size))

\* The checks of a text come after its bytes have been consumed.
NoNull(bytes) == \A i \in DOMAIN bytes : bytes[i] # 0
ExpectUtf8(r, size) == Require(ExpectBuf(r, "str", size), LAMBDA text : text \notin NotUtf8)
ExpectCstr(r, size) == Require(Then(ExpectStr(r), LAMBDA s : ReadCstr(s, size, s.got)), NoNull)
ExpectCstrAlloc(r, maxSize, canAllocate) ==
    Require(Then(ExpectStrMax(r, maxSize - 1), LAMBDA s : ReadAlloc(s, s.got, canAllocate)), NoNull)
ExpectBinAlloc(r, maxSize, canAllocate) ==
    Then(ExpectCompoundRange(r, "bin", 0, maxSize),
         LAMBDA s : IF s.got = 0 THEN Returning(s, <<>>) ELSE ReadAlloc(s, s.got, canAllocate))

\* The bytes one by one, each compared with a char: one of the upper half never
\* matches where char is signed.
MatchByte(r, expected) == Require(ExpectNative(r, 1), LAMBDA byte : byte = AsInt(<<expected>>))
MatchBytes(r, bytes) ==
    LET upTo[n \in 0..Len(bytes)] ==
            IF n = 0 THEN r ELSE Then(upTo[n - 1], LAMBDA s : MatchByte(s, bytes[n]))
    IN  upTo[Len(bytes)]
ExpectStrMatch(r, bytes) ==
    Then(Require(ExpectStr(r), LAMBDA length : length = Len(bytes)), LAMBDA s : MatchBytes(s, bytes))

------------------------------------------------------------------------------------
(* Keys: the place of what is read in a list, or the length of the list for none. *)
IndexIn(strings, bytes) ==
    IF \E i \in DOMAIN strings : strings[i] = bytes
    THEN (CHOOSE i \in DOMAIN strings : strings[i] = bytes /\ \A j \in 1..(i - 1) : strings[j] # bytes) - 1
    ELSE Len(strings)
ReadKey(r, strings) ==
    Convert(Then(ExpectStr(r), LAMBDA s : ReadInPlace(s, s.got)), LAMBDA bytes : IndexIn(strings, bytes))

ExpectEnum(r, strings) == Require(ReadKey(r, strings), LAMBDA index : index < Len(strings))
Unrecognised(r, count) == Returning(Discard(r), count)
ExpectEnumOptional(r, strings) ==
    LET Key(p) == IF p.got.type = "str" THEN ReadKey(p, strings) ELSE Unrecognised(p, Len(strings))
    IN  Then(r, LAMBDA s : Key(PeekTag(s)))
\* A key that was found before is an error.
Once(r, found, count) ==
    Then(r, LAMBDA s : IF s.got < count /\ s.got \in found THEN FlagError(s, "invalid") ELSE s)
ExpectKeyUint(r, found, count) ==
    LET Index(p) == Convert(ExpectInt(p, Integer(8, FALSE)), LAMBDA n : Lesser(n, count))
        Key(p) == IF p.got.type = "uint" THEN Index(p) ELSE Unrecognised(p, count)
    IN  Once(Then(r, LAMBDA s : Key(PeekTag(s))), found, count)
ExpectKeyCstr(r, keys, found) == Once(ExpectEnumOptional(r, keys), found, Len(keys))
====================================================================================
