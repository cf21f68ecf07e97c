---------------------------- MODULE StoredSettingCodec ----------------------------
(* The record of one setting as bytes: magic, type and version, packed key,       *)
(* payload, checksum, fill up to the write alignment. A byte has ByteBits bits     *)
(* (8 in the code), the type number the low TypeBits (4), so that a small instance *)
(* has every field at its real place. Types is the table of SettingType without    *)
(* the floating types, whose payload is a copy of their bits.                      *)
EXTENDS Words, Sequences

CONSTANTS ByteBits, TypeBits, Types, Scopes, RecordMagic, RecordVersion

\* A scope has two bits of the key, at least one is left to the instance, and the
\* widest integer is eight bytes.
ASSUME WidthsAssumption == ByteBits \in 3..(MaxBits \div 8) /\ TypeBits \in 0..ByteBits

Byte == 0..(Power[ByteBits] - 1)
IntegerTypes == [bits : {size * ByteBits : size \in 1..8}, signed : BOOLEAN]
BoolType == [bits |-> 1, signed |-> FALSE]

ASSUME TypesAssumption ==
    Types \in Seq(IntegerTypes \cup {BoolType}) /\ Len(Types) <= Power[TypeBits]
ASSUME ScopesAssumption == Scopes \in 1..4
ASSUME PrefixAssumption ==
    RecordMagic \in Byte /\ RecordVersion \in 0..(Power[ByteBits - TypeBits] - 1)

InstanceBits == ByteBits - 2
LastScope == Scopes - 1          \* SettingScope::Motor

HeaderSize == 5
CrcSize == 2

\* Crc16 of the Math library: two bytes that change with any one byte before them.
Crc16(bytes) ==
    LET sum[i \in 0..Len(bytes)] == IF i = 0 THEN 0 ELSE (3 * sum[i - 1] + bytes[i] + 1) % Power[2 * ByteBits]
    IN  sum[Len(bytes)]

\* Faulty variant of LittleEndian: a byte is not cut to its width.
LittleEndianUncut(n, size) == [i \in 1..size |-> n \div Power[(i - 1) * ByteBits]]

\* writeLittleEndian and readLittleEndian.
LittleEndian(n, size) == [i \in 1..size |-> (n \div Power[(i - 1) * ByteBits]) % Power[ByteBits]]
Unsigned(bytes) ==
    LET from[i \in 1..(Len(bytes) + 1)] == IF i > Len(bytes) THEN 0 ELSE bytes[i] + from[i + 1] * Power[ByteBits]
    IN  from[1]

\* The bit_cast of writePayload and readPayload, in two's complement.
AsUnsigned(t, n) == n % Power[t.bits]
\* Faulty variant of AsSigned: the sign is lost.
AsSignless(t, u) == u
AsSigned(t, u) == IF t.signed /\ u >= Power[t.bits - 1] THEN u - Power[t.bits] ELSE u

TypeNumber(t) == CHOOSE i \in 0..(Len(Types) - 1) : Types[i + 1] = t
PayloadSize(t) == IF t.bits < ByteBits THEN 1 ELSE t.bits \div ByteBits
EncodedSize(t) == HeaderSize + PayloadSize(t) + CrcSize
StoredSize(t, alignment) ==
    LET rest == EncodedSize(t) % alignment
    IN  IF rest = 0 THEN EncodedSize(t) ELSE EncodedSize(t) + alignment - rest

\* A key is [id, scope, instance]; the third byte holds scope and instance.
Packable(key) == key.instance < Power[InstanceBits] /\ key.scope <= 3
PackKey(key) == LittleEndian(key.id, 2) \o <<key.instance + key.scope * Power[InstanceBits]>>
UnpackKey(bytes) ==
    [id |-> Unsigned(SubSeq(bytes, 1, 2)),
     scope |-> bytes[3] \div Power[InstanceBits], instance |-> bytes[3] % Power[InstanceBits]]

Answer(result) == [result |-> result]

Encode(key, value, alignment, erased, room) ==
    LET t == value.type
        body == <<RecordMagic, TypeNumber(t) + RecordVersion * Power[TypeBits]>> \o PackKey(key)
                \o LittleEndian(AsUnsigned(t, value.num), PayloadSize(t))
        record == body \o LittleEndian(Crc16(body), CrcSize)
        fill == [i \in 1..(StoredSize(t, alignment) - Len(record)) |-> erased]
    IN  IF alignment = 0 THEN Answer("InvalidValue")
        ELSE IF room < StoredSize(t, alignment) THEN Answer("BufferTooSmall")
        ELSE IF ~Packable(key) THEN Answer("InvalidValue")
        ELSE [result |-> "Ok", record |-> record \o fill]

\* The answer of decodeHeader() with the type in it.
DecodeHeader(bytes) ==
    IF Len(bytes) < HeaderSize \/ bytes[1] # RecordMagic THEN Answer("CorruptData")
    ELSE IF bytes[2] \div Power[TypeBits] # RecordVersion \/ bytes[2] % Power[TypeBits] >= Len(Types)
         THEN Answer("UnsupportedVersion")
    ELSE [result |-> "Ok", type |-> Types[(bytes[2] % Power[TypeBits]) + 1]]

\* Faulty variant of Intact: the checksum is not compared.
LongEnough(bytes, t) == Len(bytes) >= EncodedSize(t)

Intact(bytes, t) ==
    LET crcOffset == EncodedSize(t) - CrcSize
    IN  /\ Len(bytes) >= EncodedSize(t)
        /\ Unsigned(SubSeq(bytes, crcOffset + 1, crcOffset + CrcSize)) = Crc16(SubSeq(bytes, 1, crcOffset))

Decode(bytes) ==
    LET header == DecodeHeader(bytes)
        key == UnpackKey(SubSeq(bytes, 3, HeaderSize))
        raw == Unsigned(SubSeq(bytes, HeaderSize + 1, HeaderSize + PayloadSize(header.type)))
    IN  IF header.result # "Ok" THEN header
        ELSE IF ~Intact(bytes, header.type) THEN Answer("CorruptData")
        ELSE IF key.scope > LastScope \/ (header.type.bits = 1 /\ raw > 1) THEN Answer("InvalidValue")
        ELSE [result |-> "Ok", key |-> key,
              value |-> [type |-> header.type, num |-> AsSigned(header.type, raw)]]
===================================================================================
