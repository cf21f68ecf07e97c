-------------------------------- MODULE MPackStream --------------------------------
(* A message on its way through mpack: a user writes it with the writer into one of  *)
(* the sinks, and what arrives, perhaps cut short, is the source of a reader. The    *)
(* user obeys the rules of the interface: what is opened gets the objects or bytes   *)
(* it was opened for and is closed in turn, a built map gets pairs.                  *)
EXTENDS MPackWriter, MPackExpect

CONSTANTS
    Sinks, Capacities, Lucks, Partials,   \* the writer's sink, its buffer and its failures
    Scalars,      \* tags without a body: nil, a bool, a number
    Texts,        \* what a str or a bin holds
    IntTypes,     \* the integer types a reader expects
    Counts,       \* how many elements an array, or pairs a map, is opened for
    Piece,        \* as many bytes at a time, or all that are left
    MaxTokens,    \* at most as many tokens in a message,
    MaxRead,      \* at most as many objects that hold no others in one that is read, and
    MaxRarely,    \* as many tokens in one that is read with the rarer expect functions
    MaxGrown,     \* no flush once the buffer has this size
    Sources, BufferSizes, Chunks          \* the reader's source

ASSUME StreamAssumption ==
    /\ Sinks \subseteq {"fixed", "stream", "file", "growable"}
    /\ Capacities \subseteq Nat /\ Lucks \subseteq Int /\ Partials \subseteq Nat
    /\ Scalars \subseteq [type : {"nil", "bool", "uint", "int", "float", "double"}, value : Int]
    /\ \A tag \in Scalars : Valid(tag)
    /\ IsFiniteSet(Texts) /\ \A text \in Texts : text \in Seq(0..(Base - 1)) /\ Len(text) < Weight[4]
    /\ \A count \in Counts : count \in Nat /\ count < Weight[4]
    /\ Piece \in Nat \ {0} /\ MaxTokens \in Nat /\ MaxTokens < Weight[4]
    /\ IntTypes \subseteq [width : {1, 2, 4, 8}, signed : BOOLEAN]
    /\ Sources \subseteq {"data", "fill", "file", "pipe"} /\ Chunks \subseteq Nat \ {0}
    /\ \A size \in BufferSizes : size \in Nat /\ size >= 9

VARIABLES
    writer,   \* the writer, Nothing once its output is the reader's source
    message,  \* what the user has written: a sequence of [tag, body]
    open,     \* what the user has open: [how, index (into message), left]
    reader,   \* the reader, Nothing before there is a source
    place,    \* how many tags of the message have been read,
    due,      \* how many bytes of the last one are still to be read
    asked,    \* what the last call should return: [outcome, answer, departure]
    cut       \* whether the end of the message is missing in the source

vars == <<writer, message, open, reader, place, due, asked, cut>>

Nothing == <<>>
Writing == writer # Nothing /\ writer.sink # "closed"
Reading == reader # Nothing
NoQuestion == [outcome |-> "ok", answer |-> <<>>, departure |-> "none"]

\* An object mpack does not know travels as its bytes.
Foreign == [tag |-> Tag("ext", 0), body |-> <<212, 1, 1>>]
Wire(tokens) ==
    FlattenSeq([i \in DOMAIN tokens |->
        (IF tokens[i].tag.type = "ext" THEN <<>> ELSE Encode(tokens[i].tag)) \o tokens[i].body])

Init ==
    /\ \E sink \in Sinks, size \in Capacities, luck \in Lucks, partial \in Partials :
        /\ sink # "fixed" => size >= MinBuffer
        /\ writer = NewWriter(sink, size, luck, partial)
    /\ message = <<>> /\ open = <<>>
    /\ reader = Nothing /\ place = 0 /\ due = 0 /\ asked = NoQuestion /\ cut = FALSE

------------------------------------------------------------------------------------
(* Writing. A build takes any number of elements: its left counts on below zero. *)
MayWrite == Writing /\ Len(message) < MaxTokens
            /\ (open # <<>> => Last(open).how # "bytes" /\ Last(open).left # 0)
Counted == IF open = <<>> THEN open ELSE [open EXCEPT ![Len(open)].left = @ - 1]
Opening(how, left) == Append(Counted, [how |-> how, index |-> Len(message) + 1, left |-> left])
Say(tag, body) == message' = Append(message, [tag |-> tag, body |-> body])
Unread == UNCHANGED <<reader, place, due, asked, cut>>

WriteAScalar(tag) ==
    /\ MayWrite
    /\ writer' = WriteTag(writer, tag)
    /\ Say(tag, <<>>) /\ open' = Counted /\ Unread

WriteAForeign ==
    /\ MayWrite
    /\ writer' = WriteObjectBytes(writer, Foreign.body)
    /\ Say(Foreign.tag, Foreign.body) /\ open' = Counted /\ Unread

WriteAStr(text) ==
    /\ MayWrite
    /\ writer' = WriteStr(writer, text)
    /\ Say(Tag("str", Len(text)), text) /\ open' = Counted /\ Unread

StartBytes(type, text) ==
    /\ MayWrite
    /\ writer' = WriteTag(writer, Tag(type, Len(text)))
    /\ Say(Tag(type, Len(text)), text)
    /\ open' = Opening("bytes", Len(text)) /\ Unread

Unwritten == IF open = <<>> THEN 0 ELSE Last(open).left
WriteSomeBytes(count) ==
    /\ Writing /\ open # <<>> /\ Last(open).how = "bytes" /\ count \in 1..Unwritten
    /\ LET body == Last(message).body
           from == Len(body) - Last(open).left
       IN  writer' = WriteBytes(writer, SubSeq(body, from + 1, from + count))
    /\ open' = [open EXCEPT ![Len(open)].left = @ - count]
    /\ UNCHANGED message /\ Unread

FinishBytes ==
    /\ Writing /\ open # <<>> /\ Last(open).how = "bytes" /\ Last(open).left = 0
    /\ open' = Front(open)
    /\ UNCHANGED <<writer, message>> /\ Unread

Start(type, count) ==
    /\ MayWrite
    /\ writer' = StartCompound(writer, Tag(type, count))
    /\ Say(Tag(type, count), <<>>)
    /\ open' = Opening("start", Holding(Tag(type, count))) /\ Unread

Finish ==
    /\ Writing /\ open # <<>> /\ Last(open).how = "start" /\ Last(open).left = 0
    /\ writer' = FinishCompound(writer)
    /\ open' = Front(open)
    /\ UNCHANGED message /\ Unread

Build(type) ==
    /\ MayWrite
    /\ writer' = BuildCompound(writer, type)
    /\ Say(Tag(type, 0), <<>>)
    /\ open' = Opening("build", -1) /\ Unread

Complete ==
    /\ Writing /\ open # <<>> /\ Last(open).how = "build"
    /\ LET built == Last(open)
           elements == -1 - built.left
           isMap == message[built.index].tag.type = "map"
       IN  /\ isMap => elements % 2 = 0
           /\ message' = [message EXCEPT ![built.index].tag.value = IF isMap THEN elements \div 2 ELSE elements]
    /\ writer' = CompleteCompound(writer)
    /\ open' = Front(open) /\ Unread

\* Every flush of a growable writer doubles its buffer: MaxGrown bounds that.
Flush ==
    /\ Writing /\ writer.current = 0 /\ writer.sink # "fixed" /\ writer.size < MaxGrown
    /\ writer' = FlushMessage(writer)
    /\ UNCHANGED <<message, open>> /\ Unread

\* The user may give up in the middle of a message, with an error.
GiveUp ==
    /\ Writing /\ open # <<>>
    /\ writer' = Flag(writer, "data")
    /\ UNCHANGED <<message, open>> /\ Unread

Closed(w) == [sink |-> "closed", fixed |-> w.sink = "fixed", size |-> w.size,
              error |-> w.error, out |-> w.out, heap |-> w.heap]
Destroy ==
    /\ Writing /\ (open = <<>> \/ writer.error # "ok")
    /\ writer' = Closed(DestroyWriter(writer))
    /\ UNCHANGED <<message, open>> /\ Unread

------------------------------------------------------------------------------------
(* Reading. *)
IsClosed == writer # Nothing /\ writer.sink = "closed"
Arrive(kind, size, chunk) ==
    /\ IsClosed /\ writer.error = "ok"
    /\ Cardinality({i \in DOMAIN message : Holding(message[i].tag) = 0}) <= MaxRead
    /\ \E count \in 0..Len(writer.out) :
        /\ reader' = NewReader(kind, size, chunk, SubSeq(writer.out, 1, count))
        /\ cut' = (count < Len(writer.out))
    /\ writer' = Nothing
    /\ UNCHANGED <<message, open, place, due, asked>>

Ready == Reading /\ reader.error = "ok"
AtTag == Ready /\ due = 0 /\ place < Len(message)
Next1 == message[place + 1]
Foreigner == Next1.tag.type = "ext"
\* What mpack-expect.h promises of the call. departure tells the two promises from the
\* rest that the code does not keep: to match a text that is the same ("match"), and to
\* accept a str for a bin ("bin").
Promise(departure, outcome, answer) ==
    asked' = [outcome |-> outcome, answer |-> answer, departure |-> departure]
Ask(outcome, answer) == Promise("none", outcome, answer)
\* A call that takes the tag, and body bytes of it when it takes those too.
Take(r, bytes) ==
    /\ reader' = r
    /\ place' = place + 1
    /\ due' = IF HasBody(Next1.tag) /\ ~bytes THEN Next1.tag.value ELSE 0
    /\ UNCHANGED <<writer, message, open, cut>>

ReadATag ==
    /\ AtTag
    /\ Ask(IF Foreigner THEN "unsupported" ELSE "ok", Next1.tag)
    /\ Take(ReadTag(reader), FALSE)

PeekATag ==
    /\ AtTag
    /\ Ask(IF Foreigner THEN "unsupported" ELSE "ok", Next1.tag)
    /\ reader' = PeekTag(reader)
    /\ UNCHANGED <<writer, message, open, place, due, cut>>

\* The calls for the bytes of a str or a bin.
BytesBy(how, count) ==
    CASE how = "copy" -> ReadNative(reader, count)
      [] how = "in place" -> ReadInPlace(reader, count)
      [] how = "either" -> IF ShouldReadInPlace(reader, count) THEN ReadInPlace(reader, count)
                           ELSE ReadNative(reader, count)
      [] how = "skip" -> [SkipBytes(reader, count) EXCEPT !.got = <<>>]
ReadSomeBytes(how, count) ==
    /\ Ready /\ count \in 1..due
    /\ LET body == message[place].body
           from == Len(body) - due
           refused == how = "in place" /\ reader.kind # "data" /\ count > reader.size
       IN  Ask(IF refused THEN "too_big" ELSE "ok",
               IF how = "skip" THEN <<>> ELSE SubSeq(body, from + 1, from + count))
    /\ reader' = BytesBy(how, count)
    /\ due' = due - count
    /\ UNCHANGED <<writer, message, open, place, cut>>

\* How many tokens the object at the place has: each one is an object and asks for
\* those it holds.
Extent(from) ==
    LET left == Len(message) - from + 1
        owed[n \in 0..left] == IF n = 0 THEN 1 ELSE owed[n - 1] - 1 + Holding(message[from + n - 1].tag)
    IN  CHOOSE n \in 1..left : owed[n] = 0 /\ \A k \in 1..(n - 1) : owed[k] > 0
DiscardAnObject ==
    /\ AtTag
    /\ LET size == Extent(place + 1)
           known == \A i \in (place + 1)..(place + size) : message[i].tag.type # "ext"
       IN  /\ Ask(IF known THEN "ok" ELSE "unsupported", <<>>)
           /\ place' = place + size
    /\ reader' = [Discard(reader) EXCEPT !.got = <<>>]
    /\ UNCHANGED <<writer, message, open, due, cut>>

------------------------------------------------------------------------------------
(* Reading by expectation: the type expected, or mpack_error_type. *)
Unsupported == IF Foreigner THEN "unsupported" ELSE "type"
ExpectANumber(type) ==
    /\ AtTag
    /\ LET fits == IsNumber(Next1.tag) /\ Next1.tag.value >= Lowest(type) /\ Next1.tag.value <= Highest(type)
       IN  Ask(IF fits THEN "ok" ELSE Unsupported, Next1.tag.value)
    /\ Take(ExpectInt(reader, type), FALSE)

ExpectANil ==
    /\ AtTag
    /\ Ask(IF Next1.tag.type = "nil" THEN "ok" ELSE "type", Nil)
    /\ Take(ExpectNil(reader), FALSE)

ExpectABool(value) ==
    /\ AtTag
    /\ Ask(IF Next1.tag = Tag("bool", IF value THEN 1 ELSE 0) THEN "ok" ELSE "type", value)
    /\ Take(ExpectBoolMatch(reader, value), FALSE)

ExpectACompound(type, max) ==
    /\ AtTag
    /\ LET tag == Next1.tag
           none == tag.type = "nil"
       IN  Ask(IF none \/ (tag.type = type /\ tag.value <= max) THEN "ok" ELSE Unsupported,
               IF none THEN 0 ELSE tag.value)
    /\ Take(ExpectCompoundOrNil(reader, type, max), FALSE)

ExpectAText(size) ==
    /\ AtTag
    /\ LET text == Next1.body
       IN  Ask(IF Next1.tag.type # "str" THEN "type"
               ELSE IF Len(text) > size - 1 THEN "too_big"
               ELSE IF ~NoNull(text) THEN "type" ELSE "ok", text)
    /\ Take(ExpectCstr(reader, size), TRUE)

IfStr(departure) == IF Next1.tag.type = "str" THEN departure ELSE "none"
ExpectABlob(size) ==
    /\ AtTag
    /\ LET blob == Next1.body
       IN  Promise(IfStr("bin"), IF Next1.tag.type \notin {"bin", "str"} THEN Unsupported
                                 ELSE IF Len(blob) > size THEN "too_big" ELSE "ok", blob)
    /\ Take(ExpectBuf(reader, "bin", size), TRUE)

\* A key of a list, or none: then the object is gone, whatever it was.
ExpectAKey(keys, found) ==
    /\ AtTag /\ Holding(Next1.tag) = 0
    /\ LET isStr == Next1.tag.type = "str"
           index == IF isStr THEN IndexIn(keys, Next1.body) ELSE Len(keys)
       IN  Ask(IF isStr /\ reader.kind # "data" /\ Len(Next1.body) > reader.size THEN "too_big"
               ELSE IF index \in found /\ index < Len(keys) THEN "invalid"
               ELSE IF Foreigner THEN "unsupported" ELSE "ok", index)
    /\ Take(ExpectKeyCstr(reader, keys, found), TRUE)

\* The expect functions that differ from those above in what they check; only short
\* messages (MaxRarely) are read with them. Each is the reader after the call, what the
\* call should return, and whether it takes the bytes too.
Keys == SetToSeq(Texts)
Either(condition) == IF condition THEN "ok" ELSE Unsupported
Departing(departure, by, outcome, answer, bytes) ==
    AtTag /\ Len(message) <= MaxRarely /\ Promise(departure, outcome, answer) /\ Take(by, bytes)
Expecting(by, outcome, answer, bytes) == Departing("none", by, outcome, answer, bytes)

ExpectARange(type) ==
    Expecting(ExpectIntRange(reader, type, 0, 1),
        Either(IsNumber(Next1.tag) /\ Next1.tag.value \in 0..1), Next1.tag.value, FALSE)
ExpectAMatch(value) ==
    Expecting(ExpectIntMatch(reader, Integer(8, value < 0), value), Either(Next1.tag = Number(value)), value, FALSE)
ExpectATag(tag) == Expecting(ExpectTag(reader, tag), Either(Next1.tag = tag), tag, FALSE)
ExpectAFloat(isStrict) ==
    LET strict == Either(Next1.tag.type = "float")
        lax == Either(IsNumber(Next1.tag) \/ Next1.tag.type \in {"float", "double"})
    IN  IF isStrict THEN Expecting(ExpectFloatStrict(reader, {"float"}), strict, Next1.tag, FALSE)
        ELSE Expecting(ExpectFloat(reader), lax, ToFloat(Next1.tag), FALSE)

ExpectAllocated(max, orNil, canAllocate) ==
    LET tag == Next1.tag
        none == orNil /\ tag.type = "nil"
        array == tag.type = "array" /\ tag.value <= max
        count == IF none THEN 0 ELSE tag.value
    IN  Expecting(ExpectArrayAlloc(reader, max, orNil, canAllocate),
            IF array /\ count > 0 /\ ~canAllocate THEN "memory" ELSE Either(none \/ array), count, FALSE)

\* A text that is refused has been read.
ExpectARareText(max, canAllocate) ==
    LET text == Next1.body
        fits == Next1.tag.type = "str" /\ Len(text) <= max
        Outcome(valid) == IF Next1.tag.type = "str" /\ ~fits THEN "too_big" ELSE IF fits /\ valid THEN "ok" ELSE "type"
    IN  \/ Expecting(ExpectUtf8(reader, max), Outcome(text \notin NotUtf8), text, TRUE)
        \/ Expecting(ExpectCstrAlloc(reader, max + 1, canAllocate),
               IF fits /\ ~canAllocate THEN "memory" ELSE Outcome(NoNull(text)), text, TRUE)
ExpectARareBlob(max, canAllocate) ==
    LET blob == Next1.body
        fits == Next1.tag.type = "bin" /\ Len(blob) <= max
        exact == Next1.tag.type \in {"bin", "str"} /\ Len(blob) = max
    IN  \/ Departing(IfStr("bin"), ExpectBinSizeBuf(reader, max), Either(exact), blob, TRUE)
        \/ Expecting(ExpectBinAlloc(reader, max, canAllocate),
               IF fits /\ blob # <<>> /\ ~canAllocate THEN "memory" ELSE Either(fits), blob, TRUE)

\* A byte of the upper half is no char of that value.
ExpectThisText(text) ==
    LET same == Next1.tag.type = "str" /\ Next1.body = text
        upper == \E i \in DOMAIN text : AsInt(<<text[i]>>) < 0
    IN  Departing(IF same /\ upper THEN "match" ELSE "none", [ExpectStrMatch(reader, text) EXCEPT !.got = <<>>],
            IF same THEN "ok" ELSE "type", <<>>, TRUE)

ExpectOneOf(keys) ==
    LET index == IF Next1.tag.type = "str" THEN IndexIn(keys, Next1.body) ELSE Len(keys)
        long == Next1.tag.type = "str" /\ reader.kind # "data" /\ Len(Next1.body) > reader.size
    IN  Expecting(ExpectEnum(reader, keys),
            IF long THEN "too_big" ELSE IF index < Len(keys) THEN "ok" ELSE "type", index, TRUE)
ExpectAnUnusedKey(found, count) ==
    LET number == IF Next1.tag.type = "uint" THEN Lesser(Next1.tag.value, count) ELSE count
    IN  /\ AtTag /\ Holding(Next1.tag) = 0
        /\ Expecting(ExpectKeyUint(reader, found, count),
               IF number < count /\ number \in found THEN "invalid" ELSE Either(~Foreigner), number, TRUE)

------------------------------------------------------------------------------------

Next ==
    \/ \E tag \in Scalars : WriteAScalar(tag)
    \/ WriteAForeign
    \/ \E text \in Texts : WriteAStr(text)
    \/ \E text \in Texts : StartBytes("bin", text)
    \/ \E count \in {Piece, Unwritten} : WriteSomeBytes(count)
    \/ FinishBytes
    \/ \E type \in {"array", "map"}, count \in Counts : Start(type, count)
    \/ Finish
    \/ \E type \in {"array", "map"} : Build(type)
    \/ Complete
    \/ Flush
    \/ GiveUp
    \/ Destroy
    \/ \E kind \in Sources, size \in BufferSizes, chunk \in Chunks : Arrive(kind, size, chunk)
    \/ ReadATag
    \/ PeekATag
    \/ \E how \in {"copy", "in place", "either", "skip"}, count \in {Piece, due} : ReadSomeBytes(how, count)
    \/ DiscardAnObject
    \/ \E type \in IntTypes : ExpectANumber(type)
    \/ ExpectANil
    \/ \E value \in BOOLEAN : ExpectABool(value)
    \/ \E type \in {"array", "map"}, max \in Counts : ExpectACompound(type, max)
    \/ \E size \in BufferSizes : ExpectAText(size) \/ ExpectABlob(size)
    \/ \E found \in {{}, {0}} : ExpectAKey(Keys, found)
    \/ \E type \in IntTypes : ExpectARange(type)
    \/ \E tag \in Scalars : ExpectATag(tag) \/ (IsNumber(tag) /\ ExpectAMatch(tag.value))
    \/ \E isStrict \in BOOLEAN : ExpectAFloat(isStrict)
    \/ \E max \in Counts, orNil \in BOOLEAN, canAllocate \in BOOLEAN : ExpectAllocated(max, orNil, canAllocate)
    \/ \E text \in Texts, canAllocate \in BOOLEAN :
        ExpectARareText(Len(text), canAllocate) \/ ExpectARareBlob(Len(text), canAllocate)
    \/ \E text \in Texts : ExpectThisText(text)
    \/ ExpectOneOf(Keys)
    \/ ExpectAnUnusedKey({1}, 2)

Spec == Init /\ [][Next]_vars

------------------------------------------------------------------------------------
(* What the stream promises. *)

\* A writer that is destroyed without an error has passed on the message and nothing
\* else: every tag with its final count, every byte once and in its place, whatever
\* buffers, flushes and builder pages they went through (mpack_writer_destroy()).
WrittenWhole == IsClosed /\ writer.error = "ok" => writer.out = Wire(message)

\* Nothing wrong is ever passed on: what a sink has got, after any failure too, is the
\* beginning of the message (mpack_writer_flag_error() makes an error final). A fixed
\* buffer is the user's: after an error it may hold what fitted behind what did not.
OnlyTheMessage ==
    writer # Nothing /\ (IsClosed /\ writer.fixed => writer.error = "ok")
        => IsPrefix(writer.out, Wire(message))

\* A fixed buffer refuses a message only when the message is longer than the buffer.
FitsNeverRefused ==
    IsClosed /\ writer.fixed /\ writer.error = "too_big" => Len(Wire(message)) > writer.size

\* When the writer is gone, so is every builder page and every buffer it allocated.
MemoryReturned == IsClosed => writer.heap = 0

\* A call of the reader that succeeds returns what the writer's user put there, a number
\* or a double that is read as a float as that float, and succeeds only where it should
\* (no bytes lost, repeated or out of place between the buffer, the fill function and
\* the caller's memory).
Delivered == Reading /\ reader.error = "ok" => asked.outcome = "ok" /\ reader.got = asked.answer

\* For a whole message a call ends as the interface promises.
AsPromised(departure) == Reading /\ ~cut /\ asked.departure = departure => reader.error = asked.outcome

\* The reader reports an error for a whole message only where the caller asked for
\* something else than what is there, and then the right one; the two promises that the
\* code does not keep are the next two properties.
NoFalseError == AsPromised("none")

\* "Reads a string, ensuring it exactly matches the given string": a text matches itself
\* (mpack_expect_str_match()).
MatchesItself == AsPromised("match")

\* "For compatibility, this will accept if the underlying type is string or binary"
\* (mpack_expect_bin_buf(), mpack_expect_bin_size_buf()).
StrTakenForBin == AsPromised("bin")

\* Nobody reads a message to its end when the end never arrived. (A skip in a file
\* seeks past the end without noticing: that source is left out.)
CutNoticed ==
    Reading /\ cut /\ place = Len(message) /\ due = 0 /\ reader.kind # "file" => reader.error # "ok"
====================================================================================
