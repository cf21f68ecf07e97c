-------------------------------- MODULE MPackReader --------------------------------
(* The reader of mpack (mpack-reader.c) as operators on a record: the bytes left in  *)
(* its buffer, the source behind it and a sticky error. got is what the last call    *)
(* returned: a tag, or bytes.                                                        *)
(*                                                                                   *)
(* The source is memory ("data": all of it is in the buffer and there is no fill     *)
(* function), a fill function that hands out at most chunk bytes a call ("fill"), a  *)
(* seekable file ("file") or one that is not ("pipe").                               *)
EXTENDS MPackFormat, SequencesExt

CONSTANTS
    SmallFraction,  \* MPACK_READER_SMALL_FRACTION_DENOMINATOR, and
    SkipFraction    \* 16: which part of the buffer makes a read or a skip a big one

ASSUME FractionAssumption == {SmallFraction, SkipFraction} \subseteq Nat \ {0}

Lesser(a, b) == IF a < b THEN a ELSE b
After(bytes, n) == SubSeq(bytes, n + 1, Len(bytes))

NewReader(kind, size, chunk, source) ==
    LET inMemory == kind = "data"
    IN  [kind |-> kind, size |-> IF inMemory THEN 0 ELSE size, chunk |-> chunk, error |-> "ok",
         data |-> IF inMemory THEN source ELSE <<>>,
         source |-> IF inMemory THEN <<>> ELSE source, feof |-> FALSE, got |-> <<>>]

FlagError(r, error) == IF r.error = "ok" THEN [r EXCEPT !.error = error, !.data = <<>>] ELSE r
Returning(r, got) == [r EXCEPT !.got = got]

\* mpack_fill_range(): the fill function, called until there are at least min bytes.
\* Each call gets the smallest of chunk, what is asked for and what there is; one
\* that finds nothing is an error. fread() waits for all it is asked for.
FillRange(r, min, max) ==
    LET isFile == r.kind \in {"file", "pipe"}
        calls == (min + r.chunk - 1) \div r.chunk
        wanted == IF isFile THEN max ELSE Lesser(calls * r.chunk, max)
        count == Lesser(wanted, Len(r.source))
        x == [r EXCEPT !.source = After(@, count), !.feof = @ \/ (isFile /\ count < max)]
    IN  IF r.feof THEN FlagError(r, "eof")
        ELSE IF count < min THEN FlagError(x, IF isFile /\ count > 0 THEN "eof" ELSE "io")
        ELSE Returning(x, SubSeq(r.source, 1, count))

\* Faulty variant of EnsureBytes: it waits for a full buffer.
EnsureFull(r, count) ==
    LET free == r.size - Len(r.data)
    IN  IF count <= Len(r.data) THEN r
        ELSE IF r.kind = "data" THEN FlagError(r, "invalid")
        ELSE IF count > r.size THEN FlagError(r, "too_big")
        ELSE Then(FillRange(r, free, free), LAMBDA f : [f EXCEPT !.data = @ \o f.got])

\* At least count bytes into the buffer.
EnsureBytes(r, count) ==
    IF count <= Len(r.data) THEN r
    ELSE IF r.kind = "data" THEN FlagError(r, "invalid")
    ELSE IF count > r.size THEN FlagError(r, "too_big")
    ELSE Then(FillRange(r, count - Len(r.data), r.size - Len(r.data)),
              LAMBDA f : [f EXCEPT !.data = @ \o f.got])

\* Faulty variant of Refilled: what came with the rest is dropped.
RefilledOnly(r, f, rest) == [f EXCEPT !.got = r.data \o SubSeq(@, 1, rest), !.data = <<>>]

\* What the buffer held and the rest that a fill brought; what came with it stays.
Refilled(r, f, rest) == [f EXCEPT !.got = r.data \o SubSeq(@, 1, rest), !.data = After(f.got, rest)]

\* count bytes into memory of the caller, through the buffer or past it.
ReadNative(r, count) ==
    LET left == Len(r.data)
        rest == count - left
        small == rest <= r.size \div SmallFraction
    IN  IF rest <= 0 THEN [r EXCEPT !.got = SubSeq(r.data, 1, count), !.data = After(@, count)]
        ELSE IF r.error # "ok" THEN r
        ELSE IF r.kind = "data" THEN FlagError(r, "invalid")
        ELSE Then(FillRange([r EXCEPT !.data = <<>>], rest, IF small THEN r.size ELSE rest),
                  LAMBDA f : Refilled(r, f, rest))

\* Whole buffers first, the rest through the buffer.
SkipUsingFill(r, count) ==
    LET whole == (count - 1) \div r.size
        rest == count - whole * r.size
        upTo[n \in 0..whole] ==
            IF n = 0 THEN r ELSE Then(upTo[n - 1], LAMBDA s : FillRange(s, s.size, s.size))
    IN  Then(Then(upTo[whole], LAMBDA s : FillRange(s, rest, s.size)),
             LAMBDA f : [f EXCEPT !.data = After(f.got, rest)])

\* fseek() goes past the end of the file without an error.
Seek(r, count) == [r EXCEPT !.source = After(@, count), !.feof = FALSE]

\* Faulty variant of CanSeek: a pipe is taken for a file.
CanSeekAny(r) == r.kind # "data"
CanSeek(r) == r.kind = "file"

SkipBytes(r, count) ==
    LET rest == count - Len(r.data)
        emptied == [r EXCEPT !.data = <<>>]
    IN  IF r.error # "ok" THEN r
        ELSE IF rest <= 0 THEN [r EXCEPT !.data = After(@, count)]
        ELSE IF r.kind = "data" THEN FlagError(r, "invalid")
        ELSE IF CanSeek(r) /\ rest > r.size \div SkipFraction THEN Seek(emptied, rest)
        ELSE SkipUsingFill(emptied, rest)

ReadInPlace(r, count) ==
    Then(Then(r, LAMBDA s : EnsureBytes(s, count)),
         LAMBDA e : [e EXCEPT !.got = SubSeq(e.data, 1, count), !.data = After(@, count)])
ShouldReadInPlace(r, count) == r.size = 0 \/ count <= r.size \div SmallFraction

\* mpack_read_cstr(): into a buffer that has room for the bytes and a terminator.
ReadCstr(r, size, count) ==
    Then(r, LAMBDA s : IF count > size - 1 THEN FlagError(s, "too_big") ELSE ReadNative(s, count))

\* mpack_read_bytes_alloc(): canAllocate tells whether malloc() succeeds.
ReadAlloc(r, count, canAllocate) ==
    Then(r, LAMBDA s : IF canAllocate THEN ReadNative(s, count) ELSE FlagError(s, "memory"))

------------------------------------------------------------------------------------
(* Tags. A call in an error state returns nil. *)
Nil == Tag("nil", 0)
Parsed(r) ==
    LET Header(e) ==
            CASE Head(e.data) = Reserved -> FlagError(e, "invalid")
              [] Head(e.data) \in Extensions -> FlagError(e, "unsupported")
              [] OTHER -> EnsureBytes(e, HeaderSize(Head(e.data)))
    IN  Then(EnsureBytes(r, 1), Header)

PeekTag(r) ==
    LET Peeked(p) == Returning(p, IF p.error = "ok" THEN ParseTag(p.data) ELSE Nil)
    IN  Peeked(Then(r, Parsed))
ReadTag(r) == Then(PeekTag(r), LAMBDA p : [p EXCEPT !.data = After(@, HeaderSize(Head(@)))])

\* mpack_discard(), for one object after the other: an array or a map adds the
\* objects it holds. An error ends it.
Holding(tag) == CASE tag.type = "array" -> tag.value [] tag.type = "map" -> 2 * tag.value [] OTHER -> 0
HasBody(tag) == tag.type \in {"str", "bin"}

\* Each object read takes a byte at least: no more than all that are there are read,
\* and one that finds none.
DiscardObject(p) ==
    LET t == ReadTag(p.r)
    IN  [r |-> IF HasBody(t.got) THEN SkipBytes(t, t.got.value) ELSE t,
         objects |-> p.objects - 1 + Holding(t.got)]
Discard(r) ==
    LET upTo[n \in 0..(Len(r.data) + Len(r.source) + 1)] ==
            IF n = 0 THEN [r |-> r, objects |-> 1]
            ELSE LET p == upTo[n - 1] IN IF p.objects = 0 \/ p.r.error # "ok" THEN p ELSE DiscardObject(p)
    IN  upTo[Len(r.data) + Len(r.source) + 1].r
====================================================================================
