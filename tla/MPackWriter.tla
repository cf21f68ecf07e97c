-------------------------------- MODULE MPackWriter --------------------------------
(* The writer of mpack (mpack-writer.c) as operators on a record: a buffer with a    *)
(* sink behind it, a sticky error, and the builder, which diverts what is written    *)
(* into pages until the counts of the open maps and arrays are known.                *)
(*                                                                                   *)
(* A page is the sequence of the bytes behind its header; a build occupies BuildSize *)
(* of them. The current page and the latest build are the last ones.                 *)
EXTENDS MPackFormat, SequencesExt

CONSTANTS
    MinBuffer,   \* MPACK_WRITER_MINIMUM_BUFFER_SIZE
    PageSize,    \* MPACK_BUILDER_PAGE_SIZE
    PageHeader,  \* sizeof(mpack_builder_page_t)
    BuildSize,   \* sizeof(mpack_build_t)
    Alignment    \* MPACK_BUILD_ALIGNMENT

ASSUME SizeAssumption ==
    /\ {MinBuffer, PageSize, PageHeader, BuildSize, Alignment} \subseteq Nat \ {0}
    /\ MinBuffer >= 9 /\ MinBuffer > FixStr
    /\ Alignment \in 1..PageHeader
    /\ PageSize >= PageHeader + Alignment - 1 + BuildSize + MinBuffer

Least(a, b) == IF a < b THEN a ELSE b

Flag(w, error) == IF w.error = "ok" THEN [w EXCEPT !.error = error] ELSE w
\* Faulty variant of Left: the last byte of the buffer is never used.
LeftBelow(w) == w.size - Len(w.buffer) - 1
Left(w) == w.size - Len(w.buffer)
Put(w, bytes) == [w EXCEPT !.buffer = @ \o bytes]

\* An allocation or a write of the sink: the one after luck successful ones fails
\* (none does when luck is negative).
Fails(w) == w.luck = 0
Spent(w) == [w EXCEPT !.luck = IF @ > 0 THEN @ - 1 ELSE @]

\* heap counts the allocations that nobody has freed or been given.
NewWriter(sink, size, luck, partial) ==
    LET owns == sink \in {"file", "growable"}
        w == [sink |-> sink, size |-> size, luck |-> luck, partial |-> partial, error |-> "ok",
              buffer |-> <<>>, out |-> <<>>, heap |-> 0,
              pages |-> <<>>, builds |-> <<>>, current |-> 0, stash |-> <<>>]
    IN  IF ~owns THEN w
        ELSE IF Fails(w) THEN [Flag(w, "memory") EXCEPT !.sink = "fixed", !.size = 0]
        ELSE [Spent(w) EXCEPT !.heap = 1]

\* A flush function that fails may have passed some of the bytes on.
Send(w, bytes) ==
    IF Fails(w) THEN Flag([w EXCEPT !.out = @ \o SubSeq(bytes, 1, Least(w.partial, Len(bytes)))], "io")
    ELSE [Spent(w) EXCEPT !.out = @ \o bytes]
\* mpack_growable_writer_flush() keeps the data in the buffer and grows it.
Doubled(size, need) ==
    LET doubled[n \in Nat] == IF n >= need THEN n ELSE doubled[2 * n] IN doubled[2 * size]
Grow(w, extra) ==
    IF Fails(w) THEN Flag(w, "memory")
    ELSE [Put(Spent(w), extra) EXCEPT !.size = Doubled(w.size, Len(w.buffer) + Len(extra))]

FlushUnchecked(w) ==
    IF w.sink # "growable" THEN Send([w EXCEPT !.buffer = <<>>], w.buffer)
    ELSE IF w.buffer = <<>> THEN w ELSE Grow(w, <<>>)
FlushData(w, bytes) == IF w.sink = "growable" THEN Grow(w, bytes) ELSE Send(w, bytes)

------------------------------------------------------------------------------------
(* The builder's pages. *)
BytesUsed(page) == PageHeader + Len(page)
Align(used) == ((used + Alignment - 1) \div Alignment) * Alignment

AddPage(w) ==
    IF Fails(w) THEN Flag(w, "memory")
    ELSE [Spent(w) EXCEPT !.pages = Append(@, <<>>), !.heap = @ + 1]
ApplyWrites(w) ==
    [w EXCEPT !.pages[Len(w.pages)] = @ \o w.buffer, !.builds[Len(w.builds)].bytes = @ + Len(w.buffer)]
ConfigureBuffer(w) ==
    IF w.error # "ok" THEN w
    ELSE [w EXCEPT !.buffer = <<>>, !.size = PageSize - BytesUsed(Last(w.pages))]
BuilderFlush(w) == ConfigureBuffer(AddPage(ApplyWrites(w)))

\* A map counts pairs: its keys are the elements that come when there is no half.
CountElement(build) ==
    IF build.type = "map" /\ ~build.half THEN [build EXCEPT !.half = TRUE]
    ELSE [build EXCEPT !.half = FALSE, !.count = @ + 1]
\* Faulty variant of TrackElement: what a plain array or map holds is counted too.
TrackNested(w) ==
    IF w.current = 0 THEN w ELSE [w EXCEPT !.builds[w.current] = CountElement(@)]
TrackElement(w) ==
    IF w.current = 0 \/ w.builds[w.current].nested # 0 THEN w
    ELSE [w EXCEPT !.builds[w.current] = CountElement(@)]

------------------------------------------------------------------------------------
(* Bytes into the buffer: whole (a tag or a short string) or in pieces. *)
\* Faulty variant of Ensure: a writer in an error state flushes again.
EnsureAnyway(w, count) ==
    IF w.current # 0 THEN BuilderFlush(w)
    ELSE IF w.sink = "fixed" THEN Flag(w, "too_big")
    ELSE FlushUnchecked(w)
Ensure(w, count) ==
    IF w.error # "ok" THEN w
    ELSE IF w.current # 0 THEN BuilderFlush(w)
    ELSE IF w.sink = "fixed" THEN Flag(w, "too_big")
    ELSE Then(FlushUnchecked(w), LAMBDA f : IF Left(f) < count THEN Flag(f, "io") ELSE f)

WriteEncoded(w, bytes) ==
    IF Left(w) >= Len(bytes) THEN Put(w, bytes)
    ELSE Then(Ensure(w, Len(bytes)), LAMBDA e : Put(e, bytes))

\* mpack_write_native_big() in a builder: as many bytes as fit the page, then another
\* page for the rest; here one byte after the other.
WriteByte(w, byte) ==
    LET roomy == IF Left(w) = 0 THEN BuilderFlush(w) ELSE w
    IN  Then(roomy, LAMBDA f : Put(f, <<byte>>))
WritePages(w, bytes) ==
    LET upTo[n \in 0..Len(bytes)] ==
            IF n = 0 THEN w ELSE Then(upTo[n - 1], LAMBDA x : WriteByte(x, bytes[n]))
    IN  upTo[Len(bytes)]

WriteNative(w, bytes) ==
    IF Left(w) >= Len(bytes) THEN Put(w, bytes)
    ELSE IF w.error # "ok" THEN w
    ELSE IF w.current # 0 THEN WritePages(w, bytes)
    ELSE IF w.sink = "fixed" THEN Flag(w, "too_big")
    ELSE Then(FlushUnchecked(w),
              LAMBDA f : IF Len(bytes) > Left(f) THEN FlushData(f, bytes) ELSE Put(f, bytes))

------------------------------------------------------------------------------------
(* The calls of the writer's user. *)
WriteTag(w, tag) == WriteEncoded(TrackElement(w), Encode(tag))
WriteBytes(w, bytes) == WriteNative(w, bytes)
WriteObjectBytes(w, bytes) == WriteNative(TrackElement(w), bytes)
WriteStr(w, bytes) ==
    LET t == TrackElement(w)
        tag == Encode(Tag("str", Len(bytes)))
    IN  IF Len(bytes) <= FixStr THEN WriteEncoded(t, tag \o bytes)
        ELSE WriteNative(WriteEncoded(t, tag), bytes)

Nest(w, by) == IF w.current = 0 THEN w ELSE [w EXCEPT !.builds[w.current].nested = @ + by]
StartCompound(w, tag) == Nest(WriteTag(w, tag), 1)
FinishCompound(w) == Nest(w, -1)

FlushMessage(w) ==
    IF w.error # "ok" THEN w
    ELSE IF w.current # 0 \/ w.sink = "fixed" THEN Flag(w, "bug")
    ELSE IF w.buffer = <<>> THEN w
    ELSE FlushUnchecked(w)

\* A build that no page could be had for is written past the end of the full page, where
\* the code has no memory (the answer of add_page() is not looked at). The model lets the
\* page grow by it: the error is set by then, and nothing reads the pages again.
BuildEnd(w) == Align(BytesUsed(Last(w.pages))) + BuildSize
BeginBuilder(w) == AddPage([w EXCEPT !.stash = [buffer |-> w.buffer, size |-> w.size]])
PlaceBuild(w, type) ==
    LET placed == [w EXCEPT
            !.pages[Len(w.pages)] = @ \o [i \in 1..(BuildEnd(w) - BytesUsed(@)) |-> 0],
            !.builds = Append(@, [page |-> Len(w.pages), offset |-> BuildEnd(w) - BuildSize,
                parent |-> w.current, type |-> type, count |-> 0, bytes |-> 0, half |-> FALSE, nested |-> 0]),
            !.current = Len(w.builds) + 1]
    IN  ConfigureBuffer(IF PageSize - BuildEnd(w) < MinBuffer THEN AddPage(placed) ELSE placed)
BuildCompound(w, type) ==
    LET Begun(t) == IF t.current # 0 THEN ApplyWrites(t) ELSE BeginBuilder(t)
        Place(b) == PlaceBuild(IF BuildEnd(b) > PageSize THEN AddPage(b) ELSE b, type)
    IN  Then(w, LAMBDA v : Then(Begun(TrackElement(v)), Place))

\* mpack_builder_resolve(): walks the pages and writes each build's tag and the bytes
\* that follow it, freeing the pages on the way. at is [page, offset].
\* Faulty variant of FreePage: the page is left.
KeepPage(w) == w
FreePage(w) == [w EXCEPT !.heap = @ - 1]

\* The bytes behind a build's header: from its page as many as there are, the rest
\* from the pages behind it. Each full page that is left behind is freed.
CopyPage(c, pages) ==
    LET from == c.offset - PageHeader
        step == Least(BytesUsed(pages[c.page]) - c.offset, c.left)
    IN  [w |-> WriteNative(c.w, SubSeq(pages[c.page], from + 1, from + step)),
         page |-> c.page, offset |-> c.offset + step, left |-> c.left - step]
TurnPage(c) == [c EXCEPT !.w = FreePage(@), !.page = @ + 1, !.offset = PageHeader]
CopyPages(w, pages, at, left) ==
    LET upTo[n \in 0..(Len(pages) - at.page)] ==
            IF n = 0 THEN CopyPage([w |-> w, page |-> at.page, offset |-> at.offset, left |-> left], pages)
            ELSE LET c == upTo[n - 1] IN IF c.left = 0 THEN c ELSE CopyPage(TurnPage(c), pages)
    IN  upTo[Len(pages) - at.page]

BuildAt(builds, at) == CHOOSE i \in DOMAIN builds : builds[i].page = at.page /\ builds[i].offset = at.offset

\* The next build is behind the bytes of the last one, or else on the next page.
NextBuild(c, pages) ==
    LET here == Align(c.offset) + BuildSize <= PageSize
        page == IF here THEN c.page ELSE c.page + 1
        offset == Align(IF here THEN c.offset ELSE PageHeader)
        w == IF here THEN c.w ELSE FreePage(c.w)
        none == page <= Len(pages) /\ offset + BuildSize > BytesUsed(pages[page])
    IN  [w |-> IF none THEN FreePage(w) ELSE w, page |-> page, offset |-> offset,
         more |-> page <= Len(pages) /\ ~none]
WriteBuild(c, pages, builds) ==
    LET build == builds[BuildAt(builds, c)]
        tagged == WriteEncoded(c.w, Encode(Tag(build.type, build.count)))
        content == [page |-> c.page, offset |-> c.offset + BuildSize]
    IN  NextBuild(CopyPages(tagged, pages, content, build.bytes), pages)
WriteBuilds(w, pages, builds) ==
    LET first == [w |-> w, page |-> 1, offset |-> Align(PageHeader), more |-> TRUE]
        upTo[n \in 0..Len(builds)] ==
            IF n = 0 THEN first
            ELSE LET c == upTo[n - 1] IN IF c.more THEN WriteBuild(c, pages, builds) ELSE c
    IN  upTo[Len(builds)].w

Restored(w) ==
    [w EXCEPT !.buffer = w.stash.buffer, !.size = w.stash.size, !.stash = <<>>,
              !.current = 0, !.pages = <<>>, !.builds = <<>>]
Resolve(w) == WriteBuilds(Restored(w), w.pages, w.builds)

CompleteCompound(w) ==
    LET build == w.builds[w.current]
        a == ApplyWrites(w)
    IN  IF w.error # "ok" THEN w
        ELSE IF build.half \/ build.nested # 0 THEN Flag(w, "bug")
        ELSE IF build.parent # 0 THEN ConfigureBuffer([a EXCEPT !.current = build.parent])
        ELSE Resolve(a)

\* mpack_writer_destroy() with the sink's teardown. The growable writer's data goes
\* to its user, shrunk when much of the buffer is free; the fixed buffer is the
\* user's all along.
GrowableTeardown(w) ==
    LET shrink == Len(w.buffer) < w.size \div 2
        freed == [w EXCEPT !.heap = @ - 1, !.buffer = <<>>]
    IN  IF w.error # "ok" THEN freed
        ELSE IF shrink /\ Fails(w) THEN Flag(freed, "memory")
        ELSE [freed EXCEPT !.out = w.buffer]
DestroyWriter(w) ==
    LET r == IF w.current = 0 THEN w
             ELSE [Restored(Flag(w, "bug")) EXCEPT !.heap = @ - Len(w.pages)]
    IN  CASE r.sink = "growable" -> GrowableTeardown(r)
          [] r.sink = "fixed" -> [r EXCEPT !.out = r.buffer]
          [] OTHER -> LET f == IF r.error = "ok" /\ r.buffer # <<>> THEN Send(r, r.buffer) ELSE r
                                       closed == IF Fails(f) THEN Flag(f, "io") ELSE f
                      IN  IF r.sink = "file" THEN [closed EXCEPT !.heap = @ - 1] ELSE f
====================================================================================
