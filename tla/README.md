# IntegralConfig: formal models

IntegralConfig keeps the typed settings of a motion controller and speaks MessagePack
with its configuration tool. This directory holds TLA+ models of it, the configurations
that check them with TLC, and proofs checked by TLAPS. Paths below are relative to the
repository; `PROJECT.json` maps each definition to the lines it stands for.

## 1. The system

| component | state | operations | interacts with |
|---|---|---|---|
| `SettingsStore` (`include/Setting/SettingsStore.h`) | two banks on the device; in RAM `_open`, `_activeBank`, `_generation`, `_indices`, `_nextWriteOffset` | `open`, `store`, `load`; inside them `append`, `compact`, `clearBank`, `scanBank`, salvage | calls `StorageDevice` (read, write, erase, flush) and `StoredSettingCodec`; called by the registry |
| `StoredSettingCodec` (`src/Settings/StoredSettingCodec.cpp`) | none | sizes, `encode`, `decode`, `decodeHeader`, `packKey`, `unpackKey` | called by the store and the serializers |
| `SettingsRegistry` (`include/Setting/SettingsRegistry.h`) | `_entries`, `_size`, two store pointers, owned definitions, the callers' live values | `add` (three forms), `set`, `value`, `visit`, `applyAtStartup`, `configure...Store` | loads from and stores to a `SettingsStore`; runs `apply` callbacks |
| `MPackObjectBase` (`src/MPackObjectBase.cpp`) | the members of an object, `_decodedMembers` (which of them it owns) | `read`, `write`, release | mpack; `createObject` of the subclass |
| `Message`, `Configuration`, `SettingValues` | tables of members | `registerMembers`, `createObject` | `MPackObjectBase`, `MessagePayloadRegistry` |
| `MessagePayloadRegistry` | table of 256 entries | `registerType`, `create` | `Message::createObject` |
| `ConfigurationController` | the connection, one callback | `init`, `setOnReceived`, `write`, `loop` | reads a `Message`, runs the callback |
| response serializers | none | `write` | several passes of the registry's `visit` |
| mpack (vendored) | writer: buffer, error, builder pages; reader: buffer, position, error | tags, bytes, `start`/`finish`, `build`/`complete`, flush; read, peek, skip, discard, `expect_*` | flush and fill functions, `malloc`, `FILE` |
| IntegralCoreUtilities (`StorageDevice`, `Crc16`), IntegralCommunication | outside this repository | | |

The code is sequential: it runs no threads. What is hard in it is time cut short. The
store's calls are sequences of device operations, and power may fail between any two of
them and inside any of them; a device operation may fail, before, after or half-way
through its effect; and all that the next power-up has is what the device then holds.
In the registry it is the disagreement of RAM, store and hardware after failures and
across firmware updates. In the message code it is the ownership of decoded members when
decoding stops half-way, the order of keys in a message, and the bytes that mpack holds
back in buffers and pages while a sink, a source or an allocation fails.

What makes each part correct:

* **store**: a `store()` that answered Ok survives every later power loss and failure; a
  `store()` that did not answer Ok changed all of its setting or nothing; no other setting
  is ever touched; the RAM index agrees with what a restart would find; opening always
  works and always terminates.
* **codec**: `decode` inverts `encode` for every key and value; a damaged record does not
  read back as another value; sizes are positive and monotone.
* **registry**: RAM holds a valid value for every registered setting; after a restart and
  the same `add` calls it holds the value of the last successful `set`; `apply` sees only
  what RAM holds; owned objects are released exactly once.
* **message decoding**: a member is owned exactly when decoding allocated it; whatever the
  input, release frees each allocation once; the payload object matches the opcode.
* **serializers**: the counts written agree with the elements written.
* **mpack**: a message that is written without error arrives byte for byte; nothing wrong
  is ever passed on; what is read is what was written; a cut is noticed; memory is freed.

`PROJECT.json` "hazards" names where in the code each of these can go wrong.

## 2. Plan

Order, most important behaviour first. Done: 1 to 15. Left: 16.

1. `SettingsLog`: the banks, and the pure functions that read them.
2. `SettingsStore`: the store, one action per device operation, under power loss and faults.
3. `SettingsKV` (abstract map) and `SettingsDurability` (refinement, restart agreement).
4. `SettingsStoreProofs`: the inductive invariant, for every value of the constants.
5. `SettingLimits` and `SettingsRegistry` over stores that keep the promise of
   `SettingsKV`: add, set, apply, restart with a changed definition table, failing stores.
   In `DeviceResponseProofs` its invariants for every value of the constants.
6. `StoredSettingCodec` and `SettingValues`: the record as bytes, and a value's way from
   its definition through the limits and the record back.
7. `MessageClasses`, `MPackObjectBase`, `MessagePayloadRegistry`, `ConfigurationController`:
   members and ownership over values that arrive one at a time.
8. `MessagePackTokens`, `DeviceResponse`: counts and elements of the passes over `visit`.
9. `MPackFormat`, `MPackWriter`, `MPackReader`, `MPackExpect`, `MPackStream`: a message's
   way through mpack's writer, a sink, a source and the reader.
10. `SettingsRestart`, more of `SettingsStoreProofs`: what a restart finds on a device, and that
    `SettingsStore` implements `SettingsKV`, for every value of the constants.
11. `ConfigurationControllerProofs`: ownership of decoded members, the
    payload's class and the registry of classes, likewise.
12. `MessagePackTokensProofs`: the number of values due along a sequence of tokens; with it,
    that the counting pass of `write()` agrees with the writing pass (`SentWhole`), and in
    `DeviceResponseProofs` the same of the serializers (`ResponsesComplete`).
13. `Words`, `SettingValuesProofs`: the limits (`LimitsExact`) and the codec's round trip
    (`ReadsBack`), for bytes and integers of every width.
14. `MPackWriterProofs`, `MPackStreamProofs`: the writer, its buffer, its sinks and the builder's pages
    (`WrittenWhole` and the three other properties of the writer).
15. `MPackReaderProofs`: the reader, its buffer, its sources and the calls that expect something
    (`Delivered`, `NoFalseError`, `CutNoticed`).
16. Left: the two stores of the registry as instances of `SettingsKV`.

## 3. The model of the store

`SettingsLog <- SettingsStore`, `SettingsLog <- SettingsRestart`, and both
`<- SettingsDurability <- MCSettingsStore`; `SettingsDurability` instantiates `SettingsKV`.
The proofs are `SettingsDurability <- SettingsStoreProofs`: first those about one run of the
store, then those about its restart.

**Device.** A bank is a function from positions to cells. Position 0 is the header,
positions 1 to `BankSize[b]` are units of the device's alignment, the grain at which
writes are atomic. `SizeOf[v]` is `storedSize`, in units. A cell is erased, a header
(with its generation), a *type* cell (a record's type under an erased magic byte, what
`append` writes first), a fragment of a record, or a mangled header. A record decodes when
all its units are present: the CRC is abstracted by that, so CRC collisions are ignored.
`HeadSize` is what `scanBank` learns from the first two bytes of a record. A fragment from
the middle of a record, met where a record should start, reads as `CorruptData`; in the
code such bytes may also read as `UnsupportedVersion`. Both refuse the bank.

**Alignment.** A header is 8 bytes and a record head 2. At alignment 8 and above both are
one unit and cannot be torn: `MangledHeaders = {}`. At 2 or 4 a torn header fails its CRC:
`"damaged"`. At 1, with an erased value that is not 0, the magic may be there without the
version byte: `"unversioned"`. At 1 the record head is still atomic in effect: the prefix
writes only the type byte and the record then adds the magic.

**A torn write** (`Parts`) leaves any subset of its units. For a write that goes through
in order this is more than can happen, so what holds here holds for such devices too.
Devices are write-through: a write is on the device when it returns, and flush can only
add an error. A device that buffers and reorders the unflushed prefix and record is
outside the model (see the hazards).

**Actions.** `open()` is `OpenCall`, `InspectHeader`, `ScanRecord` (one loop iteration),
then one of `RefuseBanks`, `SelectValid` (then `Recover` when the other bank is damaged),
`SelectBlank` then `Format`, or `SelectSalvage`, `ScanRecord` again, `Salvage`, and the
steps of `compact()`. `store()` is `StoreCall`, `Append` (the checks), `AppendPrefix`,
`AppendRecord`; when the checks find no room, `compact()`: `ClearDestination`,
`CopyRecord` for each indexed key (write, flush, read back, verify), `Seal` (the header,
`_activeBank`, `_generation`), `Rescan` (one iteration each), and `Append` again. `load()`
is `Load`. `pc` says which device operation comes next; `InFlight` is the write it will
issue, so that `PowerLoss` and `WriteError` can cut it short. `_indices` is a function of
the key: the order of the array, which decides only the order of copying, is left open.
`PowerLoss` may come at any point and is followed by a new object and `open()`.

**Faults** are chosen by the constant `Faults`: reads that fail, writes that fail without
effect, half-way, or whose flush fails, a read error in the last scan of a compaction, a
header that decays. Each run says which it allows.

Left out: `validRegions` and the `InvalidArgument` answers (the constants describe a valid
geometry) and records wider than the I/O buffer (no such type exists).

**Abstract specification.** `SettingsKV` is a map with `Begin`, `StoreOk`, `StoreFails`,
`Load`, `PowerLoss`... `SettingsRestart` defines `RecoverableFrom`, the settings a fault-free
restart would load, as a function of a device alone: it runs `open()`'s own selection and
scan over the contents. `Recoverable` is that of `flash`. `Refines` is `KV!Spec` under `kv <- Recoverable`. So durability is
not about what RAM remembers but about what the bytes say at every moment.

## 4. The models of the other parts

### The registry

`SettingLimits <- SettingsRegistry <- DeviceResponse <- MCSettingsRegistry`, and
`DeviceResponse <- DeviceResponseProofs`, which has the proofs about both.

`entries` is `_entries[0.._size-1]`; an entry has its definition, the place of its value
(`context`), what that place held when `addImpl()` asked the store (`start`: the default, or
the initial value of the owned form) and the object the registry has to delete (`object`).
`memory` is what the places hold: the variable that the caller has for each definition, and
the `OwnedSetting` objects, `None` where there is none. `applied` is the last value each
`apply` callback got.

`AddImpl` is `addImpl()` with its three ways out: `Refused` before anything is written,
`NoAnswer` (there is no store, or `load()` answers StorageError) when the default or the
initial value stands in the variable already, and `Register`. The form of `add()` with a
variable of the caller is one call of it (`Add`). The owned form is taken in its steps, with
`adding` for its two locals, the object and the result: `AddOwned` allocates (or finds no
memory, and nothing happens), `AddOwnedImpl` calls, `Adopt` writes the object into the last
entry, `GiveBack` deletes it. Nothing else runs meanwhile, as the registry is not shared; the
steps are there so that `OwnedByEntries` looks at every point in between and counts the
owners of each object: it fails if a way out of `addImpl()` leaves an entry behind,
or `add()` gives an object to an entry and deletes it, or the destructor misses one.

A store is a map `kv[p]` with the promise `SettingsKV` makes and `SettingsDurability`
shows of the real one; it survives `Restart`, as does nothing else. `ready` are the stores
whose `open()` succeeded. A call may fail: `load()` with StorageError (`NoAnswer`), with
NotOpen or CorruptData, which `add()` takes for an absent value (second half of
`Register`); `store()` without effect or after its record is durable (`SetFails`).
`unsure` are the keys of which the last store call left it open what the store holds. It
is bookkeeping, not state of the code: `RestartAgrees` would be false of them, in the code
too, and says so by excepting them and only them.

`Restart` is a power loss or a clean end followed by a boot, possibly of another firmware
out of `Firmwares`. The three firmwares of the run differ in what matters to a stored
value: a narrower maximum, a changed type, policy and options, a key that is gone, a key
that cannot be packed, a definition that is refused (an option without an id). `LiveValid` excepts what nobody validates: the initial value of the
owned form of `add()` (`SettingsRegistry.h:337-353`), which `value()` and
`applyAtStartup()` hand on until the first `set()`.

Not in the state: the third form of `add()`, which only wraps the first; `value()`,
`find()`, `visit()`, which read.

### Limits, codec and a value's way

`Words <- SettingLimits`, `StoredSettingCodec <- SettingValues <- MCSettingValues`, and
`SettingValues <- SettingValuesProofs`.

`Validate` and `ValidDefinition` are `validateLocal()` and `validateDefinition()` for bool
and the integer types, guard by guard. The step test is the interesting one:
`Unsigned(value) - Unsigned(origin)` is computed in `int` when the type is narrower than
`int` and wraps otherwise, so `Distance` depends on `IntWidth`. `LimitsExact` compares the
answer with what the limits mean in whole numbers, `Legal`, wherever the subtraction is
`Faithful`: steps that divide the range of the type, or value and origin of one sign, or a
wide type above its origin. Outside it (a range across zero with an odd step, in a type
narrower than `int`; an origin above the value) the code may refuse a legal value or let
one between two steps pass; no document promises otherwise, so this stays a note.

`Encode` and `Decode` are records byte by byte: magic, type and version in one byte, key
packed with scope and instance in one byte, payload little-endian in two's complement,
checksum, fill. Bytes have 4 bits in the run, so that the type number has 2, the instance
2, and every boundary is reached. The checksum (of another repository) is a sum with one
property: any one changed byte changes it.

### Messages

`MessageClasses`, `MessagePackTokens <- MPackObjectBase`; `MPackObjectBase`,
`MessagePayloadRegistry <- ConfigurationController <- MCMessages`. The proofs are
`MessagePackTokens <- MessagePackTokensProofs`; `ConfigurationController`,
`MessagePackTokensProofs <- ConfigurationControllerProofs`.

`Classes` is the table that `registerMembers()` fills for each class. A tree of objects is
a set of *places*, paths of member names and slot numbers: `memory` says what a non-null
pointer points at, `owned` is the set of `_decodedMembers` bits, `heap` the bag of
allocated blocks. A block counted twice or missing in `heap` is a double free or a leak.
`Freed` is what a delete reaches: the destructor of an object follows a member only when
its bit is set, an array deletes all its slots. `Allocate` overwrites a pointer without
freeing what was there, as the code does.

`loop()` is `Receive`, then `ReadNext` for one value at a time, `Close` at the end of a map
or array, `Deliver` when the reader saw no error, the callback (`Write` or `Return`), and
`Destroy`. `stack` holds the calls of `readObject()` and `readArray()` that are open. Each
value is chosen when it is read: of the right kind, nil, of no use (`Wrong`: another kind,
broken, or the input is over), repeated keys, unknown keys, bad keys. So the input is every
input up to the bounds, broken off anywhere. `late` and `repeated` are bookkeeping for
`OrderRespected` and `PayloadMatches`. One numeric type stands for all (they differ in the
expect function), with `fits` for a value out of range. Registration goes on before and
between messages, by the library (`RegisterDefaults`) and the application.

Writing is not recursive in the model. `WriteMessage` goes depth by depth: what is written
of an object or an array holds `Pending` tokens in place of the values inside, and the next
pass replaces each of them by its own tokens. The order of the result is that of the
recursive calls; an object deeper than `MaxDepth` is an error, as in `write()`.

Three things are assumed of the classes an application adds. A member name is that of an
inline object in every class or in none: paths then tell how a block is reached. No two
members of one class have one name: of two, `getMember()` would only ever find the first.
Both are in `TableAssumption`. And no member, element or payload is itself a `Message`.

`PayloadMatches` leaves out messages in which an object repeats a key: there the payload
is of the class of the opCode that came before it, and a later opCode pairs it with
another name. `BitsHaveObjects` says that no bit survives the object that holds it.

### Serializers

`DeviceResponse` gives the tokens of each `write()`, every map and array with the count
that the code's counting pass computes, over the states of the registry. `OneValue` reads
them back with the number of values still due: they are one MessagePack value only if each
count is met. A key that
`packKey()` refuses is written with address 0 (`addressOf()`); such settings share it.

### mpack

`MPackFormat <- MPackWriter`, `MPackFormat <- MPackReader <- MPackExpect`; `MPackStream`
takes both, and `MCMPackStream` its constants. The proofs are
`MPackStream <- MPackWriterProofs <- MPackStreamProofs <- MPackReaderProofs`.

A writer is a record and each function of `mpack-writer.c` an operator on it, so that a
function that calls others is their composition; `Then` is the sticky error: a call does
its work only while there is none. Sinks are a fixed buffer, a flush function (`stream`),
a `FILE`, a growable buffer. `luck` is how many allocations or sink writes succeed before
one fails, and a failing sink may have taken `partial` bytes. The builder keeps pages: a
sequence of bytes behind a header, with a build (a `mpack_build_t`) in front of each
element whose count is not known yet; `CompleteCompound` of the outermost one resolves
them by walking the pages, as `mpack_builder_resolve()` does. `heap` counts allocations.
The loops of the code (bytes over pages, builds over pages, objects within an object) are
recursive functions on the number of rounds: `upTo[n]` is the state after n of them, and
`WriteByte`, `CopyPage`, `TurnPage`, `WriteBuild`, `DiscardObject`, `MatchByte` are one
round each. `Weight[n]` is the number of values that n bytes have.

A reader has a buffer, an error and a source: data in memory, a fill function (which
returns at most a chunk), a `FILE` that seeks, a pipe that does not. `BytesBy` are the ways to
take the bytes of a string, `Discard` the whole object. `MPackExpect` has the expect
functions, by type and range instead of one per C type.

`MPackStream` has a user who obeys the interface: it writes any message up to
`MaxTokens`, plain or built, may flush between, may give up; what arrived, possibly cut
anywhere, is then the source of a reader, which is asked in every way at every place.
`asked` is what the call should have answered: `outcome` and `answer` derived from what was
written and from what `mpack-expect.h` says of the call. `departure` names the two promises
of that header which the code does not keep, so that `NoFalseError` is about all the others
and `MatchesItself` and `StrTakenForBin` about these. Where a number or a double is read as a
float the answer is the float it is converted to, `AsFloat`, a constant of `MPackExpect` of
which nothing is assumed: the header warns that precision is lost. The run has one that
maps several numbers to one.

Bytes have 4 values except the type byte, and the fixed limits of the format (a number in
the type byte, short strings, short arrays) are 1: so numbers, lengths and counts as small
as 300 meet formats with none, 1, 2, 4 and 8 bytes behind the type byte, and buffers of 5
or 9 bytes overflow inside a tag, inside a body and between them.

## 5. Runs

The store: two keys, two values of different record size (so that a narrow record can
overwrite a wide one), 2 settings of capacity, generations modulo 4. Two keys are enough
for one setting to be damaged by a store of another and for a full index; bank sizes of 2
to 4 units make every second or third store compact; with 4 generations the signed
comparison wraps within a few compactions and modulus 4 still tells successor from
predecessor. Keys are symmetric. `any_fault` uses capacity 1, so that the index overflows.

| run | bounds | properties | shows |
|---|---|---|---|
| `power_loss` | alignment 8, banks 3 and 2, read and write errors | `DInv`, `ReopenAgrees`, `GenerationsAdjacent`, `OpenableStays`, `Refines` | the store keeps its promise, at every cut, also when banks differ in size and compaction itself runs out of room |
| `torn_headers` | alignment 4, banks 4 and 3, headers can be torn | `DInv`, `ReopenAgrees`, `SettingsStayReachable`, `Refines` | the same with torn headers, torn erases and recovery of a damaged bank |
| `any_fault` | alignment 8, banks 2 and 2, every fault, every mangled header | `TypeOK`, `IndexSound`, `LiveRecordsKept` | what no device can break; also the theorems of section 6 |
| `reopens` | alignment 8, banks 2 and 2, power loss only | `Reopens` | open() terminates and stays possible |
| `registry` | 3 firmwares, 3 keys of which one cannot be packed, capacity 2, 2 objects, two stores, values 0 and 1 of one type and 1 of another | `TypeOK`, `LiveValid`, `RestartAgrees`, `AppliedCurrent`, `OwnedByEntries`, `OnlyStaleKeysBlock` | RAM, stores and hardware agree, and every owned object has one owner, through failures, restarts and updates |
| `responses` | 4 settings of 2 modules and 2 groups, added in any order | `ResponsesComplete` | counting and writing passes agree |
| `values` | types of 1, 4 and 8 bits, `int` of 8; every combination of absent and boundary limits; alignments 0, 1 and 4 | `TypeOK`, `LimitsExact`, `ReadsBack`, `DamageSeen` | limits mean what they say where the arithmetic is faithful; a record reads back, and one damaged byte is seen |
| `messages` | 6 keys, depth 3, maps of 4, arrays of 2, 3 registrations of the application, 4 table entries | `IInv`, `TypeOK`, `NothingLost`, `BitsHaveObjects`, `PayloadMatches`, `SentWhole`, `NeverRebound` | decoding that ends anywhere leaks nothing and frees nothing twice |
| `mpack` | 3 tokens, 2 readable objects, buffers of 5 and 9, pages of 24 | `WrittenWhole`, `OnlyTheMessage`, `FitsNeverRefused`, `MemoryReturned`, `Delivered`, `NoFalseError`, `CutNoticed` | a message goes through unchanged or with an error |

Why these bounds are enough. `registry`: capacity 2 with 3 keys lets stale keys fill a
store; two firmwares after one another can each invalidate what the other stored; two
objects let one be owned while another is allocated, refused and deleted. `messages`:
a depth of 3 is a payload with an array of objects, and one deeper is refused; 6 keys
allow an envelope of three, an object with members and a repetition of any key; the
registered class has an array of arrays of strings and an inline object, the two shapes
the library's own payloads have not. `mpack`: three tokens nest to depth 3 or straddle one
buffer end each; a page holds two builds or one build and some bytes, so that the third
goes to another page. Deadlock is checked, except in `values` and the runs of
`MCMPackStream`, in which a value or a message reaches the end of its way and nothing is left to do.

`Reopens` is the only liveness property. It assumes weak fairness of the steps of a
running call (a processor that goes on executing) and of the caller's reopening while the
store is closed (firmware calls `open()` at start). It says: if power failures cease, the
store is open infinitely often. No fairness is asked of stores, loads or faults. The other
parts are calls that return: the bounds of their loops are in the data.

Three runs end in a counterexample; `PROJECT.json` "findings" quotes what the repository
says of the case.

| run | the code does |
|---|---|
| `record_flush` | a failed flush of a record leaves it behind at the write offset; a narrower record over it is followed by its tail, which a scan takes for corruption, and `open()` fails |
| `payload_order` | a message with another `opCode` after its payload, or with a nil payload before both keys, is read without error and handed to the callback, where the README says such input is rejected |
| `builder_32bit` | the sizes of a 32-bit target: writing leaves a page when less than 32 bytes remain, resolving only when the next 24-byte build does not fit; of three nested built arrays two arrive. On 64-bit targets the build is 32 bytes or more and the rules agree (`mpack` has such sizes). The program does not use the builder |

### Two promises of the header that the code does not keep

Both are invariants of `MPackStream` that no run lists; TLC refutes each within seconds when
it is put in place of the invariants of `MPack.cfg`. `NoFalseError` excepts exactly these
calls. The program makes neither of them; its tests match ASCII texts.

* `MatchesItself`. `mpack-expect.h:996-1002` says of `mpack_expect_str_match()` (and 1067 of
  `mpack_expect_cstr_match()`, which calls it) "Reads a string, ensuring it exactly matches
  the given string". The code compares a `uint8_t` with a `char` (`mpack-expect.c:709`): where `char` is
  signed, as on x86 and in the model, a byte of 0x80 or above never equals itself, and the
  same text is answered with `mpack_error_type`. Where `char` is unsigned, as on ARM, it matches.
* `StrTakenForBin`. `mpack-expect.h:1134-1153` says of `mpack_expect_bin_buf()` and
  `mpack_expect_bin_size_buf()` "For compatibility, this will accept if the underlying type is
  string or binary". Both go through `mpack_expect_bin()`, which takes a bin only
  (`mpack-expect.c:563-569`).

### What else the models show

No document of the repository states these cases either way, so no run does. Each is a
behaviour of the model; the actions that make it are named.

* A torn *first* header (alignment below 8) leaves bank A damaged and bank B blank; with
  nothing to salvage `open()` answers `CorruptData` for ever, though the device never held
  a setting (`SelectBlank`, then `PowerLoss` inside the header write; `OpenableStays` is
  false in `TornHeaders.cfg`, which therefore checks `SettingsStayReachable`).
* At alignment 1 the header that ends a compaction may be cut after its magic byte; the
  next `open()` answers `UnsupportedVersion` before it looks whether the other bank is
  valid (`PowerLoss` in place of `Seal`, with `"unversioned"` in `MangledHeaders`).
* A read error in the scan after a compaction leaves the store open over a partial index:
  `load()` answers `NotFound` for a stored setting until the next `open()` (`Seal`, then
  `RescanError`).
* A failed flush of the new header leaves the store on the old bank and the device with a
  newer valid one: later stores are acknowledged and lost at the restart (`WriteError`
  with `"flush"` in place of `Seal`).
* Power lost while salvaging leaves two damaged populated banks, which `open()` refuses
  (`Decay` of a header, `Salvage`, then `PowerLoss` before the salvaged bank is sealed).
* `mpack_builder_build()` does not look at the error of `mpack_builder_add_page()` before it
  places the build (`mpack-writer.c:1604`): when no page could be had, the build is written
  past the end of the full page. In the model that page grows instead (`PlaceBuild`), so
  `MemoryReturned` sees that pages are freed, not that the write is out of bounds.
* Seeking in a file does not notice its end: a string skipped beyond it reads as complete
  (`CutNoticed` leaves out that source).
* The settings example at `README.md:82-99` has a default of 1000 beside the options 500
  and 1500, which `validateDefinition()` refuses (`SettingsRegistry.h:238`).

## 6. Proofs

### The store

`SettingsStoreProofs` proves, for all keys, values, record and bank sizes, capacities,
generation moduli and fault classes, from the assumptions named in `SettingsLog` and
`SettingsStore`:

* `Invariance`: `IInv` holds always. `IInv` is `TypeOK /\ IndexSound /\ CallConsistent`.
* `TypeCorrect`: the type invariant. `IndexAlwaysSound`: each entry of the RAM index, and
  of a scan in progress, points below the write offset at an intact record of its key.
* `LiveRecordsAlwaysKept`: no step, torn writes and failing devices included, changes a
  unit of a record the index refers to.

`IndexSound` alone is not inductive: `AppendRecord` keeps it only because the record fits
the bank (checked in `Append`, two steps earlier), `CopyRecord` only because the keys it
copies are indexed, and a scan only because no write happens beside it. `CallConsistent`
carries those facts from step to step. The argument: every write a call has in flight goes
to the active bank at or above `_nextWriteOffset`, or to the other bank while no scan
is held (`InFlightSafe`); cutting it short does not change where it goes (`PartsSafe`), so
it keeps every indexed record (`WrittenKeepsIndex`); a scan step keeps what it has indexed
and adds only a record that decodes (`ScanStepSound`). `StepInv` has one case per action.

### Durability

`SettingsStoreProofs` goes on to the properties that compare the running store with its
restart, again for all keys, values, sizes and capacities:

* `StoreAlwaysSound`: `DInv` holds always.
* `StoreRefines`: `Spec => Refines`. Every step of the store, power losses and torn writes
  among them, is a step of the map `SettingsKV` or leaves `Recoverable` as it is.
* `ReopenAlwaysAgrees`: the index in RAM of an open store is what a restart would index.
* `GenerationsAlwaysAdjacent`: two headers that exist together are neighbours.
* `SettingsAlwaysReachable`: from the first stored setting on a restart succeeds.
* `AlwaysOpenable`: without torn headers it always does.

**Hypothesis.** Each theorem says `Benign => (Spec => ...)`. `Benign` restricts two
constants: a failing read or write has no effect (`Faults \subseteq {"read", "write"}`), and
a torn header is found damaged (`MangledHeaders \subseteq {"damaged"}`, true at every
alignment but 1). `GenModulus > 2` lets a successor be told from a predecessor; the code
has 2^32. What lies outside breaks the promise, as section 5 shows of each under "What else
the models show": a flush that fails after the header was written, a read error in the last
scan of a compaction, a header cut to its magic byte, a header that decays. Power loss at
every step and any torn write are inside.

**Invariant.** `DInv` is `DeviceSound /\ PhasesApart /\ CallAgrees`, over the invariant of the
store (`IInv`). `DeviceSound`: the device is `Virgin` (nothing was ever sealed), or one
bank is `Live`: it has the newest header, and behind it a log, whose heads lead from one to
the next up to its end, with nothing but erased units behind.
`CallAgrees` says, for each point a call can be at, how RAM stands to that log: which records
are indexed, that the last one of a key is, that the copies in the other bank are those
of the live one. `PhasesApart` says which of the variables of a call are at rest meanwhile.

**Argument.** `Recoverable` runs a loop to its end, so the proof must. It does so by
descent: the distance of a scan to the end of the bank becomes smaller with every
step (`ScanStepMoves`), so the function in `Settled` exists (`RunExists`) and its last value
is no longer scanning (`SettledIn`). Over a log it comes to the log's end and has the last
record of every key (`ScanStepReaches`, `InspectionEnds`). Of two banks `open()` then takes
the live one (`LiveSelected`), so a restart reads what the live log says (`LiveRestart`) or
nothing (`VirginRestart`). What remains is what a write does to a log: a torn prefix or record
at its end leaves the settings or changes one (`PrefixWritten`, `RecordWritten`), a write to
the other bank changes none until the header seals it (`OtherWritten`, `CopyGrows`,
`Sealed`). `StepSound` and `StepMaps` have one case per action.

### Messages

`ConfigurationControllerProofs` proves every property of the run `messages`, for every
table of custom members, every set of payload classes and texts, and all depths, sizes and
capacities: `MessageAlwaysSound`, `ControllerTypes`, `NothingEverLost`,
`BitsAlwaysHaveObjects`, `PayloadAlwaysMatches`, `NeverEverRebound`, `SentAlwaysWhole`. Assumed
are `LimitAssumption`, `TableAssumption`, `SlotAssumption` (`ToString` tells numbers apart),
`PayloadAssumption`, `BoundAssumption` and `CapacityAssumption`. `MaxMembers`, `MaxSlots` and
`MaxKeys` bound the input, and may be any numbers.

`IInv` is `MessageSound /\ Typed`, and `MessageSound` has five parts.

* `TreeSound`: the heap is the bag of the blocks that pointers point at, each once; every
  block is reached from above, by a set bit, a slot or an inline object; and no bit is set
  under an object that is gone. `NothingLost` and `BitsHaveObjects` follow from it.
* `StackSound`: the open objects and arrays lie one in another, each object is still
  there, and nothing lies yet in the slots of an array that were not read. Without it
  `TreeSound` is not inductive: `Allocate` overwrites a pointer without freeing, so a slot
  that was read twice, or an object that was released while it is being read, would leak.
* `TableSound`: the registry has no two entries for one type and operation.
* `PayloadSound`: a payload is of the class of the type and operation read before it.
* `TypeOK`.

`Typed` says that the message is of the types that the tables declare. `Declared` follows a
path through the tables, from the class of the object above to the member of that name or
from an array to its element; every block is what is declared for its place (`WellTyped`),
and every open object or array reads what is declared there (`FrameTyped`).

The argument: what is released is everything at or below a place, and it is exactly what
destructors reach (`PruneSound`, `ReleaseSound`); `read()` clears an object only when nothing
below it is open (`ClearedSound`); a block is allocated only at a place that was just
released or never read (`AllocateSound`); of each kind of value (`ReadValueSound`) the frames
below keep what they say because it is about other places (`FrameKept`), and a frame that
is opened says it of the place just made (`OpenedSound`). A member of the envelope is read
again only as a repetition, which `PayloadSound` excepts (`PayloadAfterMember`). `NextIInv` has
one case per action. `NeverRebound` needs only `TableSound` and that tables grow
(`TypesGrow`). For `Typed`: what is declared for a place depends only on the blocks above
it, so releasing keeps it of what is left (`ShedTyped`), a new block changes it only below
itself, where nothing is (`PlacedTyped`), and an open container lies beside what is
written (`FramesStayTyped`).

`SentWhole` is about `WriteMessage`, so no invariant of steps but what one message that is
`WellTyped` writes. `Run(tokens, from, to)` says that the tokens take `from` values that are
due to `to` of them, with something due before each; runs join (`ConcatRuns`), a map with
its pairs or an array with its elements is a run from 1 to 0 (`HeadedRun`, `FlattenRuns`),
and in a run each token may be replaced by a run from 1 to 0 (`ReplacedRun`). The count of a
map is the size of the set of members that `ShouldWrite` takes; that the second pass writes
as many pairs is `ObjectWritten`, member by member. Every `pending` token stands for a value
of a declared type, so the next depth replaces it by a run (`ValueWritten`, `DeeperWritten`).
An inline object or a pointer below `MaxDepth` writes `TooBig`, so without that token nothing
is pending in the end (`MessageWritten`).

### The registry

`DeviceResponseProofs` proves every invariant of the run `registry`, for all sets of
keys, values, firmwares and stores, any capacity and any width of `int`:
`RegistryTypeCorrect`, `LiveAlwaysValid`, `RestartAlwaysAgrees`, `AppliedAlwaysCurrent`,
`OwnedAlwaysByEntries`, `OnlyStaleKeysAlwaysBlock`. Assumed are `NoneAssumption`,
`ObjectsAssumption` (an object is no variable of a caller), `CapacityAssumption`, `StoredAssumption`, `DefinitionsAssumption` (definitions have a key
and a policy that exist and a default among the values) and `IntWidthAssumption`.

`IInv` is `Typed /\ Sound /\ Placed`. `Typed` is `TypeOK` with the shape of the
entries. `Sound` is `DistinctKeys`, `LiveValid`, `RestartAgrees`, `AppliedCurrent` and
`UnregisteredUntouched`. The properties alone are not inductive. Without `DistinctKeys`
(which the refusal in `add()` keeps) `Find(k)` could name another entry than the one that
is looked at, and `set()` of one setting would stale another. Without
`UnregisteredUntouched` (no callback of a key that is not registered has been called) a
newly added setting could disagree with what was applied under its key. `StepSound` has
one case per action; the lemmas on the actions that change an entry or a store have one
step per conjunct. `Placed` is about the memory: no two entries have one place, and an
entry is of a caller's variable, or of the object it owns, or of the one that the running
`add()` is about to hand over (`PlacesApart`); the running `add()` points at an object that
the last entry points at once `addImpl()` said Ok, and no entry does before (`Pending`); an
object is allocated when an entry or the running `add()` points at it (`Allocated`). Without
`Pending` neither `Adopt` nor `GiveBack` keeps anything: which of them runs was decided two steps
earlier. `PlacedOwned` then gives `OwnedByEntries`, and `WriteFacts` that a `set()` changes
the value of one entry and not of others.
`OnlyStaleKeysBlock` follows from the invariant without a step: if every key in the store
were registered there, the setting that is refused would be one more entry than they are,
and the registry would exceed its capacity (`RegisteredCount`).

### The serializers

The same module proves `ResponsesAlwaysComplete` from `RegistryInvariance`: nothing of the registry is needed but that its entries are snapshots with a list of options
(`VisitedAre`). `FieldsAssumption` says that definitions have a key and such a list.

`Carries(tokens, from, to, n)` is a `Run` with n addresses among real tokens. The central
lemma is `OnceForEachName`: a pass that writes one value for the first index of each name
(what `SeenNames` lets pass) writes as many values as there are names, and, if each value
has an address for every index of its name, an address for every index. It is used at each
of the three levels: settings of a group (`GroupWhole`), groups of a module (`ModuleWhole`),
modules (`PayloadWhole`). `FirstsCounted` is the counting pass: as many first indices as
names. That no setting is missing or written twice is the number of addresses and that each
is there (`PayloadHas`). `WriteSettingsWhole` holds for requests of any length, the property
that TLC checks for two.

### The values

`SettingValuesProofs` proves `ValuesTyped`, `LimitsAlwaysExact` and `AlwaysReadsBack`, for all
definitions, candidates, keys and media. A byte may have 3 to 8 bits and an integer 1 to 8
bytes; the code has 8 bits and 1, 2, 4 or 8 bytes. `int` may have any width. Assumed is what
the types of C++ say: `WidthsAssumption`, `TypesAssumption`, `ScopesAssumption`,
`PrefixAssumption`, `DefinitionsAssumption` (a limit is a number its type holds, an optional
has at most one), `CandidatesAssumption`, `KeysAssumption` and `MediaAssumption`. Instances
above 63 are among the keys, alignment 0 and too little room among the media: `Encode`
refuses them.

`IInv` is `TypeOK /\ Passed /\ Held`. `Passed`: the definition is valid once it was added,
and the phase is the answer that `Validate` gave the candidate. `Held`: what `Decode` says of
an undamaged record is its key and the candidate. Neither property is inductive alone: one
speaks of the definition that an earlier step accepted, the other of what the next step
will read.

`LimitsExact` needs no step but arithmetic (`ValidateExact`). An unsigned image is the number
plus 0 or 1 times `Power[bits]` (`Image`), so the difference of two is the distance plus
-1, 0 or 1 times that. `StepsCounted` shows that this changes no remainder in the three cases
of `Faithful`. In the second, equal signs, the number must not lie below the origin: either
the minimum refused it, or the origin is 0.

`ReadsBack` is `DecodeEncode`. Each field comes back: bytes by `BytesReadBack` (the reading
recursion is solved by the quotients by the powers of a byte, `NextDigit`, and by nothing
else, `UnsignedOf`), two's complement by `CastBack`, version and type by `PrefixBack`, scope
and instance by `KeyBack`; the checksum fits its two bytes (`ChecksumFits`), and what fills
the record up is behind it (`StoredWhole`). `Power` is a recursive function up to the width
of the widest integer: its laws (`PowerExists`, `PowerPositive`, `PowerSum`) are proved by
least counterexample, as the other facts about recursive functions are.

### The writer of mpack

`MPackStreamProofs` proves `AlwaysWrittenWhole`, `AlwaysOnlyTheMessage`,
`FitsAreNeverRefused` and `MemoryAlwaysReturned`: for every sink, buffer size, moment of
failure and partial write, and for every message up to 2^32 tokens of any nesting,
plain, built or mixed, with flushes anywhere. Assumed are `FixAssumption`,
`SizeAssumption` and `StreamAssumption`, what the constants of the format, the page and
the user are, and `WideBuilds`: `sizeof(mpack_build_t)` is at least
`MPACK_WRITER_MINIMUM_BUFFER_SIZE`. So it is with pointers of 8 bytes. With pointers of
4 it is not, and the theorem would be false: `builder_32bit` is the counterexample.

`StreamInv` (`WriterAlwaysSound`) says: while the user writes, `Good(writer, message, open)`;
once the writer is gone, `Done`. `Good` is `Proper` (what is open refers to tokens of the
message, bytes only on top) and `Sound`, which is `Firm` (types, and `heap` is the pages plus
the sink's own buffer) and one of three:

* `Plain`: no build is open, and what was handed on with what is in the buffer, and the
  `Rest` of the bytes that are open, is `Wire(message)`.
* `Inside`: a build is open. `Diverted` says that the stashed buffer `Holds` what stands in
  front of the first build, and that behind each build there is what stands behind its tag
  in the message up to the next one. `FrameOf` says which build is around each item that is
  open, that its `nested` is how many plain maps and arrays are open within, and that its
  `count` and `half` are what was said to it, or, once completed, what the message says.
* `Broken`: after an error nothing is handed on, and what was is the beginning of the first
  tokens of the message, none of them a build that is still open, so that the counts a
  later `Complete` puts into the message change nothing of it.

None of the properties is inductive alone: they speak of what was handed on, and the bytes
are in a buffer, a stash and on pages until then.

The argument has two parts. `MPackWriterProofs` is about bytes: those on the pages, one
behind the other, are one flat sequence (`Spread`), with a mark where each page and each
build ends (`Laid`). A build more, a page more and bytes for the last build keep that.
`BuildsWalk` follows `mpack_builder_resolve()` along it: the place where it looks for
the next build is where there is one, until there is none, and each page is freed once.
This is where `WideBuilds` is needed: a page that was left with less than `MinBuffer`
bytes has no room for a build. `MPackStreamProofs` is about the user and the message. A
call of the user `Says` bytes to the writer: either to its buffer, in pieces with a
flush between, or to the last build (`SaysTag`, `SaysStr`, `SaysObject`, `SaysBytes`).
`SoundSaid`, `SoundPushed`, `SoundPopped`, `SoundAdvanced`, `SoundBuilt`,
`SoundCompleted`, `SoundFlushed`, `SoundFlagged` keep `Sound` for any writer and
message, and one lemma per action applies them (`GoodScalar` to `GoodGivenUp`).
`SoundDestroyed` gives `Done`, `NewSound` begins. That the length of an encoded tag is
at most what `Ensure` provides is `EncodedBytes`; `Wire` of a message in parts is
`WireAppend`, `WireJoin`, `WireParts` and `WireStep`. The loops are recursive functions:
`LeastNumber` and `AllTheWay` stand for induction over their rounds.

### The reader of mpack

`MPackReaderProofs` proves `AlwaysDelivered`, `NeverFalseError` and `CutAlwaysNoticed`: for
every source, buffer size and size of the pieces that arrive, wherever the message is cut,
for every message that a writer can make and every sequence of calls: tags, bytes read in
place, in pieces or skipped, `mpack_discard()`, and what `mpack-expect` asks for, by type,
range, key, enum or text. Assumed are the same as of the writer; that `Texts` is finite
(`StreamAssumption`) is needed here, where a key is marked as found in a table of booleans.

`ReaderInv` (`ReaderAlwaysThere`) is inductive with `StreamInv`, which says what was written.
It has three parts.

* What the reader still has to give, its buffer and then its source (`Stream`), is what the
  user has not read: the rest of the token at `place` and the `Wire` of those behind it
  (`Coming`), or the beginning of that when the message is `cut` (`Trailing`, `Along`).
* After an error nothing more is said of the bytes, but the error is one that the call had to
  make, or the message is cut. What a call had to do (`done`) is what the header promises,
  `asked`, save for the two departures: there it is what the code does (`Meets`).
* While it is written, the message is `Balanced` with what is open: the objects it still
  owes after each token (`Debts`). A message that is closed owes none (`Meant`), so
  what `Discard` skips, counting objects, ends where `Extent` counting tokens does.

`Delivered` and `NoFalseError` are about the last call alone; without the first part
nothing would follow from the calls before, and without the third the count of objects in
`mpack_discard()` could leave the message.

The argument goes from bytes to calls. `Decodes` says that the bytes of a tag, and they
alone, are read back as that tag, for each of the widths and kinds of header. Filling keeps
`Stream` and gives at least what was asked for, or sees the end (`Fills`, `Looks`): the loop
over short reads and the choice between a small read, a large one past the buffer and a skip
are here. A call then `Gives` what is there, `Leaves` the rest, or `Refuses` with an error
that is justified (`Reads` to `Shows`). Each function of `mpack-expect` `Answers` what it should of
the token that comes (`Sensible`): wrong types, numbers out of range and too long texts with the
error the code names, and nothing else. `Matching` follows a key byte by byte, `Discarding` an
object with all it contains. The last part has one lemma per action (`ReaderStep`), and the
writer's actions keep `Balanced`.

### Model-checked only

* `Reopens`: liveness, and the `ENABLED` in it, are beyond the installed provers.
* `DamageSeen`: that a damaged byte shows depends on the polynomial of `Crc16`, which is not
  in this repository; the model's checksum stands for it, and a theorem would be about that.
* `MPackStream` where a build is smaller than the smallest buffer, which `builder_32bit`
  shows to lose builds: `WideBuilds` is assumed of the writer that made the message.
* That the two stores of the registry keep the promise its model takes from `SettingsKV`:
  `StoreRefines` proves it of one store, and `SettingsRegistry` is not composed with two.

## 7. Not modelled

* mpack's node API (`mpack-node.c`), which the program does not call; `mpack-platform`,
  which has no state; extensions and timestamps (compiled out), tracking of reads and
  writes (debug builds only), the UTF-8 check, printing.
* Floating types: their limits compare floats, their payload is a copy of their bits.
* The framing below the controller (IntegralCommunication): a message arrives whole or not
  at all. A device that reorders unflushed writes (IntegralCoreUtilities).
* The 64-bit mask of `_decodedMembers`: no class has more than 6 members. `clearBank()` writes
  its erased bytes in chunks where the device has no erase; the model writes them at once, and
  an error between two chunks is the half-done write of `any_fault`, which `Benign` excludes.
* A change of `MaxSettings` between builds, and `validRegions`: the geometry is assumed.

## 8. Running

    tlc -workers 2 -config PowerLoss.cfg MCSettingsStore
    tlc -workers 2 -config Registry.cfg MCSettingsRegistry
    tlc -workers 2 -config Values.cfg MCSettingValues
    tlc -workers 2 -config Messages.cfg MCMessages
    tlc -workers 2 -config MPack.cfg MCMPackStream
    tlapm SettingsStoreProofs.tla
    tlapm MessagePackTokensProofs.tla
    tlapm ConfigurationControllerProofs.tla
    tlapm DeviceResponseProofs.tla
    tlapm SettingValuesProofs.tla
    tlapm MPackWriterProofs.tla
    tlapm MPackStreamProofs.tla
    tlapm MPackReaderProofs.tla
