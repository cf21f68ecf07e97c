----------------------------- MODULE SettingsStore -----------------------------
(* SettingsStore<MaxSettings>: typed settings kept in two banks of a storage   *)
(* device. The active bank is an append-only log with an index in RAM; when it *)
(* is full the live records are copied to the other bank, which becomes active *)
(* once its header is written. One action per device operation of open(),      *)
(* store(), load() and compact(), so that power may fail, or the device may    *)
(* report an error, between any two of them and part way through a write.      *)
EXTENDS SettingsLog

CONSTANTS
    NoCall,       \* no store() call is in progress
    NoReply,      \* no answer is pending
    MangledHeaders, \* what a header may read as after a torn header write:
                  \* {} when a header is one unit (alignment 8 and above),
                  \* "damaged" when it spans several, "unversioned" as well when
                  \* its magic byte can be written without its version byte
    Faults        \* the device faults that may occur, of FaultClasses

FaultClasses == {
    "read",       \* a read fails while banks are inspected or copied
    "rescan",     \* a read fails in the scan that ends a compaction
    "write",      \* a write fails and changes nothing
    "partial",    \* a write fails part way
    "flush",      \* a write succeeds and the flush after it fails
    "rot" }       \* a stored header decays

ASSUME CallAssumption == NoCall \notin [key : Keys, val : Values]
ASSUME ReplyAssumption == NoReply \notin [op : STRING, res : STRING]
ASSUME FaultAssumption == MangledHeaders \subseteq MangledKinds /\ Faults \subseteq FaultClasses

VARIABLES
    flash,        \* the device: flash[b] is the contents of bank b
    isOpen,       \* _open
    active,       \* _activeBank
    generation,   \* _generation
    indices,      \* _indices, by key: the order of the array is abstracted
    nextOff,      \* _nextWriteOffset
    pc,           \* the step the running call takes next, "idle" when none runs
    call,         \* the arguments of the running store(), or NoCall
    found,        \* stateA and stateB of open(), then salvagedA and salvagedB
    todo,         \* keys of the index compact() has still to copy
    dest,         \* destinationOffset of compact()
    reply         \* the answer of the last call

ram == <<isOpen, active, generation, indices, nextOff>>
locals == <<call, found, todo, dest>>
vars == <<flash, ram, pc, locals, reply>>

NotInspected == [b \in Banks |-> BankState("Unread", 0)]

Init ==
    /\ flash = [b \in Banks |-> [p \in 0 .. BankSize[b] |-> Erased]]
    /\ isOpen = FALSE
    /\ active = "A"
    /\ generation = 0
    /\ indices = EmptyIndex
    /\ nextOff = 1
    /\ pc = "idle"
    /\ call = NoCall
    /\ found = NotInspected
    /\ todo = {}
    /\ dest = 0
    /\ reply = NoReply

-------------------------------------------------------------------------------
(* Writes: an image is a partial function from positions to cells *)

EraseImage(b) == [p \in 0 .. BankSize[b] |-> Erased]
HeaderImage(g) == [p \in {0} |-> Header(g)]
PrefixImage(p, v) == [q \in {p} |-> TypeOnly(SizeOf[v])]
RecordImage(p, k, v) == [q \in p .. p + SizeOf[v] - 1 |-> Fragment(k, v, q - p)]
CopyImage(e) ==
    [q \in dest .. dest + e.size - 1 |-> flash[active][e.off + (q - dest)]]

Written(bank, image) ==
    [p \in DOMAIN bank |-> IF p \in DOMAIN image THEN image[p] ELSE bank[p]]

Write(b, image) == flash' = [flash EXCEPT ![b] = Written(flash[b], image)]

\* What the header position may hold after a torn write of the image. Clearing
\* goes from the first byte on, so it never leaves the magic without the version.
TornHeaders(image) ==
    IF 0 \notin DOMAIN image THEN {}
    ELSE IF image[0] = Erased THEN MangledHeaders \ {"unversioned"}
    ELSE MangledHeaders

\* What an interrupted write may leave of an image: any of its units, the header
\* whole, missing or mangled.
Parts(image) ==
    UNION {{[p \in S |-> image[p]]}
           \cup {[p \in S \cup {0} |-> IF p = 0 THEN Mangled(t) ELSE image[p]] :
                    t \in TornHeaders(image)} :
           S \in SUBSET DOMAIN image}

\* Faulty variants of NextGeneration: one never wraps, one stops at the last.
UnboundedGeneration == generation + 1
LastGeneration ==
    IF generation = GenModulus - 1 THEN generation ELSE generation + 1

\* The generation that compact() gives to the bank it fills.
NextGeneration == (generation + 1) % GenModulus

\* The write the running call issues next: the bank and the image.
InFlight ==
    CASE pc = "format" -> {<<"A", HeaderImage(0)>>}
      [] pc \in {"recover", "clear"} -> {<<Inactive(active), EraseImage(Inactive(active))>>}
      [] pc = "prefix" -> {<<active, PrefixImage(nextOff, call.val)>>}
      [] pc = "record" -> {<<active, RecordImage(nextOff, call.key, call.val)>>}
      [] pc = "copy" -> {<<Inactive(active), CopyImage(indices[k])>> : k \in todo}
      [] pc = "seal" -> {<<Inactive(active), HeaderImage(NextGeneration)>>}
      [] OTHER -> {}

-------------------------------------------------------------------------------
(* Returning from a call *)

StoreReply(res) == [op |-> "store", res |-> res]
OpenReply(res) == [op |-> "open", res |-> res]
LoadReply(res, k, v) == [op |-> "load", res |-> res, key |-> k, val |-> v]

Answer(res) ==
    /\ reply' = IF call = NoCall THEN OpenReply(res) ELSE StoreReply(res)
    /\ pc' = "idle"
    /\ call' = NoCall
    /\ found' = NotInspected
    /\ todo' = {}
    /\ dest' = 0

\* The call ends early: open() leaves _open false, store() leaves it true.
Abort(res) == Answer(res) /\ UNCHANGED ram

Opened(res) ==
    /\ Answer(res)
    /\ isOpen' = TRUE

-------------------------------------------------------------------------------
(* open() *)

OpenCall ==
    /\ pc = "idle"
    /\ isOpen' = FALSE
    /\ indices' = EmptyIndex
    /\ pc' = "inspect"
    /\ reply' = NoReply
    /\ UNCHANGED <<flash, active, generation, nextOff, locals>>

\* Bank A is dealt with before bank B.
Busy == {"Unread", "Scanning"}
Current(b) == found[b].res \in Busy /\ (b = "B" => found["A"].res \notin Busy)

InspectHeader(b) ==
    /\ pc = "inspect" /\ Current(b) /\ found[b].res = "Unread"
    /\ found' = [found EXCEPT ![b] = HeaderRead(flash[b])]
    /\ UNCHANGED <<flash, ram, pc, call, todo, dest, reply>>

\* One iteration of scanBank, for inspection or salvage.
ScanRecord(b) ==
    /\ pc \in {"inspect", "salvage"} /\ Current(b) /\ found[b].res = "Scanning"
    /\ found' = [found EXCEPT ![b] = ScanStep(flash[b], BankSize[b], @)]
    /\ UNCHANGED <<flash, ram, pc, call, todo, dest, reply>>

\* Faulty variant of Adopt: the write offset is not taken from the scan.
AdoptIndexOnly(b, g) ==
    /\ active' = b
    /\ generation' = g
    /\ indices' = found[b].idx
    /\ UNCHANGED nextOff

Adopt(b, g) ==
    /\ active' = b
    /\ generation' = g
    /\ indices' = found[b].idx
    /\ nextOff' = found[b].next

Examined == \A b \in Banks : found[b].res \notin Busy

RefuseBanks ==
    /\ pc = "inspect" /\ Examined /\ Refused(found)
    /\ Abort(IF found["A"].res \notin {"Ok", "Blank", "CorruptData"}
             THEN found["A"].res ELSE found["B"].res)
    /\ UNCHANGED flash

SelectValid ==
    LET b == Selected(found) IN
    /\ pc = "inspect" /\ Examined /\ ~ Refused(found) /\ Valid(found) # {}
    /\ Adopt(b, found[b].gen)
    /\ IF found[Inactive(b)].res = "CorruptData"
       THEN /\ pc' = "recover"
            /\ found' = NotInspected
            /\ UNCHANGED <<isOpen, call, todo, dest, reply>>
       ELSE Opened("Ok")
    /\ UNCHANGED flash

\* clearBank of the damaged bank.
Recover ==
    /\ pc = "recover"
    /\ Write(Inactive(active), EraseImage(Inactive(active)))
    /\ Opened("Recovered")
    /\ UNCHANGED <<active, generation, indices, nextOff>>

SelectBlank ==
    /\ pc = "inspect" /\ Examined /\ \A b \in Banks : found[b].res = "Blank"
    /\ pc' = "format"
    /\ found' = NotInspected
    /\ UNCHANGED <<flash, ram, call, todo, dest, reply>>

Format ==
    /\ pc = "format"
    /\ Write("A", HeaderImage(0))
    /\ active' = "A"
    /\ generation' = 0
    /\ indices' = EmptyIndex
    /\ nextOff' = 1
    /\ Opened("Blank")

\* No valid bank and a damaged one: scan what a damaged header left.
SelectSalvage ==
    /\ pc = "inspect" /\ Examined /\ ~ Refused(found) /\ Valid(found) = {}
    /\ \E b \in Banks : found[b].res = "CorruptData"
    /\ pc' = "salvage"
    /\ found' = [b \in Banks |-> IF found[b].res = "CorruptData"
                                 THEN BankState("Scanning", 0)
                                 ELSE BankState("CorruptData", 0)]
    /\ UNCHANGED <<flash, ram, call, todo, dest, reply>>

Salvage ==
    /\ pc = "salvage" /\ Examined
    /\ IF Cardinality(Salvageable(found)) = 1
       THEN /\ \E b \in Salvageable(found) : Adopt(b, 0)
            /\ pc' = "clear"
            /\ found' = NotInspected
            /\ UNCHANGED <<isOpen, call, todo, dest, reply>>
       ELSE Abort("CorruptData")
    /\ UNCHANGED flash

-------------------------------------------------------------------------------
(* store() and append() *)

StoreCall(k, v) ==
    /\ pc = "idle"
    /\ IF isOpen
       THEN /\ pc' = "append"
            /\ call' = [key |-> k, val |-> v]
            /\ reply' = NoReply
       ELSE /\ reply' = StoreReply("NotOpen")
            /\ UNCHANGED <<pc, call>>
    /\ UNCHANGED <<flash, ram, found, todo, dest>>

\* The checks that append() makes before it writes anything.
Fits ==
    /\ nextOff + SizeOf[call.val] <= BankSize[active] + 1
    /\ CanIndex(indices, call.key)

\* Faulty variant of Append: the record is written without its type prefix.
AppendUnprefixed ==
    /\ pc \in {"append", "reappend"}
    /\ IF Fits
       THEN pc' = "record" /\ UNCHANGED <<locals, reply>>
       ELSE IF pc = "append"
       THEN pc' = "clear" /\ UNCHANGED <<locals, reply>>
       ELSE Answer("NoSpace")
    /\ UNCHANGED <<flash, ram>>

\* append() the first time, then again after compaction.
Append ==
    /\ pc \in {"append", "reappend"}
    /\ IF Fits
       THEN pc' = "prefix" /\ UNCHANGED <<locals, reply>>
       ELSE IF pc = "append"
       THEN pc' = "clear" /\ UNCHANGED <<locals, reply>>
       ELSE Answer("NoSpace")
    /\ UNCHANGED <<flash, ram>>

\* The record's type is written first, under an erased magic byte.
AppendPrefix ==
    /\ pc = "prefix"
    /\ Write(active, PrefixImage(nextOff, call.val))
    /\ pc' = "record"
    /\ UNCHANGED <<ram, locals, reply>>

\* Faulty variant of AppendRecord: the write offset is not moved on.
AppendRecordInPlace ==
    /\ pc = "record"
    /\ Write(active, RecordImage(nextOff, call.key, call.val))
    /\ indices' = [indices EXCEPT ![call.key] = [off |-> nextOff, size |-> SizeOf[call.val]]]
    /\ Answer("Ok")
    /\ UNCHANGED <<isOpen, active, generation, nextOff>>

\* The whole record is written over it and flushed, then updateIndex.
AppendRecord ==
    /\ pc = "record"
    /\ Write(active, RecordImage(nextOff, call.key, call.val))
    /\ indices' = [indices EXCEPT ![call.key] = [off |-> nextOff, size |-> SizeOf[call.val]]]
    /\ nextOff' = nextOff + SizeOf[call.val]
    /\ Answer("Ok")
    /\ UNCHANGED <<isOpen, active, generation>>

-------------------------------------------------------------------------------
(* compact() *)

\* Faulty variant of ClearDestination: the header is written before the records.
ClearAndSeal ==
    /\ pc = "clear"
    /\ Write(Inactive(active),
             [EraseImage(Inactive(active)) EXCEPT ![0] = Header(NextGeneration)])
    /\ todo' = Used(indices)
    /\ dest' = 1
    /\ pc' = IF Used(indices) = {} THEN "seal" ELSE "copy"
    /\ UNCHANGED <<ram, call, found, reply>>

ClearDestination ==
    /\ pc = "clear"
    /\ Write(Inactive(active), EraseImage(Inactive(active)))
    /\ todo' = Used(indices)
    /\ dest' = 1
    /\ pc' = IF Used(indices) = {} THEN "seal" ELSE "copy"
    /\ UNCHANGED <<ram, call, found, reply>>

\* Copy, flush, read back and verify one indexed record.
CopyRecord(k) ==
    LET e == indices[k]
        d == Inactive(active)
        copied == Written(flash[d], CopyImage(e))
    IN
    /\ pc = "copy" /\ k \in todo
    /\ IF dest + e.size > BankSize[d] + 1
       THEN Abort("NoSpace") /\ UNCHANGED flash
       ELSE /\ flash' = [flash EXCEPT ![d] = copied]
            /\ IF \E v \in Values : SizeOf[v] = e.size /\ HoldsRecord(copied, dest, k, v)
               THEN /\ todo' = todo \ {k}
                    /\ dest' = dest + e.size
                    /\ pc' = IF todo = {k} THEN "seal" ELSE "copy"
                    /\ UNCHANGED <<ram, call, found, reply>>
               ELSE Abort("CorruptData")

\* Faulty variant of Seal: the rescan starts where the old bank ended.
SealKeepingOffset ==
    /\ pc = "seal"
    /\ Write(Inactive(active), HeaderImage(NextGeneration))
    /\ active' = Inactive(active)
    /\ generation' = NextGeneration
    /\ indices' = EmptyIndex
    /\ dest' = 0
    /\ pc' = "rescan"
    /\ UNCHANGED <<isOpen, nextOff, call, found, todo, reply>>

\* The header makes the copy valid and the bank active; scanActiveBank starts.
Seal ==
    /\ pc = "seal"
    /\ Write(Inactive(active), HeaderImage(NextGeneration))
    /\ active' = Inactive(active)
    /\ generation' = NextGeneration
    /\ indices' = EmptyIndex
    /\ nextOff' = 1
    /\ dest' = 0
    /\ pc' = "rescan"
    /\ UNCHANGED <<isOpen, call, found, todo, reply>>

\* One iteration of scanActiveBank, straight into _indices and _nextWriteOffset.
Rescan ==
    LET st == ScanStep(flash[active], BankSize[active],
                       [res |-> "Scanning", gen |-> generation,
                        idx |-> indices, next |-> nextOff])
    IN
    /\ pc = "rescan"
    /\ indices' = st.idx
    /\ nextOff' = st.next
    /\ CASE st.res = "Scanning" -> UNCHANGED <<pc, isOpen, locals, reply>>
         [] st.res = "Ok" /\ call = NoCall -> Opened("Recovered")
         [] st.res = "Ok" /\ call # NoCall ->
                pc' = "reappend" /\ UNCHANGED <<isOpen, locals, reply>>
         [] OTHER -> Answer(st.res) /\ UNCHANGED isOpen
    /\ UNCHANGED <<flash, active, generation>>

-------------------------------------------------------------------------------
(* load() *)

\* The record an index entry points at decodes to key k; its value, or NoValue.
Loaded(k) ==
    LET holds(v) == SizeOf[v] = indices[k].size
                    /\ HoldsRecord(flash[active], indices[k].off, k, v)
    IN IF \E v \in Values : holds(v) THEN CHOOSE v \in Values : holds(v) ELSE NoValue

Load(k) ==
    /\ pc = "idle"
    /\ reply' = IF ~ isOpen THEN LoadReply("NotOpen", k, NoValue)
                ELSE IF k \notin Used(indices) THEN LoadReply("NotFound", k, NoValue)
                ELSE IF Loaded(k) = NoValue THEN LoadReply("CorruptData", k, NoValue)
                ELSE LoadReply("Ok", k, Loaded(k))
    /\ UNCHANGED <<flash, ram, pc, locals>>

-------------------------------------------------------------------------------
(* The environment: power loss, device errors, decay *)

\* Power fails, perhaps during a write; the store is constructed again.
PowerLoss ==
    /\ pc # "idle" \/ isOpen
    /\ \/ UNCHANGED flash
       \/ \E w \in InFlight : \E part \in Parts(w[2]) : Write(w[1], part)
    /\ isOpen' = FALSE
    /\ active' = "A"
    /\ generation' = 0
    /\ indices' = EmptyIndex
    /\ nextOff' = 1
    /\ pc' = "idle"
    /\ call' = NoCall
    /\ found' = NotInspected
    /\ todo' = {}
    /\ dest' = 0
    /\ reply' = NoReply

\* A write or the flush after it fails. The prefix is not flushed by itself.
WriteError ==
    /\ \E w \in InFlight :
        \/ "write" \in Faults /\ UNCHANGED flash
        \/ "partial" \in Faults /\ \E part \in Parts(w[2]) : Write(w[1], part)
        \/ "flush" \in Faults /\ pc # "prefix" /\ Write(w[1], w[2])
    /\ Abort("StorageError")

\* A read fails while banks are inspected or salvaged, or before a copy.
ReadError ==
    /\ "read" \in Faults
    /\ \/ pc \in {"inspect", "salvage"} /\ ~ Examined
       \/ pc = "copy"
    /\ Abort("StorageError")
    /\ UNCHANGED flash

\* The read that verifies a copied record fails, after the copy is durable.
VerifyError ==
    /\ "read" \in Faults /\ pc = "copy"
    /\ \E w \in InFlight : Write(w[1], w[2])
    /\ Abort("StorageError")

\* scanActiveBank fails: the index holds only what it had scanned so far.
RescanError ==
    /\ "rescan" \in Faults /\ pc = "rescan"
    /\ Abort("StorageError")
    /\ UNCHANGED flash

\* load()'s read fails.
LoadError(k) ==
    /\ "read" \in Faults /\ pc = "idle" /\ isOpen /\ k \in Used(indices)
    /\ reply' = LoadReply("StorageError", k, NoValue)
    /\ UNCHANGED <<flash, ram, pc, locals>>

Decay(b) ==
    /\ "rot" \in Faults /\ pc = "idle" /\ flash[b][0].kind = "header"
    /\ Write(b, [p \in {0} |-> Mangled("damaged")])
    /\ UNCHANGED <<ram, pc, locals, reply>>

-------------------------------------------------------------------------------
OpenStep ==
    \/ \E b \in Banks : InspectHeader(b) \/ ScanRecord(b)
    \/ RefuseBanks \/ SelectValid \/ Recover \/ SelectBlank \/ Format
    \/ SelectSalvage \/ Salvage

AppendStep == Append \/ AppendPrefix \/ AppendRecord

CompactStep ==
    \/ ClearDestination
    \/ \E k \in Keys : CopyRecord(k)
    \/ Seal \/ Rescan

Caller ==
    \/ OpenCall
    \/ \E k \in Keys, v \in Values : StoreCall(k, v)
    \/ \E k \in Keys : Load(k) \/ LoadError(k)

Environment ==
    \/ PowerLoss \/ WriteError \/ ReadError \/ VerifyError \/ RescanError
    \/ \E b \in Banks : Decay(b)

Next == OpenStep \/ AppendStep \/ CompactStep \/ Caller \/ Environment

Spec == Init /\ [][Next]_vars

\* A call that has started runs on to its answer, and a store that is closed is
\* opened again: what liveness needs of the code's caller and of a processor
\* that keeps executing.
Fairness ==
    /\ WF_vars(OpenStep \/ AppendStep \/ CompactStep)
    /\ WF_vars(~ isOpen /\ OpenCall)

FairSpec == Spec /\ Fairness
-------------------------------------------------------------------------------
(* Properties that hold whatever the device does *)

Steps == {"idle", "inspect", "recover", "format", "salvage", "append", "reappend",
          "prefix", "record", "clear", "copy", "seal", "rescan"}

\* Type invariant of the store, its device and the running call.
TypeOK ==
    /\ flash = [b \in Banks |-> flash[b]]
    /\ \A b \in Banks : flash[b] \in Contents(b)
    /\ isOpen \in BOOLEAN
    /\ active \in Banks
    /\ generation \in Generations
    /\ indices \in [Keys -> Entries]
    /\ nextOff \in Nat \ {0}
    /\ pc \in Steps
    /\ call \in [key : Keys, val : Values] \cup {NoCall}
    /\ pc \in {"append", "reappend", "prefix", "record"} => call # NoCall
    /\ found \in [Banks -> BankStates]
    /\ todo \subseteq Keys
    /\ dest \in Nat

\* The RAM index and the scans of open() never refer to bytes that are not the
\* record they are taken for, however writes are torn and whichever device call
\* fails: append() writes at _nextWriteOffset only, compact() into the other
\* bank only, and clearBank() never clears the bank the index refers to.
IndexSound ==
    /\ IndexesRecords(flash[active], BankSize[active], indices, nextOff)
    /\ \A b \in Banks :
         IndexesRecords(flash[b], BankSize[b], found[b].idx, found[b].next)

\* Where the running call stands: the record being appended fits its bank, only
\* open() holds scans, and only compact()'s copy loop has keys left to copy.
CallConsistent ==
    /\ pc \in {"prefix", "record"} => nextOff + SizeOf[call.val] <= BankSize[active] + 1
    /\ pc \notin {"inspect", "salvage"} => found = NotInspected
    /\ todo \subseteq Used(indices)
    /\ pc # "copy" => todo = {}

\* The inductive invariant from which the properties above and below follow.
IInv == TypeOK /\ IndexSound /\ CallConsistent

\* No step, complete or torn, changes a unit of a record that the index of the
\* open store refers to: a stored setting is only ever superseded by a record
\* written elsewhere (append(), compact()).
LiveRecordsKept ==
    [][\A k \in Used(indices) :
         \A p \in indices[k].off .. indices[k].off + indices[k].size - 1 :
            flash'[active][p] = flash[active][p]]_vars
===============================================================================
