------------------------------ MODULE SettingsLog ------------------------------
(* What SettingsStore finds on its storage device: two banks, each a header    *)
(* followed by an append-only run of records, and the pure functions that read *)
(* a bank: header verdict, record scan, choice of the bank to open.            *)
(*                                                                             *)
(* A bank is a function from positions to cells. Position 0 is the header;     *)
(* positions 1..BankSize[b] are units of the device's alignment, the grain at  *)
(* which a write is atomic. Bytes, packing and CRCs are abstracted: a cell     *)
(* says which record (and which part of it) its bytes belong to.               *)
EXTENDS Integers, FiniteSets

CONSTANTS
    Keys,         \* the setting keys in use
    Values,       \* the setting values in use
    NoValue,      \* "no value stored under this key"
    SizeOf,       \* SizeOf[v]: storedSize of v's record, in alignment units
    BankSize,     \* BankSize[b]: units of bank b that follow its header
    PrefixUnits,  \* units that scanBank reads to decode a record header
    MaxSettings,  \* capacity of the index
    GenModulus    \* number of generations before they wrap (2^32 in the code)

Banks == {"A", "B"}

ASSUME NoValueAssumption == NoValue \notin Values
ASSUME SizeAssumption == SizeOf \in [Values -> Nat \ {0}]
ASSUME BankAssumption == BankSize \in [Banks -> Nat \ {0}]
ASSUME PrefixAssumption ==
    PrefixUnits \in Nat \ {0} /\ \A v \in Values : PrefixUnits <= SizeOf[v]
ASSUME CapacityAssumption == MaxSettings \in Nat \ {0}
ASSUME GenerationAssumption == GenModulus \in Nat \ {0}

Inactive(b) == IF b = "A" THEN "B" ELSE "A"

-------------------------------------------------------------------------------
(* Cells *)

Generations == 0 .. GenModulus - 1
Sizes == {SizeOf[v] : v \in Values}

Erased == [kind |-> "erased"]
MangledKinds == {"damaged", "unversioned"}
Mangled(kind) == [kind |-> kind]
Header(g) == [kind |-> "header", gen |-> g]
TypeOnly(n) == [kind |-> "type", size |-> n]
Fragment(k, v, i) == [kind |-> "record", key |-> k, val |-> v, unit |-> i]

Cells ==
    {Erased} \cup {Mangled(t) : t \in MangledKinds}
    \cup [kind : {"header"}, gen : Generations]
    \cup [kind : {"type"}, size : Sizes]
    \cup [kind : {"record"}, key : Keys, val : Values, unit : Nat]

Contents(b) == [0 .. BankSize[b] -> Cells]

-------------------------------------------------------------------------------
(* Index entries and scan states *)

\* off = 0 marks an entry that is not used (position 0 holds the header).
Unused == [off |-> 0, size |-> 0]
Entries == [off : Nat, size : Nat]
EmptyIndex == [k \in Keys |-> Unused]

Used(idx) == {k \in Keys : idx[k].off # 0}

\* findIndex finds the key's entry, or findFreeIndex finds room for one.
CanIndex(idx, k) == k \in Used(idx) \/ Cardinality(Used(idx)) < MaxSettings

Verdicts == {"Unread", "Scanning", "Ok", "Blank", "CorruptData",
             "UnsupportedVersion", "NoSpace"}

BankState(res, g) == [res |-> res, gen |-> g, idx |-> EmptyIndex, next |-> 1]
BankStates == [res : Verdicts, gen : Generations, idx : [Keys -> Entries], next : Nat \ {0}]

\* readBankHeader: a bank whose header position is erased is blank only when
\* all of it is erased.
HeaderVerdict(bank) ==
    CASE bank[0].kind = "header"      -> "Ok"
      [] bank[0].kind = "unversioned" -> "UnsupportedVersion"
      [] \A p \in DOMAIN bank : bank[p] = Erased -> "Blank"
      [] OTHER -> "CorruptData"

\* What inspectBank knows once it has read the header: a valid header's
\* generation, and that the records are still to be scanned.
HeaderRead(bank) ==
    IF HeaderVerdict(bank) = "Ok" THEN BankState("Scanning", bank[0].gen)
    ELSE BankState(HeaderVerdict(bank), 0)

\* The record size decodeHeader and storedSize give for a first unit; 0 when
\* its bytes are not the start of a record.
HeadSize(cell) ==
    CASE cell.kind = "type" -> cell.size
      [] cell.kind = "record" /\ cell.unit = 0 -> SizeOf[cell.val]
      [] OTHER -> 0

\* The record at position p decodes to key k and value v: every unit is there
\* and the CRC matches.
HoldsRecord(bank, p, k, v) ==
    \A i \in 0 .. SizeOf[v] - 1 : bank[p + i] = Fragment(k, v, i)

\* Every used entry of idx points into the bank, below next, at an intact record
\* of its own key.
IndexesRecords(bank, size, idx, next) ==
    \A k \in Used(idx) :
        /\ idx[k].off + idx[k].size <= next
        /\ next <= size + 1
        /\ \E v \in Values : SizeOf[v] = idx[k].size /\ HoldsRecord(bank, idx[k].off, k, v)

\* One iteration of scanBank's loop over the bank, from scan state st.
ScanStep(bank, size, st) ==
    LET p    == st.next
        head == bank[p]
        len  == HeadSize(head)
    IN IF p + PrefixUnits > size + 1 THEN [st EXCEPT !.res = "Ok"]
       ELSE IF head = Erased THEN [st EXCEPT !.res = "Ok"]
       ELSE IF len = 0 \/ p + len > size + 1
            THEN [st EXCEPT !.res = "CorruptData"]
       ELSE IF head.kind = "type" \/ ~ HoldsRecord(bank, p, head.key, head.val)
            THEN [st EXCEPT !.next = p + len]
       ELSE IF ~ CanIndex(st.idx, head.key)
            THEN [st EXCEPT !.res = "NoSpace"]
       ELSE [st EXCEPT !.idx = [@ EXCEPT ![head.key] = [off |-> p, size |-> len]],
                       !.next = p + len]

\* scanBank run to its end from scan state st0: run[n] holds the scan state
\* after n iterations. The loop ends within size + 1 of them, because each one
\* ends the scan or moves past at least one unit.
Settled(bank, size, st0) ==
    LET run[n \in 0 .. size + 1] ==
            IF n = 0 THEN {st0}
            ELSE {IF st.res = "Scanning" THEN ScanStep(bank, size, st) ELSE st :
                  st \in run[n - 1]}
    IN CHOOSE st \in run[size + 1] : TRUE

-------------------------------------------------------------------------------
(* Choosing the bank to open, from what inspection or salvage found *)

\* Faulty variant of Newer: the generations compared as they are.
UnsignedNewer(g, h) == g > h

\* generationIsNewer: the difference, read as a signed number, is positive.
Newer(g, h) ==
    LET d == (g - h) % GenModulus IN 0 < d /\ 2 * d < GenModulus

\* Faulty variant of Refused: open() gives up on a damaged bank.
RefusedIfDamaged(found) == \E b \in Banks : found[b].res \notin {"Ok", "Blank"}

\* Results of an inspection that open() returns at once.
Refused(found) == \E b \in Banks :
    found[b].res \notin {"Ok", "Blank", "CorruptData"}

Valid(found) == {b \in Banks : found[b].res = "Ok"}

\* The bank open() adopts when some bank is valid.
Selected(found) ==
    IF "A" \in Valid(found) /\ ("B" \notin Valid(found) \/ Newer(found["A"].gen, found["B"].gen))
    THEN "A" ELSE "B"

\* The banks whose scan under a damaged header found settings.
Salvageable(found) ==
    {b \in Banks : found[b].res = "Ok" /\ Used(found[b].idx) # {}}
===============================================================================
