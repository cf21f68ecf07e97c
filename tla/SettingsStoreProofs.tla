-------------------------- MODULE SettingsStoreProofs --------------------------
(* Proofs, for every value of the constants. First, that SettingsStore keeps its  *)
(* type invariant and IndexSound, and never touches a record that the index of    *)
(* the open store refers to - under every fault class and every torn write. Then, *)
(* that it implements the map of SettingsKV while power fails at any step and any *)
(* write may be torn: that part begins with what a restart finds on a device, the *)
(* scan of a bank ends and finds every whole record of its log, and of the two    *)
(* banks open() takes the one that holds the log.                                 *)
EXTENDS SettingsDurability, FiniteSetTheorems, WellFoundedInduction, TLAPS

-------------------------------------------------------------------------------
(* Cells and images *)

\* The fields of a cell, by its kind.
LEMMA CellFields ==
    ASSUME NEW c \in Cells
    PROVE  /\ c.kind = "record" => c.key \in Keys /\ c.val \in Values /\ c.unit \in Nat
           /\ c.kind = "type" => c.size \in Sizes
           /\ c.kind = "header" => c.gen \in Generations
BY DEF Cells, Erased, Mangled, MangledKinds

\* Every record is at least one unit long.
LEMMA SizesPositive ==
    /\ \A v \in Values : SizeOf[v] \in Nat /\ SizeOf[v] >= 1
    /\ \A n \in Sizes : n \in Nat /\ n >= 1
BY SizeAssumption DEF Sizes

\* The cells that images are made of.
LEMMA CellsTyped ==
    /\ Erased \in Cells
    /\ \A t \in MangledKinds : Mangled(t) \in Cells
    /\ \A g \in Generations : Header(g) \in Cells
    /\ \A v \in Values : TypeOnly(SizeOf[v]) \in Cells
    /\ \A k \in Keys, v \in Values, i \in Nat : Fragment(k, v, i) \in Cells
BY DEF Cells, Erased, Mangled, Header, TypeOnly, Fragment, Sizes

\* Writing typed cells keeps a bank a bank.
LEMMA WrittenTyped ==
    ASSUME NEW b \in Banks, NEW bank \in Contents(b), NEW image,
           \A p \in DOMAIN image : image[p] \in Cells
    PROVE  Written(bank, image) \in Contents(b)
BY DEF Written, Contents

\* A record none of whose units the image covers is still there after the write.
LEMMA WrittenKeepsRecord ==
    ASSUME NEW b \in Banks, NEW bank \in Contents(b), NEW image,
           NEW k \in Keys, NEW v \in Values, NEW off \in Nat, off # 0,
           off + SizeOf[v] <= BankSize[b] + 1,
           \A p \in DOMAIN image : p \in Int /\ (p < off \/ p >= off + SizeOf[v]),
           HoldsRecord(bank, off, k, v)
    PROVE  HoldsRecord(Written(bank, image), off, k, v)
<1> SUFFICES ASSUME NEW i \in 0 .. SizeOf[v] - 1
             PROVE  Written(bank, image)[off + i] = Fragment(k, v, i)
    BY DEF HoldsRecord
<1>1. SizeOf[v] \in Nat /\ BankSize[b] \in Nat
    BY SizesPositive, BankAssumption
<1>2. off + i \in 0 .. BankSize[b] /\ off + i \notin DOMAIN image
    BY <1>1
<1>3. Written(bank, image)[off + i] = bank[off + i]
    BY <1>2 DEF Written, Contents
<1> QED
    BY <1>3 DEF HoldsRecord

\* An index stays sound when the write covers only the header position and
\* positions from next on.
LEMMA WrittenKeepsIndex ==
    ASSUME NEW b \in Banks, NEW bank \in Contents(b), NEW image,
           NEW idx \in [Keys -> Entries], NEW next \in Nat,
           \A p \in DOMAIN image : p \in Int /\ (p = 0 \/ p >= next),
           IndexesRecords(bank, BankSize[b], idx, next)
    PROVE  IndexesRecords(Written(bank, image), BankSize[b], idx, next)
<1> SUFFICES ASSUME NEW k \in Used(idx)
             PROVE  /\ idx[k].off + idx[k].size <= next
                    /\ next <= BankSize[b] + 1
                    /\ \E v \in Values :
                        /\ SizeOf[v] = idx[k].size
                        /\ HoldsRecord(Written(bank, image), idx[k].off, k, v)
    BY DEF IndexesRecords
<1>1. k \in Keys /\ idx[k].off \in Nat /\ idx[k].off # 0 /\ idx[k].size \in Nat
    BY DEF Used, Entries
<1>2. idx[k].off + idx[k].size <= next /\ next <= BankSize[b] + 1
    BY DEF IndexesRecords
<1>3. PICK v \in Values : SizeOf[v] = idx[k].size /\ HoldsRecord(bank, idx[k].off, k, v)
    BY DEF IndexesRecords
<1>4. BankSize[b] \in Nat
    BY BankAssumption
<1>5. idx[k].off + SizeOf[v] <= BankSize[b] + 1
    BY <1>1, <1>2, <1>3, <1>4
<1>6. \A p \in DOMAIN image :
        p \in Int /\ (p < idx[k].off \/ p >= idx[k].off + SizeOf[v])
    BY <1>1, <1>2, <1>3
<1>7. HoldsRecord(Written(bank, image), idx[k].off, k, v)
    BY <1>1, <1>3, <1>5, <1>6, WrittenKeepsRecord
<1> QED
    BY <1>2, <1>3, <1>7

\* An empty index refers to nothing.
LEMMA EmptyIndexSound ==
    /\ EmptyIndex \in [Keys -> Entries]
    /\ Used(EmptyIndex) = {}
    /\ \A bank, size, next : IndexesRecords(bank, size, EmptyIndex, next)
BY DEF EmptyIndex, Unused, Entries, Used, IndexesRecords

LEMMA NotInspectedTyped ==
    /\ NotInspected \in [Banks -> BankStates]
    /\ \A b \in Banks : NotInspected[b].idx = EmptyIndex
BY EmptyIndexSound, GenerationAssumption
   DEF NotInspected, BankState, BankStates, Verdicts, Generations

-------------------------------------------------------------------------------
(* Scanning *)

\* One iteration of scanBank keeps a sound index sound.
LEMMA ScanStepSound ==
    ASSUME NEW b \in Banks, NEW bank \in Contents(b), NEW st \in BankStates,
           IndexesRecords(bank, BankSize[b], st.idx, st.next)
    PROVE  /\ ScanStep(bank, BankSize[b], st) \in BankStates
           /\ IndexesRecords(bank, BankSize[b], ScanStep(bank, BankSize[b], st).idx,
                             ScanStep(bank, BankSize[b], st).next)
<1> DEFINE p    == st.next
           size == BankSize[b]
           head == bank[p]
           len  == HeadSize(head)
           moved == [st EXCEPT !.next = p + len]
           index == [st.idx EXCEPT ![head.key] = [off |-> p, size |-> len]]
           indexed == [st EXCEPT !.idx = index, !.next = p + len]
<1>1. /\ st.res \in Verdicts /\ st.gen \in Generations
      /\ st.idx \in [Keys -> Entries] /\ p \in Nat /\ p # 0 /\ size \in Nat
      /\ PrefixUnits \in Nat /\ PrefixUnits # 0
    BY BankAssumption, PrefixAssumption DEF BankStates
<1>2. \A res \in {"Ok", "CorruptData", "NoSpace"} :
        /\ [st EXCEPT !.res = res] \in BankStates
        /\ IndexesRecords(bank, size, [st EXCEPT !.res = res].idx, [st EXCEPT !.res = res].next)
    BY DEF BankStates, Verdicts
<1>3. CASE \/ p + PrefixUnits > size + 1
           \/ head = Erased
           \/ len = 0
           \/ p + len > size + 1
    BY <1>2, <1>3 DEF ScanStep
<1>4. CASE /\ ~ (p + PrefixUnits > size + 1)
           /\ head # Erased
           /\ len # 0
           /\ ~ (p + len > size + 1)
  <2>1. head \in Cells
      BY <1>1, <1>4 DEF Contents
  <2>2. len \in Nat /\ p + len <= size + 1
      BY <1>1, <1>4, <2>1, CellFields, SizesPositive DEF HeadSize
  <2>3. moved \in BankStates /\ moved.idx = st.idx /\ moved.next = p + len
      BY <1>1, <2>2 DEF BankStates
  <2>4. IndexesRecords(bank, size, moved.idx, moved.next)
      BY <1>1, <2>2, <2>3 DEF IndexesRecords, Used, Entries
  <2>5. CASE head.kind = "type" \/ ~ HoldsRecord(bank, p, head.key, head.val)
      BY <1>4, <2>3, <2>4, <2>5 DEF ScanStep
  <2>6. CASE ~ (head.kind = "type" \/ ~ HoldsRecord(bank, p, head.key, head.val))
    <3>1. head.kind = "record" /\ head.unit = 0 /\ len = SizeOf[head.val]
        BY <1>4, <2>6 DEF HeadSize
    <3>2. head.key \in Keys /\ head.val \in Values
        BY <2>1, <3>1, CellFields
    <3>3. CASE ~ CanIndex(st.idx, head.key)
        BY <1>2, <1>4, <2>6, <3>3 DEF ScanStep
    <3>4. CASE CanIndex(st.idx, head.key)
      <4>1. ScanStep(bank, size, st) = indexed
          BY <1>4, <2>6, <3>4 DEF ScanStep
      <4>2. [off |-> p, size |-> len] \in Entries
          BY <1>1, <2>2 DEF Entries
      <4>3. index \in [Keys -> Entries]
          BY <1>1, <3>2, <4>2
      <4>4. p + len \in Nat \ {0}
          BY <1>1, <2>2
      <4> HIDE DEF index, p, len
      <4>5. indexed.idx = index /\ indexed.next = p + len /\ indexed \in BankStates
          BY <4>3, <4>4 DEF BankStates
      <4> USE DEF index, p, len
      <4>6. ASSUME NEW k \in Used(indexed.idx)
            PROVE  /\ indexed.idx[k].off + indexed.idx[k].size <= indexed.next
                   /\ indexed.next <= size + 1
                   /\ \E v \in Values : /\ SizeOf[v] = indexed.idx[k].size
                                        /\ HoldsRecord(bank, indexed.idx[k].off, k, v)
        <5>1. CASE k = head.key
            BY <1>1, <2>2, <2>6, <3>1, <3>2, <4>5, <5>1
        <5>2. CASE k # head.key
          <6>1. k \in Used(st.idx) /\ indexed.idx[k] = st.idx[k]
              BY <1>1, <3>2, <4>5, <5>2 DEF Used
          <6> QED
              BY <1>1, <2>2, <4>5, <6>1 DEF IndexesRecords, Entries, Used
        <5> QED
            BY <5>1, <5>2
      <4> QED
          BY <4>1, <4>5, <4>6 DEF IndexesRecords
    <3> QED
        BY <3>3, <3>4
  <2> QED
      BY <2>5, <2>6
<1> QED
    BY <1>3, <1>4
-------------------------------------------------------------------------------
(* Writes to the device *)

\* An image that may be written to bank b: made of cells, and in the active bank
\* covering only the header and the space beyond the last record.
SafeImage(b, image) ==
    /\ b \in Banks
    /\ \A p \in DOMAIN image :
        /\ p \in Int
        /\ image[p] \in Cells
        /\ b = active => p = 0 \/ p >= nextOff

\* What is left of a torn write covers no more than the write, with cells.
LEMMA PartsSafe ==
    ASSUME NEW b, NEW image, SafeImage(b, image), NEW part \in Parts(image)
    PROVE  SafeImage(b, part)
<1>1. MangledHeaders \subseteq MangledKinds
    BY FaultAssumption
<1>2. PICK S \in SUBSET DOMAIN image :
        \/ part = [p \in S |-> image[p]]
        \/ \E t \in TornHeaders(image) :
              part = [p \in S \cup {0} |-> IF p = 0 THEN Mangled(t) ELSE image[p]]
    BY DEF Parts
<1>3. CASE part = [p \in S |-> image[p]]
    BY <1>3 DEF SafeImage
<1>4. ASSUME NEW t \in TornHeaders(image),
             part = [p \in S \cup {0} |-> IF p = 0 THEN Mangled(t) ELSE image[p]]
      PROVE  SafeImage(b, part)
  <2>1. 0 \in DOMAIN image /\ t \in MangledKinds
      BY <1>1, <1>4 DEF TornHeaders
  <2> QED
      BY <1>4, <2>1, CellsTyped DEF SafeImage
<1> QED
    BY <1>2, <1>3, <1>4

\* Every write that a call has in flight is safe.
LEMMA InFlightSafe ==
    ASSUME IInv, NEW w \in InFlight
    PROVE  SafeImage(w[1], w[2])
<1>1. /\ active \in Banks /\ nextOff \in Nat /\ generation \in Generations
      /\ flash[active] \in Contents(active) /\ indices \in [Keys -> Entries]
      /\ todo \subseteq Used(indices) /\ dest \in Nat
    BY DEF IInv, TypeOK, CallConsistent
<1>2. Inactive(active) \in Banks /\ Inactive(active) # active
    BY <1>1 DEF Inactive, Banks
<1>3. CASE pc = "format"
  <2>1. w = <<"A", HeaderImage(0)>>
      BY <1>3 DEF InFlight
  <2>2. 0 \in Generations
      BY GenerationAssumption DEF Generations
  <2> QED
      BY <2>1, <2>2, CellsTyped DEF SafeImage, HeaderImage, Banks
<1>4. CASE pc \in {"recover", "clear"}
  <2>1. w = <<Inactive(active), EraseImage(Inactive(active))>>
      BY <1>4 DEF InFlight
  <2> QED
      BY <1>2, <2>1, CellsTyped, BankAssumption DEF SafeImage, EraseImage
<1>5. CASE pc = "prefix"
  <2>1. w = <<active, PrefixImage(nextOff, call.val)>>
      BY <1>5 DEF InFlight
  <2>2. call.val \in Values
      BY <1>5 DEF IInv, TypeOK
  <2> QED
      BY <1>1, <2>1, <2>2, CellsTyped DEF SafeImage, PrefixImage
<1>6. CASE pc = "record"
  <2>1. w = <<active, RecordImage(nextOff, call.key, call.val)>>
      BY <1>6 DEF InFlight
  <2>2. call.key \in Keys /\ call.val \in Values
      BY <1>6 DEF IInv, TypeOK
  <2>3. SizeOf[call.val] \in Nat
      BY <2>2, SizesPositive
  <2> QED
      BY <1>1, <2>1, <2>2, <2>3, CellsTyped DEF SafeImage, RecordImage
<1>7. CASE pc = "copy"
  <2>1. PICK k \in todo : w = <<Inactive(active), CopyImage(indices[k])>>
      BY <1>7 DEF InFlight
  <2>2. k \in Keys /\ k \in Used(indices) /\ indices[k] \in Entries
      BY <1>1, <2>1 DEF Used
  <2>3. PICK v \in Values : /\ SizeOf[v] = indices[k].size
                            /\ HoldsRecord(flash[active], indices[k].off, k, v)
      BY <2>2 DEF IInv, IndexSound, IndexesRecords
  <2>4. \A q \in DOMAIN CopyImage(indices[k]) :
            q \in Int /\ CopyImage(indices[k])[q] \in Cells
      BY <1>1, <2>2, <2>3, CellsTyped DEF CopyImage, HoldsRecord, Entries
  <2> QED
      BY <1>2, <2>1, <2>4 DEF SafeImage
<1>8. CASE pc = "seal"
  <2>1. w = <<Inactive(active), HeaderImage(NextGeneration)>>
      BY <1>8 DEF InFlight
  <2>2. NextGeneration \in Generations
      BY <1>1, GenerationAssumption DEF NextGeneration, Generations
  <2> QED
      BY <1>2, <2>1, <2>2, CellsTyped DEF SafeImage, HeaderImage
<1> QED
    BY <1>3, <1>4, <1>5, <1>6, <1>7, <1>8 DEF InFlight

\* A safe write keeps the banks typed and the RAM index sound.
LEMMA WriteSound ==
    ASSUME IInv, NEW b, NEW image, SafeImage(b, image), Write(b, image)
    PROVE  /\ flash' = [c \in Banks |-> flash'[c]]
           /\ \A c \in Banks : flash'[c] \in Contents(c)
           /\ IndexesRecords(flash'[active], BankSize[active], indices, nextOff)
<1>1. /\ b \in Banks /\ active \in Banks /\ nextOff \in Nat /\ indices \in [Keys -> Entries]
      /\ flash = [c \in Banks |-> flash[c]]
      /\ \A c \in Banks : flash[c] \in Contents(c)
      /\ IndexesRecords(flash[active], BankSize[active], indices, nextOff)
    BY DEF IInv, TypeOK, IndexSound, SafeImage
<1>2. /\ flash' = [c \in Banks |-> flash'[c]]
      /\ flash'[b] = Written(flash[b], image)
      /\ \A c \in Banks : c # b => flash'[c] = flash[c]
    BY <1>1 DEF Write
<1>3. \A c \in Banks : flash'[c] \in Contents(c)
    BY <1>1, <1>2, WrittenTyped DEF SafeImage
<1>4. IndexesRecords(flash'[active], BankSize[active], indices, nextOff)
  <2>1. CASE b # active
      BY <1>1, <1>2, <2>1
  <2>2. CASE b = active
      BY <1>1, <1>2, <2>2, WrittenKeepsIndex DEF SafeImage
  <2> QED
      BY <2>1, <2>2
<1> QED
    BY <1>2, <1>3, <1>4
-------------------------------------------------------------------------------
(* The inductive invariant *)

\* The RAM state of a constructed store, with any typed device, is well typed.
LEMMA ConstructedTyped ==
    ASSUME flash = [b \in Banks |-> flash[b]], \A b \in Banks : flash[b] \in Contents(b),
           isOpen = FALSE, active = "A", generation = 0, indices = EmptyIndex, nextOff = 1,
           pc = "idle", call = NoCall, found = NotInspected, todo = {}, dest = 0
    PROVE  TypeOK
<1>1. isOpen \in BOOLEAN
    BY Zenon
<1>2. nextOff \in Nat \ {0} /\ dest \in Nat
    OBVIOUS
<1>3. todo \subseteq Keys
    OBVIOUS
<1>4. active \in Banks
    BY DEF Banks
<1>5. generation \in Generations
    BY GenerationAssumption DEF Generations
<1>6. indices \in [Keys -> Entries] /\ found \in [Banks -> BankStates]
    BY EmptyIndexSound, NotInspectedTyped
<1>7. pc \in Steps /\ pc \notin {"append", "reappend", "prefix", "record"}
    BY DEF Steps
<1>8. call \in [key : Keys, val : Values] \cup {NoCall}
    OBVIOUS
<1> QED
    BY <1>1, <1>2, <1>3, <1>4, <1>5, <1>6, <1>7, <1>8, Zenon DEF TypeOK

\* The store as constructed satisfies the invariant.
LEMMA InitInv == Init => IInv
<1> SUFFICES ASSUME Init PROVE IInv
    OBVIOUS
<1>1. flash = [b \in Banks |-> flash[b]] /\ \A b \in Banks : flash[b] \in Contents(b)
    BY CellsTyped DEF Init, Contents
<1>2. TypeOK
    BY <1>1, ConstructedTyped DEF Init
<1>3. IndexSound
    BY EmptyIndexSound, NotInspectedTyped DEF Init, IndexSound
<1>4. CallConsistent
    BY DEF Init, CallConsistent
<1> QED
    BY <1>2, <1>3, <1>4 DEF IInv

\* A call that returns without changing the RAM state keeps the invariant,
\* whatever safe write it issued.
LEMMA AbortInv ==
    ASSUME IInv, NEW res, Abort(res),
           \/ UNCHANGED flash
           \/ \E b, image : SafeImage(b, image) /\ Write(b, image)
    PROVE  IInv'
<1>1. /\ flash' = [c \in Banks |-> flash'[c]]
      /\ \A c \in Banks : flash'[c] \in Contents(c)
      /\ IndexesRecords(flash'[active], BankSize[active], indices, nextOff)
  <2>1. CASE UNCHANGED flash
      BY <2>1 DEF IInv, TypeOK, IndexSound
  <2>2. CASE \E b, image : SafeImage(b, image) /\ Write(b, image)
      BY <2>2, WriteSound
  <2> QED
      BY <2>1, <2>2
<1>2. TypeOK'
    BY <1>1, NotInspectedTyped DEF IInv, TypeOK, Abort, Answer, ram, Steps
<1>3. IndexSound'
    BY <1>1, EmptyIndexSound, NotInspectedTyped DEF IndexSound, Abort, Answer, ram
<1>4. CallConsistent'
    BY DEF CallConsistent, Abort, Answer, ram
<1> QED
    BY <1>2, <1>3, <1>4 DEF IInv

\* The steps of open() keep the invariant.
LEMMA OpenStepInv ==
    ASSUME IInv, OpenStep PROVE IInv'
<1> USE DEF ram, locals
<1>1. ASSUME NEW b \in Banks, InspectHeader(b) PROVE IInv'
  <2>1. HeaderRead(flash[b]) \in BankStates /\ HeaderRead(flash[b]).idx = EmptyIndex
    <3>1. flash[b][0] \in Cells
        BY BankAssumption DEF IInv, TypeOK, Contents
    <3>2. HeaderVerdict(flash[b]) \in Verdicts
        BY DEF HeaderVerdict, Verdicts
    <3>3. HeaderVerdict(flash[b]) = "Ok" => flash[b][0].gen \in Generations
        BY <3>1, CellFields DEF HeaderVerdict
    <3>4. 0 \in Generations
        BY GenerationAssumption DEF Generations
    <3> QED
        BY <3>2, <3>3, <3>4, EmptyIndexSound DEF HeaderRead, BankState, BankStates, Verdicts
  <2>2. TypeOK'
      BY <1>1, <2>1 DEF IInv, TypeOK, InspectHeader
  <2>3. IndexSound'
      BY <1>1, <2>1, EmptyIndexSound DEF IInv, IndexSound, TypeOK, InspectHeader
  <2>4. CallConsistent'
      BY <1>1 DEF IInv, CallConsistent, InspectHeader
  <2> QED
      BY <2>2, <2>3, <2>4 DEF IInv
<1>2. ASSUME NEW b \in Banks, ScanRecord(b) PROVE IInv'
  <2>1. /\ ScanStep(flash[b], BankSize[b], found[b]) \in BankStates
        /\ IndexesRecords(flash[b], BankSize[b],
                          ScanStep(flash[b], BankSize[b], found[b]).idx,
                          ScanStep(flash[b], BankSize[b], found[b]).next)
      BY ScanStepSound DEF IInv, TypeOK, IndexSound
  <2>2. TypeOK'
      BY <1>2, <2>1 DEF IInv, TypeOK, ScanRecord
  <2>3. IndexSound'
      BY <1>2, <2>1 DEF IInv, IndexSound, TypeOK, ScanRecord
  <2>4. CallConsistent'
      BY <1>2 DEF IInv, CallConsistent, ScanRecord
  <2> QED
      BY <2>2, <2>3, <2>4 DEF IInv
<1>3. CASE RefuseBanks
    BY <1>3, AbortInv DEF RefuseBanks
<1>4. CASE SelectValid
  <2>1. Selected(found) \in Banks
      BY DEF Selected, Banks
  <2>2. TypeOK'
    <3>1. /\ active' \in Banks /\ generation' \in Generations
          /\ indices' \in [Keys -> Entries] /\ nextOff' \in Nat \ {0}
        BY <1>4, <2>1 DEF IInv, TypeOK, SelectValid, Adopt, BankStates
    <3>2. /\ isOpen' \in BOOLEAN /\ pc' \in {"recover", "idle"}
          /\ call' \in {call, NoCall} /\ found' = NotInspected
          /\ todo' \in {todo, {}} /\ dest' \in {dest, 0} /\ flash' = flash
        BY <1>4 DEF IInv, TypeOK, SelectValid, Opened, Answer
    <3> QED
        BY <3>1, <3>2, NotInspectedTyped DEF IInv, TypeOK, Steps
  <2>3. IndexSound'
      BY <1>4, <2>1, EmptyIndexSound, NotInspectedTyped
      DEF IInv, IndexSound, SelectValid, Adopt, Opened, Answer
  <2>4. CallConsistent'
      BY <1>4 DEF IInv, CallConsistent, SelectValid, Adopt, Opened, Answer
  <2> QED
      BY <2>2, <2>3, <2>4 DEF IInv
<1>5. CASE Recover
  <2>1. SafeImage(Inactive(active), EraseImage(Inactive(active)))
      BY <1>5, InFlightSafe DEF Recover, InFlight
  <2>2. /\ flash' = [c \in Banks |-> flash'[c]]
        /\ \A c \in Banks : flash'[c] \in Contents(c)
        /\ IndexesRecords(flash'[active], BankSize[active], indices, nextOff)
      BY <1>5, <2>1, WriteSound DEF Recover
  <2>3. TypeOK'
      BY <1>5, <2>2, NotInspectedTyped DEF IInv, TypeOK, Recover, Opened, Answer, Steps
  <2>4. IndexSound'
      BY <1>5, <2>2, EmptyIndexSound, NotInspectedTyped DEF IndexSound, Recover, Opened, Answer
  <2>5. CallConsistent'
      BY <1>5 DEF CallConsistent, Recover, Opened, Answer
  <2> QED
      BY <2>3, <2>4, <2>5 DEF IInv
<1>6. CASE SelectBlank
  <2>1. TypeOK'
      BY <1>6, NotInspectedTyped DEF IInv, TypeOK, SelectBlank, Steps
  <2>2. IndexSound'
      BY <1>6, EmptyIndexSound, NotInspectedTyped DEF IInv, IndexSound, SelectBlank
  <2>3. CallConsistent'
      BY <1>6 DEF IInv, CallConsistent, SelectBlank
  <2> QED
      BY <2>1, <2>2, <2>3 DEF IInv
<1>7. CASE Format
  <2>1. SafeImage("A", HeaderImage(0))
      BY <1>7, InFlightSafe DEF Format, InFlight
  <2>2. /\ flash' = [c \in Banks |-> flash'[c]]
        /\ \A c \in Banks : flash'[c] \in Contents(c)
      BY <1>7, <2>1, WriteSound DEF Format
  <2>3. TypeOK'
      BY <1>7, <2>2, NotInspectedTyped, EmptyIndexSound, GenerationAssumption
      DEF IInv, TypeOK, Format, Opened, Answer, Steps, Banks, Generations
  <2>4. IndexSound'
      BY <1>7, EmptyIndexSound, NotInspectedTyped DEF IndexSound, Format, Opened, Answer
  <2>5. CallConsistent'
      BY <1>7 DEF CallConsistent, Format, Opened, Answer
  <2> QED
      BY <2>3, <2>4, <2>5 DEF IInv
<1>8. CASE SelectSalvage
  <2>1. /\ found' \in [Banks -> BankStates]
        /\ \A b \in Banks : found'[b].idx = EmptyIndex
      BY <1>8, EmptyIndexSound, GenerationAssumption
      DEF SelectSalvage, BankState, BankStates, Verdicts, Generations
  <2>2. TypeOK'
      BY <1>8, <2>1 DEF IInv, TypeOK, SelectSalvage, Steps
  <2>3. IndexSound'
      BY <1>8, <2>1, EmptyIndexSound DEF IInv, IndexSound, SelectSalvage
  <2>4. CallConsistent'
      BY <1>8 DEF IInv, CallConsistent, SelectSalvage
  <2> QED
      BY <2>2, <2>3, <2>4 DEF IInv
<1>9. CASE Salvage
  <2>1. CASE Cardinality(Salvageable(found)) # 1
      BY <1>9, <2>1, AbortInv DEF Salvage
  <2>2. CASE Cardinality(Salvageable(found)) = 1
    <3>1. PICK b \in Banks : Adopt(b, 0)
        BY <1>9, <2>2 DEF Salvage, Salvageable
    <3>2. /\ pc' = "clear" /\ found' = NotInspected
          /\ UNCHANGED <<flash, isOpen, call, todo, dest>>
        BY <1>9, <2>2 DEF Salvage
    <3>3. TypeOK'
        BY <3>1, <3>2, NotInspectedTyped, GenerationAssumption
        DEF IInv, TypeOK, Adopt, Steps, BankStates, Generations
    <3>4. IndexSound'
        BY <3>1, <3>2, EmptyIndexSound, NotInspectedTyped DEF IInv, IndexSound, Adopt
    <3>5. CallConsistent'
        BY <1>9, <3>1, <3>2 DEF IInv, CallConsistent, Adopt, Salvage
    <3> QED
        BY <3>3, <3>4, <3>5 DEF IInv
  <2> QED
      BY <2>1, <2>2
<1> QED
    BY <1>1, <1>2, <1>3, <1>4, <1>5, <1>6, <1>7, <1>8, <1>9 DEF OpenStep
\* The steps of append() keep the invariant.
LEMMA AppendStepInv ==
    ASSUME IInv, AppendStep PROVE IInv'
<1> USE DEF ram, locals
<1>1. CASE Append
  <2>1. CASE Fits
    <3>1. pc' = "prefix" /\ UNCHANGED <<flash, ram, locals>> /\ call # NoCall
        BY <1>1, <2>1 DEF Append, IInv, TypeOK
    <3>2. TypeOK'
        BY <3>1 DEF IInv, TypeOK, Steps
    <3>3. IndexSound'
        BY <3>1 DEF IInv, IndexSound
    <3>4. CallConsistent'
        BY <1>1, <2>1, <3>1 DEF IInv, CallConsistent, Append, Fits
    <3> QED
        BY <3>2, <3>3, <3>4 DEF IInv
  <2>2. CASE ~ Fits /\ pc = "append"
    <3>1. pc' = "clear" /\ UNCHANGED <<flash, ram, locals>>
        BY <1>1, <2>2 DEF Append
    <3>2. TypeOK'
        BY <3>1 DEF IInv, TypeOK, Steps
    <3>3. IndexSound'
        BY <3>1 DEF IInv, IndexSound
    <3>4. CallConsistent'
        BY <2>2, <3>1 DEF IInv, CallConsistent
    <3> QED
        BY <3>2, <3>3, <3>4 DEF IInv
  <2>3. CASE ~ Fits /\ pc # "append"
      BY <1>1, <2>3, AbortInv DEF Append, Abort
  <2> QED
      BY <2>1, <2>2, <2>3
<1>2. CASE AppendPrefix
  <2>1. SafeImage(active, PrefixImage(nextOff, call.val))
      BY <1>2, InFlightSafe DEF AppendPrefix, InFlight
  <2>2. /\ flash' = [c \in Banks |-> flash'[c]]
        /\ \A c \in Banks : flash'[c] \in Contents(c)
        /\ IndexesRecords(flash'[active], BankSize[active], indices, nextOff)
      BY <1>2, <2>1, WriteSound DEF AppendPrefix
  <2>3. TypeOK'
      BY <1>2, <2>2 DEF IInv, TypeOK, AppendPrefix, Steps
  <2>4. IndexSound'
      BY <1>2, <2>2, EmptyIndexSound, NotInspectedTyped
      DEF IInv, IndexSound, CallConsistent, AppendPrefix
  <2>5. CallConsistent'
      BY <1>2 DEF IInv, CallConsistent, AppendPrefix
  <2> QED
      BY <2>3, <2>4, <2>5 DEF IInv
<1>3. CASE AppendRecord
  <2> DEFINE k == call.key
             v == call.val
             entry == [off |-> nextOff, size |-> SizeOf[v]]
             bank == flash'[active]
  <2>1. /\ k \in Keys /\ v \in Values /\ nextOff \in Nat /\ nextOff # 0
        /\ SizeOf[v] \in Nat /\ SizeOf[v] >= 1
        /\ active \in Banks /\ indices \in [Keys -> Entries]
        /\ BankSize[active] \in Nat /\ nextOff + SizeOf[v] <= BankSize[active] + 1
        /\ flash[active] \in Contents(active)
      BY <1>3, SizesPositive, BankAssumption
      DEF IInv, TypeOK, CallConsistent, AppendRecord
  <2>2. SafeImage(active, RecordImage(nextOff, k, v))
      BY <1>3, InFlightSafe DEF AppendRecord, InFlight
  <2>3. /\ flash' = [c \in Banks |-> flash'[c]]
        /\ \A c \in Banks : flash'[c] \in Contents(c)
        /\ IndexesRecords(bank, BankSize[active], indices, nextOff)
      BY <1>3, <2>2, WriteSound DEF AppendRecord
  <2>4. bank = Written(flash[active], RecordImage(nextOff, k, v))
      BY <1>3, <2>1 DEF AppendRecord, Write, IInv, TypeOK
  <2>5. HoldsRecord(bank, nextOff, k, v)
    <3>1. ASSUME NEW i \in 0 .. SizeOf[v] - 1
          PROVE  Written(flash[active], RecordImage(nextOff, k, v))[nextOff + i]
                    = Fragment(k, v, i)
      <4>1. /\ nextOff + i \in DOMAIN flash[active]
            /\ nextOff + i \in nextOff .. nextOff + SizeOf[v] - 1
            /\ (nextOff + i) - nextOff = i
          BY <2>1 DEF Contents
      <4> QED
          BY <4>1 DEF Written, RecordImage
    <3> QED
        BY <2>4, <3>1 DEF HoldsRecord
  <2>6. indices' = [indices EXCEPT ![k] = entry] /\ entry \in Entries
      BY <1>3, <2>1 DEF AppendRecord, Entries
  <2>7. /\ nextOff' = nextOff + SizeOf[v] /\ active' = active /\ pc' = "idle"
        /\ found' = NotInspected /\ call' = NoCall /\ todo' = {} /\ dest' = 0
        /\ UNCHANGED <<isOpen, generation>>
      BY <1>3 DEF AppendRecord, Answer
  <2>8. TypeOK'
      BY <2>1, <2>3, <2>6, <2>7, NotInspectedTyped DEF IInv, TypeOK, Steps
  <2>9. IndexesRecords(bank, BankSize[active], indices', nextOff')
    <3> SUFFICES ASSUME NEW j \in Used(indices')
                 PROVE  /\ indices'[j].off + indices'[j].size <= nextOff'
                        /\ nextOff' <= BankSize[active] + 1
                        /\ \E u \in Values : /\ SizeOf[u] = indices'[j].size
                                             /\ HoldsRecord(bank, indices'[j].off, j, u)
        BY DEF IndexesRecords
    <3>1. CASE j = k
        BY <2>1, <2>5, <2>6, <2>7, <3>1
    <3>2. CASE j # k
      <4>1. j \in Used(indices) /\ indices'[j] = indices[j] /\ indices[j] \in Entries
          BY <2>1, <2>6, <3>2 DEF Used
      <4> QED
          BY <2>1, <2>3, <2>7, <4>1 DEF IndexesRecords, Entries
    <3> QED
        BY <3>1, <3>2
  <2>10. IndexSound'
      BY <2>7, <2>9, EmptyIndexSound, NotInspectedTyped DEF IndexSound
  <2>11. CallConsistent'
      BY <2>7 DEF CallConsistent
  <2> QED
      BY <2>8, <2>10, <2>11 DEF IInv
<1> QED
    BY <1>1, <1>2, <1>3 DEF AppendStep

\* The steps of compact() keep the invariant.
LEMMA CompactStepInv ==
    ASSUME IInv, CompactStep PROVE IInv'
<1> USE DEF ram, locals
<1>1. CASE ClearDestination
  <2>1. SafeImage(Inactive(active), EraseImage(Inactive(active)))
      BY <1>1, InFlightSafe DEF ClearDestination, InFlight
  <2>2. /\ flash' = [c \in Banks |-> flash'[c]]
        /\ \A c \in Banks : flash'[c] \in Contents(c)
        /\ IndexesRecords(flash'[active], BankSize[active], indices, nextOff)
      BY <1>1, <2>1, WriteSound DEF ClearDestination
  <2>3. TypeOK'
      BY <1>1, <2>2 DEF IInv, TypeOK, ClearDestination, Steps, Used
  <2>4. IndexSound'
      BY <1>1, <2>2, EmptyIndexSound, NotInspectedTyped
      DEF IInv, IndexSound, CallConsistent, ClearDestination
  <2>5. CallConsistent'
      BY <1>1 DEF IInv, CallConsistent, ClearDestination
  <2> QED
      BY <2>3, <2>4, <2>5 DEF IInv
<1>2. ASSUME NEW k \in Keys, CopyRecord(k) PROVE IInv'
  <2> DEFINE e == indices[k]
             d == Inactive(active)
             copied == Written(flash[d], CopyImage(e))
             verified == \E v \in Values : SizeOf[v] = e.size /\ HoldsRecord(copied, dest, k, v)
  <2>1. CASE dest + e.size > BankSize[d] + 1
      BY <1>2, <2>1, AbortInv DEF CopyRecord
  <2>2. CASE ~ (dest + e.size > BankSize[d] + 1)
    <3>1. SafeImage(d, CopyImage(e))
      <4>1. <<d, CopyImage(e)>> \in InFlight
          BY <1>2 DEF CopyRecord, InFlight
      <4> QED
          BY <4>1, InFlightSafe
    <3>2. Write(d, CopyImage(e))
        BY <1>2, <2>2 DEF CopyRecord, Write
    <3>3. CASE ~ verified
        BY <1>2, <2>2, <3>1, <3>2, <3>3, AbortInv DEF CopyRecord
    <3>4. CASE verified
      <4>1. /\ flash' = [c \in Banks |-> flash'[c]]
            /\ \A c \in Banks : flash'[c] \in Contents(c)
            /\ IndexesRecords(flash'[active], BankSize[active], indices, nextOff)
          BY <3>1, <3>2, WriteSound
      <4>2. /\ todo' = todo \ {k} /\ dest' = dest + e.size
            /\ pc' = IF todo = {k} THEN "seal" ELSE "copy"
            /\ pc = "copy" /\ k \in todo
            /\ UNCHANGED <<ram, call, found>>
          BY <1>2, <2>2, <3>4 DEF CopyRecord
      <4>3. dest' \in Nat
          BY <4>2 DEF IInv, TypeOK, Entries
      <4>4. TypeOK'
          BY <4>1, <4>2, <4>3 DEF IInv, TypeOK, Steps
      <4>5. IndexSound'
          BY <4>1, <4>2, EmptyIndexSound, NotInspectedTyped
          DEF IInv, IndexSound, CallConsistent
      <4>6. CallConsistent'
          BY <4>2 DEF IInv, CallConsistent
      <4> QED
          BY <4>4, <4>5, <4>6 DEF IInv
    <3> QED
        BY <3>3, <3>4
  <2> QED
      BY <2>1, <2>2
<1>3. CASE Seal
  <2>1. SafeImage(Inactive(active), HeaderImage(NextGeneration))
      BY <1>3, InFlightSafe DEF Seal, InFlight
  <2>2. /\ flash' = [c \in Banks |-> flash'[c]]
        /\ \A c \in Banks : flash'[c] \in Contents(c)
      BY <1>3, <2>1, WriteSound DEF Seal
  <2>3. Inactive(active) \in Banks /\ NextGeneration \in Generations
      BY GenerationAssumption
      DEF IInv, TypeOK, Inactive, Banks, NextGeneration, Generations
  <2>4. TypeOK'
      BY <1>3, <2>2, <2>3, EmptyIndexSound DEF IInv, TypeOK, Seal, Steps
  <2>5. IndexSound'
      BY <1>3, EmptyIndexSound, NotInspectedTyped DEF IInv, IndexSound, CallConsistent, Seal
  <2>6. CallConsistent'
      BY <1>3 DEF IInv, CallConsistent, Seal
  <2> QED
      BY <2>4, <2>5, <2>6 DEF IInv
<1>4. CASE Rescan
  <2> DEFINE st0 == [res |-> "Scanning", gen |-> generation,
                     idx |-> indices, next |-> nextOff]
             st == ScanStep(flash[active], BankSize[active], st0)
  <2>1. st0 \in BankStates
      BY DEF IInv, TypeOK, BankStates, Verdicts
  <2>2. /\ st \in BankStates
        /\ IndexesRecords(flash[active], BankSize[active], st.idx, st.next)
      BY <2>1, ScanStepSound DEF IInv, TypeOK, IndexSound
  <2>3. /\ indices' = st.idx /\ nextOff' = st.next
        /\ UNCHANGED <<flash, active, generation>> /\ pc = "rescan"
      BY <1>4 DEF Rescan
  <2>4. /\ pc' \in {"rescan", "idle", "reappend"}
        /\ pc' = "reappend" => call' = call /\ call # NoCall
        /\ isOpen' \in BOOLEAN
        /\ call' \in {call, NoCall} /\ found' \in {found, NotInspected}
        /\ todo' \in {todo, {}} /\ dest' \in {dest, 0}
      BY <1>4 DEF Rescan, Opened, Answer, IInv, TypeOK
  <2>5. found = NotInspected /\ todo = {}
      BY <2>3 DEF IInv, CallConsistent
  <2> HIDE DEF st
  <2>6. TypeOK'
      BY <2>2, <2>3, <2>4, NotInspectedTyped DEF IInv, TypeOK, BankStates, Steps
  <2>7. IndexSound'
      BY <2>2, <2>3, <2>4, <2>5, EmptyIndexSound, NotInspectedTyped DEF IndexSound
  <2>8. CallConsistent'
      BY <2>4, <2>5 DEF CallConsistent
  <2> QED
      BY <2>6, <2>7, <2>8 DEF IInv
<1> QED
    BY <1>1, <1>2, <1>3, <1>4 DEF CompactStep
\* Calls that begin, and load(), keep the invariant.
LEMMA CallerInv ==
    ASSUME IInv, Caller PROVE IInv'
<1> USE DEF ram, locals
<1>1. CASE OpenCall
  <2>1. TypeOK'
      BY <1>1, EmptyIndexSound DEF IInv, TypeOK, OpenCall, Steps
  <2>2. IndexSound'
      BY <1>1, EmptyIndexSound DEF IInv, IndexSound, OpenCall
  <2>3. CallConsistent'
      BY <1>1 DEF IInv, CallConsistent, OpenCall
  <2> QED
      BY <2>1, <2>2, <2>3 DEF IInv
<1>2. ASSUME NEW k \in Keys, NEW v \in Values, StoreCall(k, v) PROVE IInv'
  <2>1. [key |-> k, val |-> v] \in [key : Keys, val : Values]
      OBVIOUS
  <2>2. TypeOK'
      BY <1>2, <2>1, CallAssumption DEF IInv, TypeOK, StoreCall, Steps
  <2>3. IndexSound'
      BY <1>2 DEF IInv, IndexSound, StoreCall
  <2>4. CallConsistent'
      BY <1>2 DEF IInv, CallConsistent, StoreCall
  <2> QED
      BY <2>2, <2>3, <2>4 DEF IInv
<1>3. ASSUME NEW k \in Keys, Load(k) \/ LoadError(k) PROVE IInv'
  <2>1. UNCHANGED <<flash, ram, pc, locals>>
      BY <1>3 DEF Load, LoadError
  <2> QED
      BY <2>1 DEF IInv, TypeOK, IndexSound, CallConsistent
<1> QED
    BY <1>1, <1>2, <1>3 DEF Caller

\* Power loss, device errors and decay keep the invariant.
LEMMA EnvironmentInv ==
    ASSUME IInv, Environment PROVE IInv'
<1> USE DEF ram, locals
<1>1. CASE PowerLoss
  <2>1. /\ flash' = [c \in Banks |-> flash'[c]]
        /\ \A c \in Banks : flash'[c] \in Contents(c)
    <3>1. CASE UNCHANGED flash
        BY <3>1 DEF IInv, TypeOK
    <3>2. CASE \E w \in InFlight : \E part \in Parts(w[2]) : Write(w[1], part)
      <4>1. PICK w \in InFlight : \E part \in Parts(w[2]) : Write(w[1], part)
          BY <3>2
      <4>2. \A part \in Parts(w[2]) : SafeImage(w[1], part)
          BY InFlightSafe, PartsSafe
      <4> QED
          BY <4>1, <4>2, WriteSound
    <3> QED
        BY <1>1, <3>1, <3>2 DEF PowerLoss
  <2>2. /\ isOpen' = FALSE /\ active' = "A" /\ generation' = 0 /\ indices' = EmptyIndex
        /\ nextOff' = 1 /\ pc' = "idle" /\ call' = NoCall /\ found' = NotInspected
        /\ todo' = {} /\ dest' = 0
      BY <1>1 DEF PowerLoss
  <2>3. "A" \in Banks /\ 0 \in Generations
      BY GenerationAssumption DEF Banks, Generations
  <2>4. TypeOK'
    <3>1. isOpen' \in BOOLEAN
        BY <2>2, Zenon
    <3>2. nextOff' \in Nat \ {0} /\ dest' \in Nat
        BY <2>2
    <3>3. todo' \subseteq Keys
        BY <2>2
    <3>4. indices' \in [Keys -> Entries] /\ found' \in [Banks -> BankStates]
        BY <2>2, EmptyIndexSound, NotInspectedTyped
    <3>5. pc' \in Steps /\ pc' \notin {"append", "reappend", "prefix", "record"}
        BY <2>2 DEF Steps
    <3> QED
        BY <2>1, <2>2, <2>3, <3>1, <3>2, <3>3, <3>4, <3>5, Zenon DEF TypeOK
  <2>5. IndexSound'
      BY <2>2, EmptyIndexSound, NotInspectedTyped DEF IndexSound
  <2>6. CallConsistent'
      BY <2>2 DEF CallConsistent
  <2> QED
      BY <2>4, <2>5, <2>6 DEF IInv
<1>2. CASE WriteError
  <2>1. PICK w \in InFlight :
            \/ UNCHANGED flash
            \/ \E part \in Parts(w[2]) : Write(w[1], part)
            \/ Write(w[1], w[2])
      BY <1>2 DEF WriteError
  <2>2. UNCHANGED flash \/ \E b, image : SafeImage(b, image) /\ Write(b, image)
      BY <2>1, InFlightSafe, PartsSafe
  <2> QED
      BY <1>2, <2>2, AbortInv DEF WriteError
<1>3. CASE ReadError
    BY <1>3, AbortInv DEF ReadError
<1>4. CASE VerifyError
  <2>1. \E b, image : SafeImage(b, image) /\ Write(b, image)
      BY <1>4, InFlightSafe DEF VerifyError
  <2> QED
      BY <1>4, <2>1, AbortInv DEF VerifyError
<1>5. CASE RescanError
    BY <1>5, AbortInv DEF RescanError
<1>6. ASSUME NEW b \in Banks, Decay(b) PROVE IInv'
  <2>1. SafeImage(b, [p \in {0} |-> Mangled("damaged")])
      BY CellsTyped DEF SafeImage, MangledKinds
  <2>2. /\ flash' = [c \in Banks |-> flash'[c]]
        /\ \A c \in Banks : flash'[c] \in Contents(c)
        /\ IndexesRecords(flash'[active], BankSize[active], indices, nextOff)
      BY <1>6, <2>1, WriteSound DEF Decay
  <2>3. TypeOK'
      BY <1>6, <2>2 DEF IInv, TypeOK, Decay
  <2>4. IndexSound'
      BY <1>6, <2>2, EmptyIndexSound, NotInspectedTyped
      DEF IInv, IndexSound, CallConsistent, Decay
  <2>5. CallConsistent'
      BY <1>6 DEF IInv, CallConsistent, Decay
  <2> QED
      BY <2>3, <2>4, <2>5 DEF IInv
<1> QED
    BY <1>1, <1>2, <1>3, <1>4, <1>5, <1>6 DEF Environment

\* Every step keeps the invariant.
LEMMA StepInv == IInv /\ [Next]_vars => IInv'
<1>1. ASSUME IInv, UNCHANGED vars PROVE IInv'
    BY <1>1 DEF vars, ram, locals, IInv, TypeOK, IndexSound, CallConsistent
<1> QED
    BY <1>1, OpenStepInv, AppendStepInv, CompactStepInv, CallerInv, EnvironmentInv DEF Next

\* The inductive invariant holds in every reachable state.
THEOREM Invariance == Spec => []IInv
    BY InitInv, StepInv, PTL DEF Spec

\* Type correctness, for every number of keys and values, bank and record sizes,
\* index capacity, fault class and torn write.
THEOREM TypeCorrect == Spec => []TypeOK
<1>1. IInv => TypeOK
    BY DEF IInv
<1> QED
    BY <1>1, Invariance, PTL

\* The index in RAM and the scans of open() only ever refer to intact records of
\* their own keys, below the write offset and inside the bank.
THEOREM IndexAlwaysSound == Spec => []IndexSound
<1>1. IInv => IndexSound
    BY DEF IInv
<1> QED
    BY <1>1, Invariance, PTL

-------------------------------------------------------------------------------
(* Live records are never disturbed *)

\* Every step leaves the device alone or issues one safe write.
LEMMA StepWritesSafely ==
    ASSUME IInv, [Next]_vars
    PROVE  UNCHANGED flash \/ \E b, image : SafeImage(b, image) /\ Write(b, image)
<1>1. CASE OpenStep
  <2>1. CASE Recover
    <3>1. SafeImage(Inactive(active), EraseImage(Inactive(active)))
        BY <2>1, InFlightSafe DEF Recover, InFlight
    <3> QED
        BY <2>1, <3>1 DEF Recover
  <2>2. CASE Format
    <3>1. SafeImage("A", HeaderImage(0))
        BY <2>2, InFlightSafe DEF Format, InFlight
    <3> QED
        BY <2>2, <3>1 DEF Format
  <2> QED
      BY <1>1, <2>1, <2>2
      DEF OpenStep, InspectHeader, ScanRecord, RefuseBanks, SelectValid, SelectBlank,
          SelectSalvage, Salvage
<1>2. CASE AppendStep
  <2>1. CASE AppendPrefix
    <3>1. SafeImage(active, PrefixImage(nextOff, call.val))
        BY <2>1, InFlightSafe DEF AppendPrefix, InFlight
    <3> QED
        BY <2>1, <3>1 DEF AppendPrefix
  <2>2. CASE AppendRecord
    <3>1. SafeImage(active, RecordImage(nextOff, call.key, call.val))
        BY <2>2, InFlightSafe DEF AppendRecord, InFlight
    <3> QED
        BY <2>2, <3>1 DEF AppendRecord
  <2> QED
      BY <1>2, <2>1, <2>2 DEF AppendStep, Append
<1>3. CASE CompactStep
  <2>1. CASE ClearDestination
    <3>1. SafeImage(Inactive(active), EraseImage(Inactive(active)))
        BY <2>1, InFlightSafe DEF ClearDestination, InFlight
    <3> QED
        BY <2>1, <3>1 DEF ClearDestination
  <2>2. ASSUME NEW k \in Keys, CopyRecord(k)
        PROVE  UNCHANGED flash \/ \E b, image : SafeImage(b, image) /\ Write(b, image)
    <3>1. <<Inactive(active), CopyImage(indices[k])>> \in InFlight
        BY <2>2 DEF CopyRecord, InFlight
    <3>2. SafeImage(Inactive(active), CopyImage(indices[k]))
        BY <3>1, InFlightSafe
    <3>3. UNCHANGED flash \/ Write(Inactive(active), CopyImage(indices[k]))
        BY <2>2 DEF CopyRecord, Write
    <3> QED
        BY <3>2, <3>3
  <2>3. CASE Seal
    <3>1. SafeImage(Inactive(active), HeaderImage(NextGeneration))
        BY <2>3, InFlightSafe DEF Seal, InFlight
    <3> QED
        BY <2>3, <3>1 DEF Seal
  <2> QED
      BY <1>3, <2>1, <2>2, <2>3 DEF CompactStep, Rescan
<1>4. CASE Caller
    BY <1>4 DEF Caller, OpenCall, StoreCall, Load, LoadError
<1>5. CASE Environment
  <2>1. ASSUME NEW w \in InFlight, NEW part, Write(w[1], part),
               part \in Parts(w[2]) \/ part = w[2]
        PROVE  \E b, image : SafeImage(b, image) /\ Write(b, image)
      BY <2>1, InFlightSafe, PartsSafe
  <2>2. ASSUME NEW b \in Banks, Decay(b)
        PROVE  \E c, image : SafeImage(c, image) /\ Write(c, image)
    <3>1. SafeImage(b, [p \in {0} |-> Mangled("damaged")])
        BY CellsTyped DEF SafeImage, MangledKinds
    <3> QED
        BY <2>2, <3>1 DEF Decay
  <2> QED
      BY <1>5, <2>1, <2>2
      DEF Environment, PowerLoss, WriteError, ReadError, VerifyError, RescanError
<1>6. CASE UNCHANGED vars
    BY <1>6 DEF vars
<1> QED
    BY <1>1, <1>2, <1>3, <1>4, <1>5, <1>6 DEF Next

\* No step, complete or torn or failed, changes a unit of a record that the RAM
\* index refers to: append() and compact() only ever supersede a record.
THEOREM LiveRecordsAlwaysKept == Spec => LiveRecordsKept
<1> DEFINE Kept == \A k \in Used(indices) :
                     \A p \in indices[k].off .. indices[k].off + indices[k].size - 1 :
                        flash'[active][p] = flash[active][p]
<1>1. ASSUME IInv, [Next]_vars PROVE Kept
  <2> SUFFICES ASSUME NEW k \in Used(indices),
                      NEW p \in indices[k].off .. indices[k].off + indices[k].size - 1
               PROVE  flash'[active][p] = flash[active][p]
      OBVIOUS
  <2>1. /\ k \in Keys /\ indices[k].off \in Nat /\ indices[k].off # 0
        /\ indices[k].size \in Nat /\ nextOff \in Nat /\ active \in Banks
        /\ indices[k].off + indices[k].size <= nextOff
        /\ flash = [b \in Banks |-> flash[b]]
      BY <1>1 DEF IInv, TypeOK, IndexSound, IndexesRecords, Used, Entries
  <2>2. p \in Int /\ p # 0 /\ p < nextOff
      BY <2>1
  <2>3. CASE UNCHANGED flash
      BY <2>3
  <2>4. ASSUME NEW b, NEW image, SafeImage(b, image), Write(b, image)
        PROVE  flash'[active][p] = flash[active][p]
    <3>1. CASE b # active
        BY <2>1, <2>4, <3>1 DEF Write
    <3>2. CASE b = active
      <4>1. p \notin DOMAIN image
          BY <2>1, <2>2, <2>4, <3>2 DEF SafeImage
      <4>2. flash'[active] = Written(flash[active], image)
          BY <2>1, <2>4, <3>2 DEF Write
      <4>3. p \in DOMAIN flash[active]
        <5>1. /\ flash[active] \in Contents(active) /\ BankSize[active] \in Nat
              /\ nextOff <= BankSize[active] + 1
            BY <1>1, <2>1, BankAssumption DEF IInv, TypeOK, IndexSound, IndexesRecords
        <5> QED
            BY <2>1, <2>2, <5>1 DEF Contents
      <4> QED
          BY <4>1, <4>2, <4>3 DEF Written
    <3> QED
        BY <3>1, <3>2
  <2> QED
      BY <1>1, <2>3, <2>4, StepWritesSafely
<1>2. IInv /\ [Next]_vars => [Kept]_vars
    BY <1>1
<1> QED
    BY <1>2, Invariance, PTL DEF Spec, LiveRecordsKept

-------------------------------------------------------------------------------
(* Scans run to their end *)

\* Every set of natural numbers that is not empty has a least element.
LEMMA LeastNumber ==
    ASSUME NEW S, S \subseteq Nat, S # {}
    PROVE  \E m \in S : \A n \in S : m <= n
<1> DEFINE R == {z \in Nat \X Nat : z[1] < z[2]}
<1>1. IsWellFoundedOn(R, Nat)
    BY NatLessThanWellFounded DEF OpToRel
<1>2. PICK m \in S : \A n \in S : ~ (<<n, m>> \in R)
  <2> HIDE DEF R
  <2> QED
      BY <1>1, WFMin
<1>3. \A n \in S : ~ (n < m)
    BY <1>2
<1> QED
    BY <1>3

\* The states that scanBank's loop goes through, by the number of its iterations.
Iterated(bank, size, sts) ==
    {IF st.res = "Scanning" THEN ScanStep(bank, size, st) ELSE st : st \in sts}

IsRun(run, bank, size, st0, n) ==
    run = [i \in 0 .. n |-> IF i = 0 THEN {st0} ELSE Iterated(bank, size, run[i - 1])]

\* The recursive function in Settled exists, so that it satisfies its equation.
LEMMA RunExists ==
    ASSUME NEW bank, NEW size \in Nat, NEW st0, NEW n \in Nat
    PROVE  \E run : IsRun(run, bank, size, st0, n)
<1> DEFINE F(run, m) == [i \in 0 .. m |-> IF i = 0 THEN {st0}
                                          ELSE Iterated(bank, size, run[i - 1])]
           S == {m \in Nat : ~ \E run : run = F(run, m)}
<1>1. SUFFICES ASSUME S # {} PROVE FALSE
    BY DEF IsRun
<1>2. PICK m \in S : \A i \in S : m <= i
    BY <1>1, LeastNumber
<1>3. m # 0
  <2>1. [i \in 0 .. 0 |-> {st0}] = F([i \in 0 .. 0 |-> {st0}], 0)
      OBVIOUS
  <2> QED
      BY <2>1
<1>4. m - 1 \in Nat /\ m - 1 \notin S
  <2>1. m \in Nat
      OBVIOUS
  <2> HIDE DEF S
  <2> QED
      BY <1>2, <1>3, <2>1
<1>5. PICK run : run = F(run, m - 1)
    BY <1>4
<1> DEFINE next == [i \in 0 .. m |-> IF i = 0 THEN {st0}
                                     ELSE Iterated(bank, size, run[i - 1])]
<1>6. \A i \in 0 .. m - 1 : next[i] = run[i]
  <2> SUFFICES ASSUME NEW i \in 0 .. m - 1 PROVE next[i] = run[i]
      OBVIOUS
  <2>1. run[i] = IF i = 0 THEN {st0} ELSE Iterated(bank, size, run[i - 1])
      BY <1>5
  <2> QED
      BY <2>1
<1>7. next = F(next, m)
  <2>1. \A i \in 0 .. m : i # 0 => i - 1 \in 0 .. m - 1
      OBVIOUS
  <2>2. \A i \in 0 .. m : i # 0 => next[i - 1] = run[i - 1]
    <3> HIDE DEF next
    <3> QED
        BY <1>6, <2>1
  <2> QED
      BY <2>2
<1> QED
    BY <1>7

\* A scan that keeps to a set of states in which each further iteration moves on
\* within the bank ends in one of them.
LEMMA SettledIn ==
    ASSUME NEW bank, NEW size \in Nat, NEW J, NEW st0 \in J,
           \A st \in J : st.next \in Nat \ {0},
           \A st \in J : st.res = "Scanning" =>
              /\ ScanStep(bank, size, st) \in J
              /\ ScanStep(bank, size, st).res = "Scanning" =>
                    /\ ScanStep(bank, size, st).next > st.next
                    /\ ScanStep(bank, size, st).next <= size + 1
    PROVE  Settled(bank, size, st0) \in J /\ Settled(bank, size, st0).res # "Scanning"
<1> DEFINE run == CHOOSE r : IsRun(r, bank, size, st0, size + 1)
           Good(i) == \E st \in J : /\ run[i] = {st}
                                    /\ st.res = "Scanning" => /\ st.next > i
                                                              /\ i # 0 => st.next <= size + 1
           S == {i \in 0 .. size + 1 : ~ Good(i)}
<1>1. IsRun(run, bank, size, st0, size + 1)
  <2>1. size + 1 \in Nat
      OBVIOUS
  <2>2. \E r : IsRun(r, bank, size, st0, size + 1)
      BY <2>1, RunExists
  <2> QED
      BY <2>2, Zenon
<1>2. Settled(bank, size, st0) = CHOOSE st \in run[size + 1] : TRUE
    BY DEF Settled, Iterated, IsRun
<1> HIDE DEF run
<1>3. Good(0)
  <2>1. run[0] = {st0}
      BY <1>1 DEF IsRun
  <2> QED
      BY <2>1
<1>4. ASSUME NEW i \in 0 .. size, Good(i) PROVE Good(i + 1)
  <2>1. PICK st \in J : /\ run[i] = {st}
                        /\ st.res = "Scanning" => st.next > i
      BY <1>4
  <2>2. run[i + 1] = Iterated(bank, size, {st})
    <3>1. i + 1 \in 0 .. size + 1 /\ i + 1 # 0 /\ (i + 1) - 1 = i
        OBVIOUS
    <3>2. run[i + 1] = Iterated(bank, size, run[(i + 1) - 1])
        BY <1>1, <3>1 DEF IsRun
    <3> QED
        BY <2>1, <3>1, <3>2
  <2>3. CASE st.res = "Scanning"
    <3>1. run[i + 1] = {ScanStep(bank, size, st)}
        BY <2>2, <2>3 DEF Iterated
    <3>2. ScanStep(bank, size, st) \in J /\ st.next \in Nat /\ ScanStep(bank, size, st).next \in Nat
        BY <2>3
    <3> QED
        BY <2>1, <2>3, <3>1, <3>2
  <2>4. CASE st.res # "Scanning"
    <3>1. run[i + 1] = {st}
        BY <2>2, <2>4 DEF Iterated
    <3> QED
        BY <2>4, <3>1
  <2> QED
      BY <2>3, <2>4
<1>5. S = {}
  <2>1. SUFFICES ASSUME S # {} PROVE FALSE
      OBVIOUS
  <2>2. S \subseteq Nat
      OBVIOUS
  <2>3. PICK m \in S : \A i \in S : m <= i
      BY <2>1, <2>2, LeastNumber
  <2>4. m \in 0 .. size + 1 /\ m # 0 /\ ~ Good(m)
      BY <1>3
  <2>5. m - 1 \in 0 .. size
      BY <2>4
  <2>6. ~ (m <= m - 1)
      BY <2>4
  <2>7. m - 1 \notin S
    <3> HIDE DEF S
    <3> QED
        BY <2>3, <2>6
  <2>8. Good(m - 1)
      BY <2>5, <2>7
  <2>9. Good((m - 1) + 1)
    <3> HIDE DEF Good
    <3> QED
        BY <1>4, <2>5, <2>8
  <2>10. (m - 1) + 1 = m
      BY <2>4
  <2> QED
      BY <2>4, <2>9, <2>10
<1>6. Good(size + 1)
    BY <1>5
<1> QED
    BY <1>2, <1>6

-------------------------------------------------------------------------------
(* Heads and records *)

\* A cell is either no head, or a type prefix or first unit that fits its record.
LEMMA HeadFields ==
    ASSUME NEW c \in Cells
    PROVE  /\ HeadSize(c) \in Nat
           /\ HeadSize(c) # 0 => /\ c.kind \in {"type", "record"}
                                 /\ PrefixUnits <= HeadSize(c)
           /\ HeadSize(c) # 0 /\ c.kind = "record" =>
                 c.unit = 0 /\ HeadSize(c) = SizeOf[c.val]
<1>1. CASE c.kind = "type"
    BY <1>1, CellFields, SizesPositive, PrefixAssumption DEF HeadSize, Sizes
<1>2. CASE c.kind = "record" /\ c.unit = 0
    BY <1>2, CellFields, SizesPositive, PrefixAssumption DEF HeadSize
<1> QED
    BY <1>1, <1>2 DEF HeadSize

\* The first unit of a whole record is the head of that record.
LEMMA RecordHead ==
    ASSUME NEW bank, NEW p \in Nat, NEW k \in Keys, NEW v \in Values,
           HoldsRecord(bank, p, k, v)
    PROVE  /\ bank[p] = Fragment(k, v, 0)
           /\ bank[p].kind = "record" /\ bank[p].key = k /\ bank[p].val = v
           /\ HeadSize(bank[p]) = SizeOf[v] /\ IsHead(bank, p)
<1>1. SizeOf[v] \in Nat /\ SizeOf[v] >= 1
    BY SizesPositive
<1>2. bank[p + 0] = Fragment(k, v, 0)
    BY <1>1 DEF HoldsRecord
<1>3. bank[p] = Fragment(k, v, 0)
    BY <1>2
<1> QED
    BY <1>1, <1>3 DEF Fragment, HeadSize, IsHead

\* Whether a record is whole depends on its own units only.
LEMMA RecordFrame ==
    ASSUME NEW bank, NEW other, NEW p \in Nat, NEW k \in Keys, NEW v \in Values,
           \A q \in p .. p + SizeOf[v] - 1 : other[q] = bank[q],
           HoldsRecord(bank, p, k, v)
    PROVE  HoldsRecord(other, p, k, v)
<1>1. SizeOf[v] \in Nat
    BY SizesPositive
<1>2. \A i \in 0 .. SizeOf[v] - 1 : p + i \in p .. p + SizeOf[v] - 1
    BY <1>1
<1> QED
    BY <1>2 DEF HoldsRecord

\* A chain depends on the units below its end only.
LEMMA ChainFrame ==
    ASSUME NEW bank, NEW other, NEW next \in Nat \ {0},
           \A q \in 1 .. next - 1 : other[q] = bank[q],
           \A q \in 1 .. next - 1 : HeadSize(bank[q]) \in Nat,
           Chain(bank, next)
    PROVE  Chain(other, next)
<1>1. \A q \in 1 .. next - 1 : IsHead(other, q) = IsHead(bank, q) /\ EndOf(other, q) = EndOf(bank, q)
    BY DEF IsHead, EndOf
<1>2. next = 1 \/ IsHead(other, 1)
    BY <1>1 DEF Chain
<1>3. ASSUME NEW p \in 1 .. next - 1, IsHead(other, p)
      PROVE  /\ EndOf(other, p) <= next
             /\ EndOf(other, p) # next => IsHead(other, EndOf(other, p))
             /\ \A q \in p + 1 .. EndOf(other, p) - 1 : ~ IsHead(other, q)
  <2>1. IsHead(bank, p) /\ EndOf(other, p) = EndOf(bank, p)
      BY <1>1, <1>3
  <2>2. EndOf(bank, p) \in Nat /\ EndOf(bank, p) <= next /\ EndOf(bank, p) > p
      BY <2>1 DEF Chain, EndOf, IsHead
  <2>3. EndOf(bank, p) # next => IsHead(other, EndOf(bank, p))
    <3>1. EndOf(bank, p) # next => EndOf(bank, p) \in 1 .. next - 1
        BY <2>2
    <3> QED
        BY <1>1, <2>1, <3>1 DEF Chain
  <2>4. \A q \in p + 1 .. EndOf(bank, p) - 1 : q \in 1 .. next - 1
      BY <2>2
  <2>5. \A q \in p + 1 .. EndOf(bank, p) - 1 : ~ IsHead(other, q)
      BY <1>1, <2>1, <2>4 DEF Chain
  <2> QED
      BY <2>1, <2>2, <2>3, <2>5
<1> QED
    BY <1>2, <1>3 DEF Chain

\* A chain goes on over the head at its end.
LEMMA ChainNext ==
    ASSUME NEW bank, NEW next \in Nat \ {0}, Chain(bank, next),
           HeadSize(bank[next]) \in Nat, IsHead(bank, next),
           \A q \in 1 .. next - 1 : HeadSize(bank[q]) \in Nat,
           \A q \in next + 1 .. EndOf(bank, next) - 1 : ~ IsHead(bank, q)
    PROVE  Chain(bank, EndOf(bank, next))
<1> DEFINE e == EndOf(bank, next)
<1>1. e \in Nat /\ e > next
    BY DEF EndOf, IsHead
<1>2. IsHead(bank, 1)
    BY DEF Chain
<1>3. ASSUME NEW p \in 1 .. e - 1, IsHead(bank, p)
      PROVE  /\ EndOf(bank, p) <= e
             /\ EndOf(bank, p) # e => IsHead(bank, EndOf(bank, p))
             /\ \A q \in p + 1 .. EndOf(bank, p) - 1 : ~ IsHead(bank, q)
  <2>1. CASE p < next
    <3>1. p \in 1 .. next - 1 /\ EndOf(bank, p) \in Nat
        BY <2>1 DEF EndOf
    <3>2. EndOf(bank, p) <= next /\ (EndOf(bank, p) # next => IsHead(bank, EndOf(bank, p)))
        BY <1>3, <3>1 DEF Chain
    <3>3. \A q \in p + 1 .. EndOf(bank, p) - 1 : ~ IsHead(bank, q)
        BY <1>3, <3>1 DEF Chain
    <3> QED
        BY <1>1, <3>1, <3>2, <3>3
  <2>2. CASE p = next
      BY <1>1, <2>2
  <2>3. CASE p > next
    <3>1. p \in next + 1 .. e - 1
        BY <1>1, <2>3
    <3> QED
        BY <1>3, <3>1
  <2> QED
      BY <1>1, <2>1, <2>2, <2>3
<1> HIDE DEF e
<1> QED
    BY <1>2, <1>3 DEF Chain, e

\* A chain cut off at one of its heads is a chain.
LEMMA ChainPrefix ==
    ASSUME NEW bank, NEW e \in Nat, NEW p \in 1 .. e - 1, Chain(bank, e), IsHead(bank, p),
           \A q \in 1 .. e - 1 : HeadSize(bank[q]) \in Nat
    PROVE  Chain(bank, p)
<1>1. IsHead(bank, 1)
    BY DEF Chain
<1>2. ASSUME NEW r \in 1 .. p - 1, IsHead(bank, r)
      PROVE  /\ EndOf(bank, r) <= p
             /\ EndOf(bank, r) # p => IsHead(bank, EndOf(bank, r))
             /\ \A q \in r + 1 .. EndOf(bank, r) - 1 : ~ IsHead(bank, q)
  <2>1. r \in 1 .. e - 1 /\ EndOf(bank, r) \in Nat
      BY DEF EndOf
  <2>2. \A q \in r + 1 .. EndOf(bank, r) - 1 : ~ IsHead(bank, q)
      BY <1>2, <2>1 DEF Chain
  <2>3. EndOf(bank, r) <= p
    <3>1. ~ (p \in r + 1 .. EndOf(bank, r) - 1)
        BY <2>2
    <3> QED
        BY <2>1, <3>1
  <2>4. EndOf(bank, r) # e
      BY <2>1, <2>3
  <2>5. IsHead(bank, EndOf(bank, r))
      BY <1>2, <2>1, <2>4 DEF Chain
  <2> QED
      BY <2>2, <2>3, <2>5
<1> QED
    BY <1>1, <1>2 DEF Chain

\* A prefix without its record ends a log behind the units it claims.
LEMMA PendingLog ==
    ASSUME NEW b \in Banks, NEW bank \in Contents(b), NEW next \in Nat \ {0},
           Pending(bank, BankSize[b], next)
    PROVE  Log(bank, BankSize[b], EndOf(bank, next)) /\ EndOf(bank, next) > next
<1>1. BankSize[b] \in Nat /\ next \in 1 .. BankSize[b]
    BY BankAssumption DEF Pending
<1>2. \A q \in 0 .. BankSize[b] : bank[q] \in Cells /\ HeadSize(bank[q]) \in Nat
    BY HeadFields DEF Contents
<1>3. IsHead(bank, next) /\ EndOf(bank, next) \in Nat /\ EndOf(bank, next) > next
    BY <1>1, <1>2, CellFields, SizesPositive DEF Pending, IsHead, HeadSize, EndOf
<1>4. \A q \in next + 1 .. BankSize[b] : bank[q] = Erased /\ ~ IsHead(bank, q)
    BY DEF Pending, ErasedFrom, IsHead, HeadSize, Erased
<1>5. EndOf(bank, next) <= BankSize[b] + 1 /\ Chain(bank, next)
    BY DEF Pending
<1>6. Chain(bank, EndOf(bank, next))
  <2>1. \A q \in next + 1 .. EndOf(bank, next) - 1 : ~ IsHead(bank, q)
      BY <1>1, <1>3, <1>4, <1>5
  <2>2. \A q \in 1 .. next - 1 : HeadSize(bank[q]) \in Nat
      BY <1>1, <1>2
  <2>3. HeadSize(bank[next]) \in Nat
      BY <1>1, <1>2
  <2> QED
      BY <1>3, <1>5, <2>1, <2>2, <2>3, ChainNext
<1>7. ErasedFrom(bank, BankSize[b], EndOf(bank, next))
    BY <1>1, <1>3, <1>4, <1>5 DEF ErasedFrom
<1> QED
    BY <1>1, <1>3, <1>5, <1>6, <1>7 DEF Log

\* The records below the end of the head at next are those below next and itself.
LEMMA IntactOver ==
    ASSUME NEW b \in Banks, NEW bank \in Contents(b), NEW next \in 1 .. BankSize[b],
           Chain(bank, next), IsHead(bank, next), EndOf(bank, next) <= BankSize[b] + 1,
           \A q \in next + 1 .. EndOf(bank, next) - 1 : ~ IsHead(bank, q),
           NEW p, NEW k \in Keys, NEW v \in Values,
           Intact(bank, EndOf(bank, next), p, k, v)
    PROVE  p = next \/ Intact(bank, next, p, k, v)
<1>1. BankSize[b] \in Nat
    BY BankAssumption
<1>2. \A q \in 0 .. BankSize[b] : HeadSize(bank[q]) \in Nat
    BY HeadFields DEF Contents
<1>3. EndOf(bank, next) \in Nat
    BY <1>1, <1>2 DEF EndOf
<1>4. p \in 1 .. EndOf(bank, next) - 1
    BY DEF Intact
<1>5. IsHead(bank, p) /\ EndOf(bank, p) = p + SizeOf[v] /\ EndOf(bank, p) \in Nat
  <2>1. p \in Nat /\ p \in 0 .. BankSize[b]
      BY <1>1, <1>3, <1>4
  <2>2. HeadSize(bank[p]) = SizeOf[v] /\ IsHead(bank, p)
      BY <2>1, RecordHead DEF Intact
  <2> QED
      BY <1>2, <2>1, <2>2 DEF EndOf
<1>6. CASE p < next
  <2>1. p \in 1 .. next - 1
      BY <1>3, <1>4, <1>6
  <2>2. EndOf(bank, p) <= next
      BY <1>5, <2>1 DEF Chain
  <2> QED
      BY <1>5, <2>1, <2>2 DEF Intact
<1>7. CASE p > next
  <2>1. p \in next + 1 .. EndOf(bank, next) - 1
      BY <1>3, <1>4, <1>7
  <2> QED
      BY <1>5, <2>1
<1> QED
    BY <1>1, <1>3, <1>4, <1>6, <1>7

\* A whole record below a position is whole below any later one.
LEMMA IntactFurther ==
    ASSUME NEW bank, NEW next \in Nat, NEW e \in Nat, next <= e,
           NEW p, NEW k \in Keys, NEW v \in Values, Intact(bank, next, p, k, v)
    PROVE  Intact(bank, e, p, k, v)
<1>1. SizeOf[v] \in Nat
    BY SizesPositive
<1> QED
    BY <1>1 DEF Intact

\* Passing over a head that starts no whole record leaves the index the latest.
LEMMA LatestSkips ==
    ASSUME NEW b \in Banks, NEW bank \in Contents(b), NEW next \in 1 .. BankSize[b],
           Chain(bank, next), IsHead(bank, next), EndOf(bank, next) <= BankSize[b] + 1,
           \A q \in next + 1 .. EndOf(bank, next) - 1 : ~ IsHead(bank, q),
           NEW idx, Latest(bank, idx, next),
           bank[next].kind = "type" \/ ~ HoldsRecord(bank, next, bank[next].key, bank[next].val)
    PROVE  Latest(bank, idx, EndOf(bank, next))
<1> SUFFICES ASSUME NEW k \in Keys, NEW p \in 1 .. EndOf(bank, next) - 1, NEW v \in Values,
                    Intact(bank, EndOf(bank, next), p, k, v)
             PROVE  p <= idx[k].off
    BY DEF Latest
<1>1. next \in Nat
    BY BankAssumption
<1>2. p # next
  <2>1. SUFFICES ASSUME p = next PROVE FALSE
      OBVIOUS
  <2>2. HoldsRecord(bank, next, k, v)
      BY <2>1 DEF Intact
  <2>3. bank[next].kind = "record" /\ bank[next].key = k /\ bank[next].val = v
      BY <1>1, <2>2, RecordHead
  <2> QED
      BY <2>2, <2>3
<1>3. Intact(bank, next, p, k, v)
    BY <1>2, IntactOver
<1> QED
    BY <1>3 DEF Latest, Intact

\* Indexing the whole record at next makes the index the latest behind it.
LEMMA LatestTakes ==
    ASSUME NEW b \in Banks, NEW bank \in Contents(b), NEW next \in 1 .. BankSize[b],
           Chain(bank, next), IsHead(bank, next), EndOf(bank, next) <= BankSize[b] + 1,
           \A q \in next + 1 .. EndOf(bank, next) - 1 : ~ IsHead(bank, q),
           NEW idx \in [Keys -> Entries], Latest(bank, idx, next),
           NEW key \in Keys, NEW val \in Values, HoldsRecord(bank, next, key, val)
    PROVE  Latest(bank, [idx EXCEPT ![key] = [off |-> next, size |-> SizeOf[val]]],
                  EndOf(bank, next))
<1> DEFINE new == [idx EXCEPT ![key] = [off |-> next, size |-> SizeOf[val]]]
<1>1. next \in Nat /\ next # 0 /\ BankSize[b] \in Nat
    BY BankAssumption
<1>2. \A k \in Keys : new[k] = IF k = key THEN [off |-> next, size |-> SizeOf[val]] ELSE idx[k]
    OBVIOUS
<1> HIDE DEF new
<1>3. ASSUME NEW k \in Keys, k \notin Used(new) PROVE new[k] = Unused
  <2>1. k # key
      BY <1>1, <1>2, <1>3 DEF Used
  <2>2. k \notin Used(idx) /\ new[k] = idx[k]
      BY <1>2, <1>3, <2>1 DEF Used
  <2> QED
      BY <2>2 DEF Latest
<1>4. ASSUME NEW k \in Keys, NEW p \in 1 .. EndOf(bank, next) - 1, NEW v \in Values,
             Intact(bank, EndOf(bank, next), p, k, v)
      PROVE  p <= new[k].off
  <2>1. CASE p = next
    <3>1. bank[next].key = k /\ bank[next].key = key
        BY <1>1, <1>4, <2>1, RecordHead DEF Intact
    <3> QED
        BY <1>1, <1>2, <2>1, <3>1
  <2>2. CASE p # next
    <3>1. Intact(bank, next, p, k, v)
        BY <1>4, <2>2, IntactOver
    <3>2. p <= idx[k].off /\ p <= next
        BY <1>1, <3>1 DEF Latest, Intact
    <3> QED
        BY <1>2, <3>2
  <2> QED
      BY <2>1, <2>2
<1>5. Latest(bank, new, EndOf(bank, next))
    BY <1>3, <1>4 DEF Latest
<1> QED
    BY <1>5 DEF new

\* Two indices of the same log that have the last record of every key are equal.
LEMMA LatestUnique ==
    ASSUME NEW bank, NEW size \in Nat, NEW next \in Nat,
           NEW idx \in [Keys -> Entries], NEW other \in [Keys -> Entries],
           IndexesRecords(bank, size, idx, next), Latest(bank, idx, next),
           IndexesRecords(bank, size, other, next), Latest(bank, other, next)
    PROVE  idx = other
<1>1. ASSUME NEW i \in [Keys -> Entries], NEW j \in [Keys -> Entries], NEW k \in Keys,
             IndexesRecords(bank, size, i, next), Latest(bank, j, next), k \in Used(i)
      PROVE  /\ k \in Used(j) /\ i[k].off <= j[k].off
             /\ i[k].size = HeadSize(bank[i[k].off])
  <2>1. PICK v \in Values : SizeOf[v] = i[k].size /\ HoldsRecord(bank, i[k].off, k, v)
      BY <1>1 DEF IndexesRecords
  <2>2. /\ i[k].off \in Nat /\ i[k].off # 0 /\ i[k].size \in Nat /\ j[k].off \in Nat
        /\ i[k].off + i[k].size <= next /\ SizeOf[v] >= 1
      BY <1>1, SizesPositive DEF IndexesRecords, Used, Entries
  <2>3. Intact(bank, next, i[k].off, k, v) /\ i[k].off \in 1 .. next - 1
      BY <2>1, <2>2 DEF Intact
  <2>4. i[k].off <= j[k].off
      BY <1>1, <2>3 DEF Latest
  <2>5. HeadSize(bank[i[k].off]) = SizeOf[v]
      BY <2>1, <2>2, RecordHead
  <2> QED
      BY <2>1, <2>2, <2>4, <2>5 DEF Used
<1>2. ASSUME NEW k \in Keys PROVE idx[k] = other[k]
  <2>1. CASE k \in Used(idx) \/ k \in Used(other)
    <3>1. k \in Used(idx) /\ k \in Used(other)
        BY <1>1, <2>1
    <3>2. /\ idx[k].off <= other[k].off /\ other[k].off <= idx[k].off
          /\ idx[k].size = HeadSize(bank[idx[k].off])
          /\ other[k].size = HeadSize(bank[other[k].off])
        BY <1>1, <3>1
    <3>3. idx[k] \in Entries /\ other[k] \in Entries
        OBVIOUS
    <3>4. idx[k].off \in Nat /\ other[k].off \in Nat
        BY <3>3 DEF Entries
    <3>5. idx[k].off = other[k].off
        BY <3>2, <3>4
    <3>6. idx[k].size = other[k].size
        BY <3>2, <3>5
    <3>7. \A x \in Entries, y \in Entries : x.off = y.off /\ x.size = y.size => x = y
        BY DEF Entries
    <3> QED
        BY <3>3, <3>5, <3>6, <3>7
  <2>2. CASE k \notin Used(idx) /\ k \notin Used(other)
      BY <2>2 DEF Latest
  <2> QED
      BY <2>1, <2>2
<1> QED
    BY <1>2

\* Every key an index uses has a whole record in the bank.
LEMMA UsedHeld ==
    ASSUME NEW b \in Banks, NEW bank, NEW idx \in [Keys -> Entries], NEW next \in Nat,
           IndexesRecords(bank, BankSize[b], idx, next)
    PROVE  Used(idx) \subseteq Held(bank, BankSize[b])
<1> SUFFICES ASSUME NEW k \in Used(idx) PROVE k \in Held(bank, BankSize[b])
    OBVIOUS
<1>1. PICK v \in Values : SizeOf[v] = idx[k].size /\ HoldsRecord(bank, idx[k].off, k, v)
    BY DEF IndexesRecords
<1>2. /\ k \in Keys /\ idx[k].off \in Nat /\ idx[k].off # 0 /\ idx[k].size \in Nat
      /\ idx[k].off + idx[k].size <= BankSize[b] + 1 /\ idx[k].size >= 1
      /\ BankSize[b] \in Nat
    BY <1>1, SizesPositive, BankAssumption DEF IndexesRecords, Used, Entries
<1>3. Intact(bank, BankSize[b] + 1, idx[k].off, k, v) /\ idx[k].off \in 1 .. BankSize[b]
    BY <1>1, <1>2 DEF Intact
<1> QED
    BY <1>2, <1>3 DEF Held

\* An index that uses some of no more keys than it has room for has room for each.
LEMMA RoomToIndex ==
    ASSUME NEW S, IsFiniteSet(S), Cardinality(S) <= MaxSettings,
           NEW idx, Used(idx) \subseteq S, NEW k \in S
    PROVE  CanIndex(idx, k)
<1>1. SUFFICES ASSUME k \notin Used(idx) PROVE Cardinality(Used(idx)) < MaxSettings
    BY DEF CanIndex
<1>2. IsFiniteSet(Used(idx)) /\ Used(idx) # S
    BY <1>1, FS_Subset
<1>3. Cardinality(Used(idx)) <= Cardinality(S) /\ Cardinality(Used(idx)) # Cardinality(S)
    BY <1>2, FS_Subset
<1>4. Cardinality(Used(idx)) \in Nat /\ Cardinality(S) \in Nat
    BY <1>2, FS_CardinalityType
<1> QED
    BY <1>3, <1>4, CapacityAssumption

-------------------------------------------------------------------------------
(* What scanning finds *)

\* One iteration over a bank that the index has room for stops or moves on.
LEMMA ScanStepMoves ==
    ASSUME NEW b \in Banks, NEW bank \in Contents(b), NEW st \in BankStates,
           Indexable(bank, BankSize[b]), st.res = "Scanning",
           IndexesRecords(bank, BankSize[b], st.idx, st.next)
    PROVE  LET new == ScanStep(bank, BankSize[b], st) IN
           /\ new.res \in {"Scanning", "Ok", "CorruptData"} /\ new.gen = st.gen
           /\ new.res = "Scanning" => new.next > st.next /\ new.next <= BankSize[b] + 1
<1> DEFINE p    == st.next
           size == BankSize[b]
           head == bank[p]
           len  == HeadSize(head)
           new  == ScanStep(bank, size, st)
<1>1. /\ st.idx \in [Keys -> Entries] /\ p \in Nat /\ p # 0 /\ size \in Nat
      /\ PrefixUnits \in Nat /\ PrefixUnits # 0
      /\ st.gen \in Generations
    BY BankAssumption, PrefixAssumption DEF BankStates
<1>2. \A res \in {"Ok", "CorruptData", "NoSpace"} :
        [st EXCEPT !.res = res].res = res /\ [st EXCEPT !.res = res].gen = st.gen
    BY DEF BankStates
<1>3. CASE \/ p + PrefixUnits > size + 1
           \/ head = Erased
           \/ len = 0
           \/ p + len > size + 1
    BY <1>2, <1>3 DEF ScanStep
<1>4. CASE /\ ~ (p + PrefixUnits > size + 1)
           /\ head # Erased
           /\ len # 0
           /\ ~ (p + len > size + 1)
  <2>1. head \in Cells
      BY <1>1, <1>4 DEF Contents
  <2>2. len \in Nat /\ p + len <= size + 1 /\ p + len > p
      BY <1>1, <1>4, <2>1, HeadFields
  <2>3. CASE head.kind = "type" \/ ~ HoldsRecord(bank, p, head.key, head.val)
    <3>1. new = [st EXCEPT !.next = p + len]
        BY <1>4, <2>3 DEF ScanStep
    <3>2. new.res = st.res /\ new.gen = st.gen /\ new.next = p + len
        BY <3>1 DEF BankStates
    <3> QED
        BY <2>2, <3>2
  <2>4. CASE ~ (head.kind = "type" \/ ~ HoldsRecord(bank, p, head.key, head.val))
    <3>1. head.kind = "record" /\ len = SizeOf[head.val]
        BY <1>4, <2>1, <2>4, HeadFields
    <3>2. head.key \in Keys /\ head.val \in Values
        BY <2>1, <3>1, CellFields
    <3>3. Intact(bank, size + 1, p, head.key, head.val) /\ p \in 1 .. size
        BY <1>1, <2>2, <2>4, <3>1 DEF Intact
    <3>4. head.key \in Held(bank, size)
        BY <3>2, <3>3 DEF Held
    <3>5. CanIndex(st.idx, head.key)
        BY <1>1, <3>4, UsedHeld, RoomToIndex DEF Indexable
    <3>6. new = [st EXCEPT !.idx = [st.idx EXCEPT ![head.key] = [off |-> p, size |-> len]],
                           !.next = p + len]
        BY <1>4, <2>4, <3>5 DEF ScanStep
    <3>7. new.res = st.res /\ new.gen = st.gen /\ new.next = p + len
        BY <3>6 DEF BankStates
    <3> QED
        BY <2>2, <3>7
  <2> QED
      BY <2>3, <2>4
<1> QED
    BY <1>3, <1>4

\* One iteration over a log keeps to the heads and has every record it passed.
LEMMA ScanStepReaches ==
    ASSUME NEW b \in Banks, NEW bank \in Contents(b), NEW st \in BankStates,
           Indexable(bank, BankSize[b]), st.res = "Scanning",
           IndexesRecords(bank, BankSize[b], st.idx, st.next),
           NEW e, Log(bank, BankSize[b], e), Reached(bank, st, e)
    PROVE  Reached(bank, ScanStep(bank, BankSize[b], st), e)
<1> DEFINE p    == st.next
           size == BankSize[b]
           head == bank[p]
           len  == HeadSize(head)
           new  == ScanStep(bank, size, st)
<1>1. /\ st.idx \in [Keys -> Entries] /\ p \in Nat /\ p # 0 /\ size \in Nat
      /\ PrefixUnits \in Nat /\ PrefixUnits # 0 /\ e \in Nat /\ e <= size + 1
    BY BankAssumption, PrefixAssumption DEF BankStates, Log
<1>2. [st EXCEPT !.res = "Ok"].res = "Ok" /\ [st EXCEPT !.res = "Ok"].next = p
      /\ [st EXCEPT !.res = "Ok"].idx = st.idx
    BY DEF BankStates
<1>3. \A q \in 0 .. size : bank[q] \in Cells /\ HeadSize(bank[q]) \in Nat
    BY HeadFields DEF Contents
<1>4. CASE p = e
  <2>1. p + PrefixUnits > size + 1 \/ head = Erased
      BY <1>1, <1>4 DEF Log, ErasedFrom
  <2>2. new = [st EXCEPT !.res = "Ok"]
      BY <2>1 DEF ScanStep
  <2> QED
      BY <1>2, <1>4, <2>2 DEF Reached
<1>5. CASE p < e /\ IsHead(bank, p)
  <2>1. p \in 1 .. e - 1 /\ p \in 1 .. size /\ head \in Cells
      BY <1>1, <1>3, <1>5
  <2>2. /\ len \in Nat /\ len # 0 /\ PrefixUnits <= len /\ EndOf(bank, p) = p + len
        /\ head.kind \in {"type", "record"}
        /\ head.kind = "record" => head.unit = 0 /\ len = SizeOf[head.val]
      BY <1>5, <2>1, HeadFields DEF IsHead, EndOf
  <2>3. /\ p + len <= e
        /\ p + len # e => IsHead(bank, p + len)
        /\ \A q \in p + 1 .. EndOf(bank, p) - 1 : ~ IsHead(bank, q)
      BY <1>5, <2>1, <2>2 DEF Log, Chain
  <2>4. Chain(bank, p)
    <3>1. \A q \in 1 .. e - 1 : HeadSize(bank[q]) \in Nat
        BY <1>1, <1>3
    <3> QED
        BY <1>1, <1>5, <2>1, <3>1, ChainPrefix DEF Log
  <2>5. head # Erased
      BY <2>2 DEF Erased
  <2>6. ~ (p + PrefixUnits > size + 1) /\ ~ (len = 0 \/ p + len > size + 1)
      BY <1>1, <2>2, <2>3
  <2>7. Latest(bank, st.idx, p) /\ EndOf(bank, p) <= size + 1
      BY <1>1, <2>2, <2>3 DEF Reached
  <2>8. CASE head.kind = "type" \/ ~ HoldsRecord(bank, p, head.key, head.val)
    <3>1. new = [st EXCEPT !.next = p + len]
        BY <2>5, <2>6, <2>8 DEF ScanStep
    <3>2. new.res = st.res /\ new.idx = st.idx /\ new.next = p + len
        BY <3>1 DEF BankStates
    <3>3. Latest(bank, st.idx, p + len)
        BY <1>5, <2>1, <2>2, <2>3, <2>4, <2>7, <2>8, LatestSkips
    <3> QED
        BY <1>1, <2>2, <2>3, <3>2, <3>3 DEF Reached
  <2>9. CASE ~ (head.kind = "type" \/ ~ HoldsRecord(bank, p, head.key, head.val))
    <3> DEFINE idx == [st.idx EXCEPT ![head.key] = [off |-> p, size |-> len]]
    <3>1. head.key \in Keys /\ head.val \in Values /\ len = SizeOf[head.val]
        BY <2>1, <2>2, <2>9, CellFields
    <3>2. Intact(bank, size + 1, p, head.key, head.val)
      <4>1. p \in 1 .. (size + 1) - 1 /\ p + SizeOf[head.val] <= size + 1
          BY <1>1, <2>1, <2>2, <2>6, <3>1
      <4> QED
          BY <2>9, <4>1 DEF Intact
    <3>3. head.key \in Held(bank, size)
        BY <2>1, <3>1, <3>2 DEF Held
    <3>4. CanIndex(st.idx, head.key)
        BY <1>1, <3>3, UsedHeld, RoomToIndex DEF Indexable
    <3>5. new = [st EXCEPT !.idx = idx, !.next = p + len]
        BY <2>5, <2>6, <2>9, <3>4 DEF ScanStep
    <3>6. new.res = st.res /\ new.idx = idx /\ new.next = p + len
      <4> HIDE DEF idx
      <4> QED
          BY <3>5 DEF BankStates
    <3>7. Latest(bank, idx, p + len)
        BY <1>1, <1>5, <2>1, <2>2, <2>3, <2>4, <2>7, <2>9, <3>1, LatestTakes
    <3> HIDE DEF idx
    <3> QED
        BY <1>1, <2>2, <2>3, <3>6, <3>7 DEF Reached
  <2> QED
      BY <2>8, <2>9
<1> QED
    BY <1>4, <1>5 DEF Reached

-------------------------------------------------------------------------------
(* Inspection *)

IsDevice(dev) == \A b \in Banks : dev[b] \in Contents(b)

\* Reading a header begins an inspection.
LEMMA InspectedFirst ==
    ASSUME NEW dev, IsDevice(dev), NEW b \in Banks, dev[b][0].kind # "unversioned"
    PROVE  /\ Inspected(dev, b, HeaderRead(dev[b]))
           /\ HeaderRead(dev[b]) \in BankStates
           /\ HeaderRead(dev[b]).res \in {"Scanning", "Blank", "CorruptData"}
           /\ HeaderRead(dev[b]).res = "Scanning" <=> dev[b][0].kind = "header"
<1>1. dev[b][0] \in Cells /\ BankSize[b] \in Nat
    BY BankAssumption DEF IsDevice, Contents
<1>2. CASE dev[b][0].kind = "header"
  <2>1. HeaderRead(dev[b]) = BankState("Scanning", dev[b][0].gen)
    <3>1. 0 \in DOMAIN dev[b] /\ dev[b][0] # Erased
        BY <1>1, <1>2 DEF IsDevice, Contents, Erased
    <3>2. HeaderVerdict(dev[b]) = "Ok"
        BY <1>2, <3>1 DEF HeaderVerdict
    <3> QED
        BY <3>2 DEF HeaderRead
  <2> DEFINE st == BankState("Scanning", dev[b][0].gen)
  <2>2. st.res = "Scanning" /\ st.gen = dev[b][0].gen /\ st.idx = EmptyIndex /\ st.next = 1
      BY DEF BankState
  <2>3. st \in BankStates
      BY <1>1, <1>2, CellFields, EmptyIndexSound DEF BankState, BankStates, Verdicts
  <2>4. ASSUME NEW e \in 1 .. BankSize[b] + 1, Log(dev[b], BankSize[b], e)
        PROVE  Reached(dev[b], st, e)
    <3>1. 1 = e \/ (1 < e /\ IsHead(dev[b], 1))
        BY <1>1, <2>4 DEF Log, Chain
    <3>2. Latest(dev[b], EmptyIndex, 1)
        BY EmptyIndexSound DEF Latest, EmptyIndex
    <3> QED
        BY <2>2, <3>1, <3>2 DEF Reached
  <2> HIDE DEF st
  <2>5. Inspected(dev, b, st)
      BY <1>2, <2>2, <2>4, EmptyIndexSound DEF Inspected
  <2> QED
      BY <1>2, <2>1, <2>2, <2>3, <2>5 DEF st
<1>3. CASE dev[b][0].kind # "header"
  <2>1. HeaderVerdict(dev[b]) \in {"Blank", "CorruptData"}
      BY <1>3 DEF HeaderVerdict
  <2>2. HeaderRead(dev[b]) = BankState(HeaderVerdict(dev[b]), 0)
      BY <2>1 DEF HeaderRead
  <2>3. HeaderRead(dev[b]).res = HeaderVerdict(dev[b])
      BY <2>2 DEF BankState
  <2>4. HeaderRead(dev[b]) \in BankStates
      BY <2>1, <2>2, EmptyIndexSound, GenerationAssumption
      DEF BankState, BankStates, Verdicts, Generations
  <2> QED
      BY <1>3, <2>1, <2>3, <2>4 DEF Inspected
<1> QED
    BY <1>2, <1>3

\* Each further iteration of the scan keeps what inspection knows.
LEMMA InspectedNext ==
    ASSUME NEW dev, IsDevice(dev), Readable(dev), NEW b \in Banks, NEW st \in BankStates,
           Inspected(dev, b, st), st.res = "Scanning"
    PROVE  LET new == ScanStep(dev[b], BankSize[b], st) IN
           /\ Inspected(dev, b, new)
           /\ new \in BankStates
           /\ new.res = "Scanning" => new.next > st.next /\ new.next <= BankSize[b] + 1
<1>1. dev[b] \in Contents(b) /\ Indexable(dev[b], BankSize[b]) /\ dev[b][0].kind # "unversioned"
    BY DEF IsDevice, Readable
<1>2. dev[b][0].kind = "header"
    BY <1>1, InspectedFirst DEF Inspected
<1>3. IndexesRecords(dev[b], BankSize[b], st.idx, st.next)
    BY <1>2 DEF Inspected
<1> DEFINE new == ScanStep(dev[b], BankSize[b], st)
<1>4. /\ new \in BankStates
      /\ IndexesRecords(dev[b], BankSize[b], new.idx, new.next)
    BY <1>1, <1>3, ScanStepSound
<1>5. /\ new.res \in {"Scanning", "Ok", "CorruptData"} /\ new.gen = st.gen
      /\ new.res = "Scanning" => new.next > st.next /\ new.next <= BankSize[b] + 1
    BY <1>1, <1>3, ScanStepMoves
<1>6. ASSUME NEW e \in 1 .. BankSize[b] + 1, Log(dev[b], BankSize[b], e)
      PROVE  Reached(dev[b], new, e)
  <2>1. Reached(dev[b], st, e)
      BY <1>2, <1>6 DEF Inspected
  <2> QED
      BY <1>1, <1>3, <1>6, <2>1, ScanStepReaches
<1> HIDE DEF new
<1>7. Inspected(dev, b, new)
    BY <1>2, <1>4, <1>5, <1>6 DEF Inspected
<1> QED
    BY <1>4, <1>5, <1>7 DEF new

\* The inspection of a readable bank comes to an end.
LEMMA InspectionEnds ==
    ASSUME NEW dev, IsDevice(dev), Readable(dev), NEW b \in Banks
    PROVE  /\ Inspected(dev, b, Inspection(dev)[b])
           /\ Inspection(dev)[b] \in BankStates
           /\ Inspection(dev)[b].res # "Scanning"
<1> DEFINE J == {st \in BankStates : Inspected(dev, b, st)}
           st0 == HeaderRead(dev[b])
<1>1. st0 \in J
    BY InspectedFirst DEF Readable
<1>2. BankSize[b] \in Nat
    BY BankAssumption
<1>3. \A st \in J : st.next \in Nat \ {0}
    BY DEF BankStates
<1>4. \A st \in J : st.res = "Scanning" =>
        /\ ScanStep(dev[b], BankSize[b], st) \in J
        /\ ScanStep(dev[b], BankSize[b], st).res = "Scanning" =>
              /\ ScanStep(dev[b], BankSize[b], st).next > st.next
              /\ ScanStep(dev[b], BankSize[b], st).next <= BankSize[b] + 1
    BY InspectedNext
<1>5. /\ Settled(dev[b], BankSize[b], st0) \in J
      /\ Settled(dev[b], BankSize[b], st0).res # "Scanning"
  <2> HIDE DEF J, st0
  <2> QED
      BY <1>1, <1>2, <1>3, <1>4, SettledIn
<1>6. Inspection(dev)[b] = Settled(dev[b], BankSize[b], st0)
    BY DEF Inspection, ScanOf
<1> QED
    BY <1>5, <1>6

\* A bank whose header is the successor of the other's is the newer one, also
\* where the generations wrap.
LEMMA SuccessorNewer ==
    ASSUME GenModulus > 2, NEW g \in Generations, NEW h \in Generations,
           g = (h + 1) % GenModulus
    PROVE  Newer(g, h) /\ ~ Newer(h, g)
<1>1. GenModulus \in Nat /\ g \in 0 .. GenModulus - 1 /\ h \in 0 .. GenModulus - 1
    BY GenerationAssumption DEF Generations
<1>2. CASE h + 1 # GenModulus
  <2>1. g = h + 1
      BY <1>1, <1>2
  <2>2. (g - h) % GenModulus = 1
    <3>1. g - h = 1
        BY <1>1, <2>1
    <3>2. 1 % GenModulus = 1
        BY <1>1
    <3> QED
        BY <3>1, <3>2
  <2>3. (h - g) % GenModulus = GenModulus - 1
    <3>1. h - g = -1
        BY <1>1, <2>1
    <3>2. (-1) % GenModulus = GenModulus - 1
        BY <1>1
    <3> QED
        BY <3>1, <3>2
  <2> QED
      BY <1>1, <2>2, <2>3 DEF Newer
<1>3. CASE h + 1 = GenModulus
  <2>1. g = 0
      BY <1>1, <1>3
  <2>2. (g - h) % GenModulus = 1
    <3>1. g - h = 1 - GenModulus
        BY <1>1, <1>3, <2>1
    <3>2. (1 - GenModulus) % GenModulus = 1
        BY <1>1
    <3> QED
        BY <3>1, <3>2
  <2>3. (h - g) % GenModulus = GenModulus - 1
    <3>1. h - g = GenModulus - 1
        BY <1>1, <1>3, <2>1
    <3>2. (GenModulus - 1) % GenModulus = GenModulus - 1
        BY <1>1
    <3> QED
        BY <3>1, <3>2
  <2> QED
      BY <1>1, <2>2, <2>3 DEF Newer
<1> QED
    BY <1>2, <1>3

\* What a bank's complete inspection found, when the bank holds the log.
LEMMA LiveInspected ==
    ASSUME NEW dev, NEW b \in Banks, Live(dev, b), NEW st,
           Inspected(dev, b, st), st.res # "Scanning",
           NEW e \in Nat, Log(dev[b], BankSize[b], e)
    PROVE  /\ st.res = "Ok" /\ st.gen = dev[b][0].gen /\ st.next = e
           /\ IndexesRecords(dev[b], BankSize[b], st.idx, e)
           /\ Latest(dev[b], st.idx, e)
<1>1. dev[b][0].kind = "header"
    BY DEF Live
<1>2. e \in 1 .. BankSize[b] + 1
    BY DEF Log
<1>3. Reached(dev[b], st, e) /\ st.gen = dev[b][0].gen
      /\ IndexesRecords(dev[b], BankSize[b], st.idx, st.next)
    BY <1>1, <1>2 DEF Inspected
<1> QED
    BY <1>3 DEF Reached

\* open() takes the bank that holds the log.
LEMMA LiveSelected ==
    ASSUME GenModulus > 2, NEW dev, IsDevice(dev), Readable(dev),
           NEW b \in Banks, Live(dev, b), NEW insp,
           \A c \in Banks : Inspected(dev, c, insp[c]) /\ insp[c].res # "Scanning"
    PROVE  ~ Refused(insp) /\ b \in Valid(insp) /\ Selected(insp) = b
<1>1. PICK e \in 1 .. BankSize[b] + 1 : Log(dev[b], BankSize[b], e)
    BY DEF Live
<1>2. insp[b].res = "Ok" /\ insp[b].gen = dev[b][0].gen
  <2>1. Inspected(dev, b, insp[b]) /\ insp[b].res # "Scanning"
      OBVIOUS
  <2>2. e \in Nat
      BY BankAssumption
  <2> QED
      BY <1>1, <2>1, <2>2, LiveInspected
<1>3. \A c \in Banks : /\ insp[c].res \in {"Ok", "Blank", "CorruptData"}
                       /\ insp[c].res = "Ok" => /\ dev[c][0].kind = "header"
                                                /\ insp[c].gen = dev[c][0].gen
  <2> SUFFICES ASSUME NEW c \in Banks
               PROVE  /\ insp[c].res \in {"Ok", "Blank", "CorruptData"}
                      /\ insp[c].res = "Ok" => /\ dev[c][0].kind = "header"
                                               /\ insp[c].gen = dev[c][0].gen
      OBVIOUS
  <2>1. CASE dev[c][0].kind = "header"
      BY <2>1 DEF Inspected
  <2>2. CASE dev[c][0].kind # "header"
    <3>1. insp[c] = HeaderRead(dev[c]) /\ dev[c][0].kind # "unversioned"
        BY <2>2 DEF Inspected, Readable
    <3>2. insp[c].res \in {"Blank", "CorruptData"}
        BY <3>1, <2>2, InspectedFirst
    <3> QED
        BY <3>2
  <2> QED
      BY <2>1, <2>2
<1>4. ~ Refused(insp) /\ b \in Valid(insp)
    BY <1>2, <1>3 DEF Refused, Valid
<1>5. Inactive(b) \in Banks /\ Inactive(b) # b /\ (b = "A" \/ b = "B")
    BY DEF Inactive, Banks
<1>6. CASE Inactive(b) \in Valid(insp)
  <2> DEFINE g == insp[b].gen
             h == insp[Inactive(b)].gen
  <2>1. g = (h + 1) % GenModulus
      BY <1>2, <1>3, <1>5, <1>6 DEF Live, Valid
  <2>2. g \in Generations /\ h \in Generations
    <3>1. \A c \in Banks : dev[c][0] \in Cells
        BY BankAssumption DEF IsDevice, Contents
    <3> QED
        BY <1>2, <1>3, <1>5, <1>6, <3>1, CellFields DEF Valid, Live
  <2>3. Newer(g, h) /\ ~ Newer(h, g)
      BY <2>1, <2>2, SuccessorNewer
  <2> QED
      BY <1>4, <1>5, <1>6, <2>3 DEF Selected, Inactive, Valid
<1>7. CASE Inactive(b) \notin Valid(insp)
    BY <1>4, <1>5, <1>7 DEF Selected, Inactive
<1> QED
    BY <1>4, <1>6, <1>7

-------------------------------------------------------------------------------
(* What a restart loads *)

\* The values an index refers to.
ValueAt(bank, idx) ==
    [k \in Keys |-> IF k \in Used(idx) THEN bank[idx[k].off].val ELSE NoValue]

\* An opened bank reads back as the values its index refers to.
LEMMA SettingsAreValues ==
    ASSUME NEW dev, NEW b \in Banks, NEW size \in Nat, NEW next \in Nat,
           NEW idx \in [Keys -> Entries], IndexesRecords(dev[b], size, idx, next),
           NEW s, s.bank = b, s.idx = idx
    PROVE  SettingsIn(dev, s) = ValueAt(dev[b], idx)
<1> DEFINE holds(k, v) == SizeOf[v] = s.idx[k].size
                          /\ HoldsRecord(dev[s.bank], s.idx[k].off, k, v)
           read(k) == IF k \in Used(s.idx) /\ \E v \in Values : holds(k, v)
                      THEN CHOOSE v \in Values : holds(k, v)
                      ELSE NoValue
<1>1. ASSUME NEW k \in Keys
      PROVE  read(k) = IF k \in Used(idx) THEN dev[b][idx[k].off].val ELSE NoValue
  <2>1. CASE k \in Used(idx)
    <3>1. idx[k].off \in Nat
        BY DEF Entries
    <3>2. \A v \in Values : holds(k, v) => dev[b][idx[k].off].val = v
        BY <3>1, RecordHead
    <3>3. \E v \in Values : holds(k, v)
        BY <2>1 DEF IndexesRecords
    <3> DEFINE w == CHOOSE v \in Values : holds(k, v)
    <3>4. w \in Values /\ holds(k, w)
        BY <3>3
    <3> HIDE DEF w
    <3>5. w = dev[b][idx[k].off].val
        BY <3>2, <3>4
    <3> QED
        BY <2>1, <3>3, <3>5 DEF w
  <2>2. CASE k \notin Used(idx)
      BY <2>2
  <2> QED
      BY <2>1, <2>2
<1>2. SettingsIn(dev, s) = [k \in Keys |-> read(k)]
    BY DEF SettingsIn
<1> HIDE DEF read
<1> QED
    BY <1>1, <1>2 DEF ValueAt

\* A restart finds the bank that holds the log, all of it, and loads its values.
LEMMA LiveRestart ==
    ASSUME GenModulus > 2, NEW dev, IsDevice(dev), Readable(dev),
           NEW b \in Banks, Live(dev, b), NEW e \in Nat, Log(dev[b], BankSize[b], e),
           NEW idx \in [Keys -> Entries],
           IndexesRecords(dev[b], BankSize[b], idx, e), Latest(dev[b], idx, e)
    PROVE  /\ SurvivorsOn(dev) = {[bank |-> b, idx |-> idx, next |-> e, salvaged |-> FALSE]}
           /\ OpenableDevice(dev)
           /\ RecoverableFrom(dev) = ValueAt(dev[b], idx)
<1> DEFINE insp == Inspection(dev)
           survivor == [bank |-> b, idx |-> idx, next |-> e, salvaged |-> FALSE]
<1>1. \A c \in Banks : /\ Inspected(dev, c, insp[c]) /\ insp[c] \in BankStates
                       /\ insp[c].res # "Scanning"
    BY InspectionEnds
<1> HIDE DEF insp
<1>2. ~ Refused(insp) /\ b \in Valid(insp) /\ Selected(insp) = b
    BY <1>1, LiveSelected
<1>3. /\ insp[b].next = e
      /\ IndexesRecords(dev[b], BankSize[b], insp[b].idx, e)
      /\ Latest(dev[b], insp[b].idx, e)
    BY <1>1, LiveInspected
<1>4. insp[b].idx = idx
  <2>1. insp[b].idx \in [Keys -> Entries] /\ BankSize[b] \in Nat
      BY <1>1, BankAssumption DEF BankStates
  <2> QED
      BY <1>3, <2>1, LatestUnique
<1>5. Chosen(dev, insp) = {survivor}
    BY <1>2, <1>3, <1>4 DEF Chosen, Survivor
<1>6. SurvivorsOn(dev) = {survivor}
    BY <1>5 DEF SurvivorsOn, insp
<1>7. SettingsIn(dev, survivor) = ValueAt(dev[b], idx)
  <2>1. survivor.bank = b /\ survivor.idx = idx /\ BankSize[b] \in Nat
      BY BankAssumption
  <2> QED
      BY <2>1, SettingsAreValues
<1> HIDE DEF survivor
<1>8. RecoverableFrom(dev) = ValueAt(dev[b], idx)
    BY <1>6, <1>7 DEF RecoverableFrom
<1> QED
    BY <1>6, <1>8 DEF OpenableDevice, survivor

\* Every log has an index that a restart would build from it.
LEMMA LiveIndex ==
    ASSUME NEW dev, IsDevice(dev), Readable(dev), NEW b \in Banks, Live(dev, b),
           NEW e \in Nat, Log(dev[b], BankSize[b], e)
    PROVE  \E idx \in [Keys -> Entries] :
              IndexesRecords(dev[b], BankSize[b], idx, e) /\ Latest(dev[b], idx, e)
<1> DEFINE st == Inspection(dev)[b]
<1>1. Inspected(dev, b, st) /\ st \in BankStates /\ st.res # "Scanning"
    BY InspectionEnds
<1> HIDE DEF st
<1>2. st.idx \in [Keys -> Entries]
    BY <1>1 DEF BankStates
<1>3. IndexesRecords(dev[b], BankSize[b], st.idx, e) /\ Latest(dev[b], st.idx, e)
    BY <1>1, LiveInspected
<1> QED
    BY <1>2, <1>3

\* A bank whose units are all erased holds no record, so no index uses any key.
LEMMA ErasedHolds ==
    ASSUME NEW b \in Banks, NEW bank, ErasedFrom(bank, BankSize[b], 1)
    PROVE  /\ Held(bank, BankSize[b]) = {}
           /\ \A idx \in [Keys -> Entries], next \in Nat :
                 IndexesRecords(bank, BankSize[b], idx, next) => Used(idx) = {}
<1>1. BankSize[b] \in Nat
    BY BankAssumption
<1>2. ASSUME NEW k \in Keys, NEW p \in 1 .. BankSize[b], NEW v \in Values,
             Intact(bank, BankSize[b] + 1, p, k, v)
      PROVE  FALSE
  <2>1. bank[p].kind = "record" /\ p \in Nat
      BY <1>1, <1>2, RecordHead DEF Intact
  <2>2. bank[p] = Erased
      BY DEF ErasedFrom
  <2> QED
      BY <2>1, <2>2 DEF Erased
<1>3. Held(bank, BankSize[b]) = {}
    BY <1>2 DEF Held
<1> QED
    BY <1>3, UsedHeld

\* Nothing can be loaded from a device on which nothing has been stored; it can be
\* opened unless its first header was torn.
LEMMA VirginRestart ==
    ASSUME NEW dev, IsDevice(dev), Readable(dev), Virgin(dev)
    PROVE  /\ SurvivorsOn(dev) = {}
           /\ RecoverableFrom(dev) = [k \in Keys |-> NoValue]
           /\ dev["A"][0] = Erased => OpenableDevice(dev)
<1> DEFINE insp == Inspection(dev)
           salv == Salvaging(dev, insp)
<1>1. \A b \in Banks : dev[b][0].kind # "header" /\ ErasedFrom(dev[b], BankSize[b], 1)
  <2>1. \A b \in Banks : b = "A" \/ b = "B"
      BY DEF Banks
  <2> QED
      BY <2>1 DEF Virgin, Erased, Mangled
<1>2. \A b \in Banks : insp[b].res \in {"Blank", "CorruptData"}
  <2> SUFFICES ASSUME NEW b \in Banks PROVE insp[b].res \in {"Blank", "CorruptData"}
      OBVIOUS
  <2>1. Inspected(dev, b, insp[b])
      BY InspectionEnds
  <2> HIDE DEF insp
  <2>2. insp[b] = HeaderRead(dev[b])
      BY <1>1, <2>1 DEF Inspected
  <2> QED
      BY <1>1, <2>2, InspectedFirst DEF Readable
<1> HIDE DEF insp
<1>3. ~ Refused(insp) /\ Valid(insp) = {}
    BY <1>2 DEF Refused, Valid
<1>4. ASSUME NEW b \in Banks PROVE Used(salv[b].idx) = {}
  <2>1. CASE insp[b].res # "CorruptData"
    <3>1. salv[b] = BankState("CorruptData", 0)
        BY <2>1 DEF Salvaging
    <3> QED
        BY <3>1, EmptyIndexSound DEF BankState
  <2>2. CASE insp[b].res = "CorruptData"
    <3> DEFINE J == {st \in BankStates : IndexesRecords(dev[b], BankSize[b], st.idx, st.next)}
               st0 == BankState("Scanning", 0)
    <3>1. salv[b] = Settled(dev[b], BankSize[b], st0)
        BY <2>2 DEF Salvaging, ScanOf
    <3>2. dev[b] \in Contents(b) /\ Indexable(dev[b], BankSize[b]) /\ BankSize[b] \in Nat
        BY BankAssumption DEF IsDevice, Readable
    <3>3. st0 \in J
        BY EmptyIndexSound, GenerationAssumption
        DEF BankState, BankStates, Verdicts, Generations
    <3>4. \A st \in J : st.next \in Nat \ {0}
        BY DEF BankStates
    <3>5. \A st \in J : st.res = "Scanning" =>
            /\ ScanStep(dev[b], BankSize[b], st) \in J
            /\ ScanStep(dev[b], BankSize[b], st).res = "Scanning" =>
                  /\ ScanStep(dev[b], BankSize[b], st).next > st.next
                  /\ ScanStep(dev[b], BankSize[b], st).next <= BankSize[b] + 1
        BY <3>2, ScanStepSound, ScanStepMoves
    <3>6. Settled(dev[b], BankSize[b], st0) \in J
      <4> HIDE DEF J, st0
      <4> QED
          BY <3>2, <3>3, <3>4, <3>5, SettledIn
    <3> HIDE DEF salv, st0
    <3>7. /\ salv[b].idx \in [Keys -> Entries] /\ salv[b].next \in Nat
          /\ IndexesRecords(dev[b], BankSize[b], salv[b].idx, salv[b].next)
        BY <3>1, <3>6 DEF BankStates
    <3> QED
        BY <1>1, <3>7, ErasedHolds
  <2> QED
      BY <2>1, <2>2
<1> HIDE DEF salv
<1>5. Salvageable(salv) = {}
    BY <1>4 DEF Salvageable
<1>6. Cardinality(Salvageable(salv)) # 1
    BY <1>5, FS_EmptySet
<1>7. Chosen(dev, insp) = {}
    BY <1>3, <1>6 DEF Chosen, salv
<1>8. SurvivorsOn(dev) = {}
    BY <1>7 DEF SurvivorsOn, insp
<1>9. RecoverableFrom(dev) = [k \in Keys |-> NoValue]
    BY <1>8 DEF RecoverableFrom
<1>10. ASSUME dev["A"][0] = Erased PROVE BlankDevice(dev)
  <2> SUFFICES ASSUME NEW b \in Banks PROVE HeaderVerdict(dev[b]) = "Blank"
      BY DEF BlankDevice
  <2>1. dev[b][0] = Erased /\ BankSize[b] \in Nat /\ DOMAIN dev[b] = 0 .. BankSize[b]
      BY <1>10, BankAssumption DEF Virgin, Banks, IsDevice, Contents
  <2>2. \A p \in DOMAIN dev[b] : dev[b][p] = Erased
      BY <1>1, <2>1 DEF ErasedFrom
  <2> QED
      BY <2>1, <2>2 DEF HeaderVerdict, Erased
<1> QED
    BY <1>8, <1>9, <1>10 DEF OpenableDevice

-------------------------------------------------------------------------------
(* Writing to the bank that holds the log *)

\* What an index refers to depends on the units below its end only.
LEMMA BelowFrame ==
    ASSUME NEW bank, NEW other, NEW size \in Nat, NEW next \in Nat \ {0},
           \A q \in 1 .. next - 1 : other[q] = bank[q],
           NEW idx \in [Keys -> Entries]
    PROVE  /\ Latest(bank, idx, next) => Latest(other, idx, next)
           /\ IndexesRecords(bank, size, idx, next) => IndexesRecords(other, size, idx, next)
           /\ \A p : \A k \in Keys, v \in Values :
                 Intact(other, next, p, k, v) <=> Intact(bank, next, p, k, v)
<1>1. \A v \in Values : SizeOf[v] \in Nat /\ SizeOf[v] >= 1
    BY SizesPositive
<1>2. ASSUME NEW p, NEW k \in Keys, NEW v \in Values
      PROVE  Intact(other, next, p, k, v) <=> Intact(bank, next, p, k, v)
  <2>1. CASE p \in 1 .. next - 1 /\ p + SizeOf[v] <= next
    <3>1. p \in Nat /\ \A q \in p .. p + SizeOf[v] - 1 : other[q] = bank[q]
        BY <1>1, <2>1
    <3>2. HoldsRecord(other, p, k, v) <=> HoldsRecord(bank, p, k, v)
        BY <3>1, RecordFrame
    <3> QED
        BY <3>2 DEF Intact
  <2>2. CASE ~ (p \in 1 .. next - 1 /\ p + SizeOf[v] <= next)
      BY <2>2 DEF Intact
  <2> QED
      BY <2>1, <2>2
<1>3. Latest(bank, idx, next) => Latest(other, idx, next)
    BY <1>2 DEF Latest
<1>4. ASSUME IndexesRecords(bank, size, idx, next)
      PROVE  IndexesRecords(other, size, idx, next)
  <2>1. ASSUME NEW k \in Used(idx)
        PROVE  \E v \in Values : SizeOf[v] = idx[k].size /\ HoldsRecord(other, idx[k].off, k, v)
    <3>1. PICK v \in Values : SizeOf[v] = idx[k].size /\ HoldsRecord(bank, idx[k].off, k, v)
        BY <1>4 DEF IndexesRecords
    <3>2. /\ k \in Keys /\ idx[k].off \in Nat /\ idx[k].off # 0 /\ idx[k].size \in Nat
          /\ idx[k].off + idx[k].size <= next
        BY <1>4 DEF IndexesRecords, Used, Entries
    <3>3. \A q \in idx[k].off .. idx[k].off + SizeOf[v] - 1 : other[q] = bank[q]
        BY <1>1, <3>1, <3>2
    <3>4. HoldsRecord(other, idx[k].off, k, v)
        BY <3>1, <3>2, <3>3, RecordFrame
    <3> QED
        BY <3>1, <3>4
  <2> QED
      BY <1>4, <2>1 DEF IndexesRecords
<1> QED
    BY <1>2, <1>3, <1>4

\* So do the values it refers to.
Framed(bank, other, size, next, idx) ==
    /\ size \in Nat /\ next \in Nat \ {0}
    /\ \A q \in 1 .. next - 1 : other[q] = bank[q]
    /\ idx \in [Keys -> Entries] /\ IndexesRecords(bank, size, idx, next)

LEMMA ValueFrame ==
    ASSUME NEW bank, NEW other, NEW size, NEW next, NEW idx, Framed(bank, other, size, next, idx)
    PROVE  ValueAt(other, idx) = ValueAt(bank, idx)
<1>0. /\ size \in Nat /\ next \in Nat \ {0}
      /\ \A q \in 1 .. next - 1 : other[q] = bank[q]
      /\ idx \in [Keys -> Entries] /\ IndexesRecords(bank, size, idx, next)
    BY DEF Framed
<1>1. ASSUME NEW k \in Used(idx) PROVE other[idx[k].off] = bank[idx[k].off]
  <2>1. PICK v \in Values : SizeOf[v] = idx[k].size
      BY <1>0 DEF IndexesRecords
  <2>2. /\ idx[k].off \in Nat /\ idx[k].off # 0 /\ idx[k].size \in Nat /\ idx[k].size >= 1
        /\ idx[k].off + idx[k].size <= next
      BY <1>0, <2>1, SizesPositive DEF IndexesRecords, Used, Entries
  <2> QED
      BY <1>0, <2>2
<1> QED
    BY <1>1 DEF ValueAt

\* The keys with a whole record in a log are those its index uses.
LEMMA LogHeld ==
    ASSUME NEW b \in Banks, NEW bank \in Contents(b), NEW e \in Nat,
           Log(bank, BankSize[b], e), NEW idx \in [Keys -> Entries], Latest(bank, idx, e)
    PROVE  Held(bank, BankSize[b]) \subseteq Used(idx)
<1> SUFFICES ASSUME NEW k \in Keys, NEW p \in 1 .. BankSize[b], NEW v \in Values,
                    Intact(bank, BankSize[b] + 1, p, k, v)
             PROVE  k \in Used(idx)
    BY DEF Held
<1>1. BankSize[b] \in Nat /\ p \in Nat /\ p # 0
    BY BankAssumption
<1>2. bank[p].kind = "record" /\ HeadSize(bank[p]) = SizeOf[v] /\ IsHead(bank, p)
    BY <1>1, RecordHead DEF Intact
<1>3. p < e
  <2>1. SUFFICES ASSUME e <= p PROVE FALSE
      BY <1>1
  <2>2. bank[p] = Erased
      BY <1>1, <2>1 DEF Log, ErasedFrom
  <2> QED
      BY <1>2, <2>2 DEF Erased
<1>4. p \in 1 .. e - 1
    BY <1>1, <1>3
<1>5. p + SizeOf[v] <= e
    BY <1>2, <1>4 DEF Log, Chain, EndOf
<1>6. Intact(bank, e, p, k, v)
    BY <1>4, <1>5 DEF Intact
<1>7. p <= idx[k].off
    BY <1>4, <1>6 DEF Latest
<1> QED
    BY <1>1, <1>7 DEF Used

\* A bank whose keys are among those of a set the index has room for is indexable.
LEMMA IndexableWithin ==
    ASSUME NEW bank, NEW size, NEW S, Held(bank, size) \subseteq S,
           IsFiniteSet(S), Cardinality(S) <= MaxSettings
    PROVE  Indexable(bank, size)
<1>1. IsFiniteSet(Held(bank, size)) /\ Cardinality(Held(bank, size)) <= Cardinality(S)
    BY FS_Subset
<1>2. Cardinality(Held(bank, size)) \in Nat /\ Cardinality(S) \in Nat
    BY <1>1, FS_CardinalityType
<1> QED
    BY <1>1, <1>2, CapacityAssumption DEF Indexable

\* An index over an indexable bank uses no more keys than there is room for.
LEMMA UsedWithin ==
    ASSUME NEW b \in Banks, NEW bank, NEW idx \in [Keys -> Entries], NEW next \in Nat,
           IndexesRecords(bank, BankSize[b], idx, next), Indexable(bank, BankSize[b])
    PROVE  IsFiniteSet(Used(idx)) /\ Cardinality(Used(idx)) <= MaxSettings
<1>1. Used(idx) \subseteq Held(bank, BankSize[b])
    BY UsedHeld
<1>2. /\ IsFiniteSet(Used(idx))
      /\ Cardinality(Used(idx)) <= Cardinality(Held(bank, BankSize[b]))
    BY <1>1, FS_Subset DEF Indexable
<1>3. Cardinality(Used(idx)) \in Nat /\ Cardinality(Held(bank, BankSize[b])) \in Nat
    BY <1>2, FS_CardinalityType DEF Indexable
<1> QED
    BY <1>2, <1>3, CapacityAssumption DEF Indexable

\* The end of the log under an index that agrees with it: where a restart ends.
LEMMA OpenLogEnds ==
    ASSUME NEW b \in Banks, NEW bank \in Contents(b), NEW next \in Nat \ {0},
           OpenLog(bank, BankSize[b], next),
           NEW idx \in [Keys -> Entries],
           IndexesRecords(bank, BankSize[b], idx, next), Latest(bank, idx, next)
    PROVE  \E e \in Nat : /\ next <= e /\ Log(bank, BankSize[b], e)
                          /\ IndexesRecords(bank, BankSize[b], idx, e)
                          /\ Latest(bank, idx, e)
<1>1. CASE Log(bank, BankSize[b], next)
    BY <1>1
<1>2. CASE Pending(bank, BankSize[b], next)
  <2> DEFINE e == EndOf(bank, next)
  <2>1. Log(bank, BankSize[b], e) /\ e > next /\ BankSize[b] \in Nat
      BY <1>2, PendingLog, BankAssumption
  <2>2. next \in 1 .. BankSize[b] /\ bank[next].kind = "type" /\ Chain(bank, next)
      BY <1>2 DEF Pending
  <2>3. e \in Nat /\ e <= BankSize[b] + 1
      BY <2>1 DEF Log
  <2>4. IsHead(bank, next)
      BY <2>1, <2>2, HeadFields DEF EndOf, IsHead, Contents
  <2>5. \A q \in next + 1 .. e - 1 : ~ IsHead(bank, q)
    <3>1. \A q \in next + 1 .. e - 1 : bank[q] = Erased
        BY <1>2, <2>1, <2>2, <2>3 DEF Pending, ErasedFrom
    <3> QED
        BY <3>1 DEF IsHead, HeadSize, Erased
  <2>6. Latest(bank, idx, e)
      BY <2>2, <2>3, <2>4, <2>5, LatestSkips
  <2> HIDE DEF e
  <2>7. IndexesRecords(bank, BankSize[b], idx, e)
      BY <2>1, <2>3 DEF IndexesRecords, Entries, Used
  <2> QED
      BY <2>1, <2>3, <2>6, <2>7
<1> QED
    BY <1>1, <1>2 DEF OpenLog

\* An index in RAM that agrees with the device is the one a restart would build.
LEMMA AgreesRestart ==
    ASSUME GenModulus > 2, NEW dev, IsDevice(dev), Readable(dev),
           NEW b \in Banks, NEW g, NEW idx \in [Keys -> Entries], NEW next \in Nat \ {0},
           Agrees(dev, b, g, idx, next)
    PROVE  /\ RecoverableFrom(dev) = ValueAt(dev[b], idx)
           /\ OpenableDevice(dev)
           /\ \E e \in Nat : /\ next <= e
                             /\ SurvivorsOn(dev) = {[bank |-> b, idx |-> idx, next |-> e,
                                                     salvaged |-> FALSE]}
           /\ Held(dev[b], BankSize[b]) = Used(idx)
           /\ IsFiniteSet(Used(idx)) /\ Cardinality(Used(idx)) <= MaxSettings
<1>1. /\ Live(dev, b) /\ OpenLog(dev[b], BankSize[b], next)
      /\ IndexesRecords(dev[b], BankSize[b], idx, next) /\ Latest(dev[b], idx, next)
      /\ dev[b] \in Contents(b) /\ Indexable(dev[b], BankSize[b])
    BY DEF Agrees, IsDevice, Readable
<1>2. PICK e \in Nat : /\ next <= e /\ Log(dev[b], BankSize[b], e)
                       /\ IndexesRecords(dev[b], BankSize[b], idx, e)
                       /\ Latest(dev[b], idx, e)
    BY <1>1, OpenLogEnds
<1>3. /\ SurvivorsOn(dev) = {[bank |-> b, idx |-> idx, next |-> e, salvaged |-> FALSE]}
      /\ OpenableDevice(dev)
      /\ RecoverableFrom(dev) = ValueAt(dev[b], idx)
    BY <1>1, <1>2, LiveRestart
<1>4. Held(dev[b], BankSize[b]) = Used(idx)
  <2>1. Held(dev[b], BankSize[b]) \subseteq Used(idx)
      BY <1>1, <1>2, LogHeld
  <2>2. Used(idx) \subseteq Held(dev[b], BankSize[b])
      BY <1>1, UsedHeld
  <2> QED
      BY <2>1, <2>2
<1>5. IsFiniteSet(Used(idx)) /\ Cardinality(Used(idx)) <= MaxSettings
    BY <1>1, UsedWithin
<1> QED
    BY <1>2, <1>3, <1>4, <1>5

\* A log goes on over a head that is written at its end, whatever part of the
\* units the head claims is written with it.
LEMMA LogGrows ==
    ASSUME NEW b \in Banks, NEW bank \in Contents(b), NEW new \in Contents(b),
           NEW next \in 1 .. BankSize[b], OpenLog(bank, BankSize[b], next),
           \A q \in 1 .. next - 1 : new[q] = bank[q],
           IsHead(new, next), EndOf(new, next) <= BankSize[b] + 1,
           \A q \in next + 1 .. EndOf(new, next) - 1 : ~ IsHead(new, q),
           \A q \in EndOf(new, next) .. BankSize[b] : new[q] = bank[q]
    PROVE  /\ Chain(new, next)
           /\ EndOf(new, next) \in Nat /\ EndOf(new, next) > next
           /\ Log(new, BankSize[b], EndOf(new, next))
<1> DEFINE e == EndOf(new, next)
<1>1. BankSize[b] \in Nat /\ next <= BankSize[b] + 1 /\ Chain(bank, next)
    BY BankAssumption DEF OpenLog, Log, Pending
<1>2. /\ \A q \in 0 .. BankSize[b] : HeadSize(new[q]) \in Nat
      /\ \A q \in 0 .. BankSize[b] : HeadSize(bank[q]) \in Nat
    BY HeadFields DEF Contents
<1>4. next \in 1 .. BankSize[b] /\ e \in Nat /\ e > next
    BY <1>1, <1>2 DEF IsHead, EndOf
<1>5. \A q \in 1 .. next - 1 : HeadSize(new[q]) \in Nat /\ HeadSize(bank[q]) \in Nat
    BY <1>1, <1>2
<1>6. Chain(new, next)
    BY <1>1, <1>5, ChainFrame
<1>7. HeadSize(new[next]) \in Nat
    BY <1>2, <1>4
<1>8. Chain(new, e)
    BY <1>5, <1>6, <1>7, ChainNext
<1>9. ErasedFrom(new, BankSize[b], e)
  <2>1. \A q \in next + 1 .. BankSize[b] : bank[q] = Erased
      BY <1>1, <1>4 DEF OpenLog, Log, Pending, ErasedFrom
  <2> QED
      BY <1>1, <1>4, <2>1 DEF ErasedFrom
<1> HIDE DEF e
<1> QED
    BY <1>1, <1>4, <1>6, <1>8, <1>9 DEF Log, e

\* After a write behind the header of the bank that holds the log, an index that
\* has the records of its log agrees with the device.
LEMMA AgreesAfter ==
    ASSUME NEW dev, Readable(dev), NEW b \in Banks, Live(dev, b),
           NEW g, dev[b][0] = Header(g),
           NEW new, IsDevice(new), new[Inactive(b)] = dev[Inactive(b)], new[b][0] = dev[b][0],
           NEW idx \in [Keys -> Entries], NEW next \in Nat \ {0},
           IsFiniteSet(Used(idx)), Cardinality(Used(idx)) <= MaxSettings,
           IndexesRecords(new[b], BankSize[b], idx, next), Latest(new[b], idx, next),
           OpenLog(new[b], BankSize[b], next)
    PROVE  Readable(new) /\ Agrees(new, b, g, idx, next)
<1>1. Inactive(b) \in Banks /\ \A c \in Banks : c = b \/ c = Inactive(b)
    BY DEF Inactive, Banks
<1>2. new[b] \in Contents(b) /\ BankSize[b] \in Nat
    BY BankAssumption DEF IsDevice
<1>3. PICK e \in Nat : Log(new[b], BankSize[b], e) /\ Latest(new[b], idx, e)
    BY <1>2, OpenLogEnds
<1>4. Held(new[b], BankSize[b]) \subseteq Used(idx)
    BY <1>2, <1>3, LogHeld
<1>5. Indexable(new[b], BankSize[b])
    BY <1>4, IndexableWithin
<1>6. Readable(new)
  <2> SUFFICES ASSUME NEW c \in Banks
               PROVE  new[c][0].kind # "unversioned" /\ Indexable(new[c], BankSize[c])
      BY DEF Readable
  <2>1. CASE c = b
      BY <1>5, <2>1 DEF Readable
  <2>2. CASE c = Inactive(b)
      BY <1>1, <2>2 DEF Readable
  <2> QED
      BY <1>1, <2>1, <2>2
<1>7. e \in 1 .. BankSize[b] + 1
    BY <1>3 DEF Log
<1>8. Live(new, b)
    BY <1>3, <1>7 DEF Live
<1> QED
    BY <1>6, <1>8 DEF Agrees

\* Writing a record's prefix changes nothing for a restart.
LEMMA PrefixWritten ==
    ASSUME GenModulus > 2, NEW dev, IsDevice(dev), Readable(dev),
           NEW b \in Banks, NEW g, NEW idx \in [Keys -> Entries], NEW next \in Nat \ {0},
           Agrees(dev, b, g, idx, next),
           NEW v \in Values, next + SizeOf[v] <= BankSize[b] + 1,
           NEW new, IsDevice(new), new[Inactive(b)] = dev[Inactive(b)],
           \A q \in 0 .. BankSize[b] :
              new[b][q] = IF q = next THEN TypeOnly(SizeOf[v]) ELSE dev[b][q]
    PROVE  /\ Readable(new) /\ Agrees(new, b, g, idx, next)
           /\ RecoverableFrom(new) = RecoverableFrom(dev)
<1>1. /\ BankSize[b] \in Nat /\ SizeOf[v] \in Nat /\ SizeOf[v] >= 1
      /\ dev[b] \in Contents(b) /\ new[b] \in Contents(b)
    BY BankAssumption, SizesPositive DEF IsDevice
<1>2. /\ next \in 1 .. BankSize[b] /\ 0 \in 0 .. BankSize[b]
      /\ \A q \in 1 .. next - 1 : q \in 0 .. BankSize[b] /\ q # next
      /\ \A q \in next + 1 .. BankSize[b] : q \in 0 .. BankSize[b] /\ q # next
    BY <1>1
<1>3. /\ \A q \in 1 .. next - 1 : new[b][q] = dev[b][q]
      /\ \A q \in next + 1 .. BankSize[b] : new[b][q] = dev[b][q]
      /\ new[b][0] = dev[b][0] /\ new[b][next] = TypeOnly(SizeOf[v])
    BY <1>2
<1>4. /\ Live(dev, b) /\ OpenLog(dev[b], BankSize[b], next) /\ dev[b][0] = Header(g)
      /\ IndexesRecords(dev[b], BankSize[b], idx, next) /\ Latest(dev[b], idx, next)
    BY DEF Agrees
<1>5. /\ IndexesRecords(new[b], BankSize[b], idx, next) /\ Latest(new[b], idx, next)
      /\ ValueAt(new[b], idx) = ValueAt(dev[b], idx)
  <2> DEFINE bank == dev[b]
             other == new[b]
             size == BankSize[b]
  <2>1. \A q \in 1 .. next - 1 : other[q] = bank[q]
      BY <1>3
  <2>2. size \in Nat /\ IndexesRecords(bank, size, idx, next) /\ Latest(bank, idx, next)
      BY <1>1, <1>4
  <2> HIDE DEF bank, other, size
  <2>3. /\ IndexesRecords(other, size, idx, next) /\ Latest(other, idx, next)
        /\ ValueAt(other, idx) = ValueAt(bank, idx)
    <3>1. Latest(other, idx, next)
        BY <2>1, <2>2, BelowFrame
    <3>2. IndexesRecords(other, size, idx, next)
        BY <2>1, <2>2, BelowFrame
    <3>3. ValueAt(other, idx) = ValueAt(bank, idx)
      <4>1. Framed(bank, other, size, next, idx)
          BY <2>1, <2>2 DEF Framed
      <4> QED
          BY ONLY <4>1, ValueFrame
    <3> QED
        BY <3>1, <3>2, <3>3
  <2> QED
      BY <2>3 DEF bank, other, size
<1>6. new[b][next].kind = "type" /\ HeadSize(new[b][next]) = SizeOf[v]
      /\ EndOf(new[b], next) = next + SizeOf[v]
    BY <1>3 DEF TypeOnly, HeadSize, EndOf
<1>7. Chain(new[b], next)
  <2>1. Chain(dev[b], next)
      BY <1>4 DEF OpenLog, Log, Pending
  <2>2. \A q \in 1 .. next - 1 : HeadSize(dev[b][q]) \in Nat
      BY <1>1, <1>2, HeadFields DEF Contents
  <2> QED
      BY <1>3, <2>1, <2>2, ChainFrame
<1>8. Pending(new[b], BankSize[b], next)
  <2>1. ErasedFrom(dev[b], BankSize[b], next + 1)
      BY <1>1, <1>4 DEF OpenLog, Log, Pending, ErasedFrom
  <2>2. ErasedFrom(new[b], BankSize[b], next + 1)
      BY <1>3, <2>1 DEF ErasedFrom
  <2> QED
      BY <1>2, <1>6, <1>7, <2>2 DEF Pending
<1>9. IsFiniteSet(Used(idx)) /\ Cardinality(Used(idx)) <= MaxSettings
    BY AgreesRestart
<1>10. Readable(new) /\ Agrees(new, b, g, idx, next)
    BY <1>3, <1>4, <1>5, <1>8, <1>9, AgreesAfter DEF OpenLog
<1>11. RecoverableFrom(new) = ValueAt(new[b], idx) /\ RecoverableFrom(dev) = ValueAt(dev[b], idx)
    BY <1>10, AgreesRestart
<1> QED
    BY <1>5, <1>10, <1>11

\* Taking an entry of a free or used key leaves the index within its capacity.
LEMMA UsedTaken ==
    ASSUME NEW idx \in [Keys -> Entries], NEW k \in Keys, NEW off \in Nat \ {0}, NEW n \in Nat,
           IsFiniteSet(Used(idx)), Cardinality(Used(idx)) <= MaxSettings, CanIndex(idx, k)
    PROVE  LET new == [idx EXCEPT ![k] = [off |-> off, size |-> n]] IN
           /\ new \in [Keys -> Entries]
           /\ Used(new) = Used(idx) \cup {k}
           /\ IsFiniteSet(Used(new)) /\ Cardinality(Used(new)) <= MaxSettings
<1> DEFINE new == [idx EXCEPT ![k] = [off |-> off, size |-> n]]
<1>1. [off |-> off, size |-> n] \in Entries /\ [off |-> off, size |-> n].off # 0
    BY DEF Entries
<1>2. \A j \in Keys : new[j] = IF j = k THEN [off |-> off, size |-> n] ELSE idx[j]
    OBVIOUS
<1>3. new \in [Keys -> Entries]
    BY <1>1
<1> HIDE DEF new
<1>4. Used(new) = Used(idx) \cup {k}
    BY <1>1, <1>2 DEF Used
<1>5. ASSUME k \in Used(idx)
      PROVE  IsFiniteSet(Used(new)) /\ Cardinality(Used(new)) <= MaxSettings
  <2>1. Used(new) = Used(idx)
      BY <1>4, <1>5
  <2> QED
      BY <2>1
<1>6. ASSUME k \notin Used(idx)
      PROVE  IsFiniteSet(Used(new)) /\ Cardinality(Used(new)) <= MaxSettings
  <2>1. Cardinality(Used(idx)) < MaxSettings
      BY <1>6 DEF CanIndex
  <2>2. /\ IsFiniteSet(Used(idx) \cup {k})
        /\ Cardinality(Used(idx) \cup {k}) = Cardinality(Used(idx)) + 1
      BY <1>6, FS_AddElement
  <2>3. Cardinality(Used(idx)) \in Nat
      BY FS_CardinalityType
  <2> QED
      BY <1>4, <2>1, <2>2, <2>3, CapacityAssumption
<1>7. IsFiniteSet(Used(new)) /\ Cardinality(Used(new)) <= MaxSettings
    BY <1>5, <1>6
<1> QED
    BY <1>3, <1>4, <1>7 DEF new

\* The index once updateIndex has entered a record of k at off.
Taken(idx, k, off, n) == [idx EXCEPT ![k] = [off |-> off, size |-> n]]

\* new is the device dev after the units S of a record of k and v were written at
\* next of bank b.
Overwritten(dev, new, b, next, k, v, S) ==
    /\ IsDevice(new)
    /\ new[Inactive(b)] = dev[Inactive(b)]
    /\ S \subseteq next .. next + SizeOf[v] - 1
    /\ \A q \in 0 .. BankSize[b] :
          new[b][q] = IF q \in S THEN Fragment(k, v, q - next) ELSE dev[b][q]

\* Writing a record over its prefix, or any part of it, leaves a device that a
\* restart finds unchanged but for the whole record, if it is there.
LEMMA RecordWritten ==
    ASSUME GenModulus > 2, NEW dev, IsDevice(dev), Readable(dev),
           NEW b \in Banks, NEW g, NEW idx \in [Keys -> Entries], NEW next \in Nat \ {0},
           Agrees(dev, b, g, idx, next),
           NEW k \in Keys, NEW v \in Values, next + SizeOf[v] <= BankSize[b] + 1,
           CanIndex(idx, k), dev[b][next] = TypeOnly(SizeOf[v]),
           NEW S, NEW new, Overwritten(dev, new, b, next, k, v, S)
    PROVE  /\ Readable(new) /\ Live(new, b)
           /\ HoldsRecord(new[b], next, k, v) =>
                 /\ Agrees(new, b, g, Taken(idx, k, next, SizeOf[v]), next + SizeOf[v])
                 /\ RecoverableFrom(new) = [RecoverableFrom(dev) EXCEPT ![k] = v]
           /\ ~ HoldsRecord(new[b], next, k, v) => RecoverableFrom(new) = RecoverableFrom(dev)
           /\ S = next .. next + SizeOf[v] - 1 => HoldsRecord(new[b], next, k, v)
<1>0. /\ S \subseteq next .. next + SizeOf[v] - 1
      /\ IsDevice(new) /\ new[Inactive(b)] = dev[Inactive(b)]
      /\ \A q \in 0 .. BankSize[b] :
            new[b][q] = IF q \in S THEN Fragment(k, v, q - next) ELSE dev[b][q]
    BY DEF Overwritten
<1> USE <1>0
<1> DEFINE taken == Taken(idx, k, next, SizeOf[v])
<1>a. taken = [idx EXCEPT ![k] = [off |-> next, size |-> SizeOf[v]]]
    BY DEF Taken
<1> HIDE DEF taken
<1> USE <1>a
<1> DEFINE bank == dev[b]
           other == new[b]
           size == BankSize[b]
           n == SizeOf[v]
           e == next + n
<1>1. /\ size \in Nat /\ n \in Nat /\ n >= 1 /\ e \in Nat \ {0} /\ e <= size + 1
      /\ bank \in Contents(b) /\ other \in Contents(b)
    BY BankAssumption, SizesPositive DEF IsDevice
<1>2. /\ Live(dev, b) /\ OpenLog(bank, size, next) /\ dev[b][0] = Header(g)
      /\ IndexesRecords(bank, size, idx, next) /\ Latest(bank, idx, next)
    BY DEF Agrees
<1>3. next \in 1 .. size
    BY <1>1
<1>4. /\ \A q \in 1 .. next - 1 : other[q] = bank[q]
      /\ other[0] = bank[0]
      /\ \A q \in e .. size : other[q] = bank[q]
  <2>1. \A q \in 0 .. size : q < next \/ q >= e => q \notin S
      BY <1>1
  <2>2. \A q \in 0 .. size : q < next \/ q >= e => other[q] = bank[q]
      BY <2>1
  <2> QED
      BY <1>1, <1>3, <2>2
<1>5. \A q \in next + 1 .. size : bank[q] = Erased
    BY <1>1, <1>2, <1>3 DEF OpenLog, Log, Pending, ErasedFrom
<1>6. IsHead(other, next) /\ EndOf(other, next) = e
  <2>1. other[next] = IF next \in S THEN Fragment(k, v, 0) ELSE TypeOnly(n)
      BY <1>1, <1>3
  <2>2. HeadSize(other[next]) = n
      BY <2>1 DEF Fragment, TypeOnly, HeadSize
  <2> QED
      BY <1>1, <2>2 DEF IsHead, EndOf
<1>7. \A q \in next + 1 .. e - 1 : ~ IsHead(other, q)
  <2> SUFFICES ASSUME NEW q \in next + 1 .. e - 1 PROVE ~ IsHead(other, q)
      OBVIOUS
  <2>1. q \in 0 .. size /\ q \in next + 1 .. size /\ q - next # 0
      BY <1>1, <1>3
  <2>2. other[q] = Fragment(k, v, q - next) \/ other[q] = Erased
      BY <1>5, <2>1
  <2> QED
      BY <2>1, <2>2 DEF Fragment, Erased, IsHead, HeadSize
<1>8. Chain(other, next) /\ Log(other, size, e)
  <2> HIDE DEF bank, other, size, e
  <2> QED
      BY <1>1, <1>2, <1>3, <1>4, <1>6, <1>7, LogGrows DEF size
<1>9. IndexesRecords(other, size, idx, next) /\ Latest(other, idx, next)
  <2> HIDE DEF bank, other, size, e
  <2> QED
      BY <1>1, <1>2, <1>4, BelowFrame
<1>10. ValueAt(other, idx) = ValueAt(bank, idx)
  <2>1. Framed(bank, other, size, next, idx)
      BY <1>1, <1>2, <1>4 DEF Framed
  <2> HIDE DEF bank, other, size, n, e
  <2> QED
      BY ONLY <2>1, ValueFrame
<1>11. IsFiniteSet(Used(idx)) /\ Cardinality(Used(idx)) <= MaxSettings
       /\ RecoverableFrom(dev) = ValueAt(bank, idx)
    BY AgreesRestart
<1>12. S = next .. next + SizeOf[v] - 1 => HoldsRecord(other, next, k, v)
  <2> SUFFICES ASSUME S = next .. next + SizeOf[v] - 1, NEW i \in 0 .. n - 1
               PROVE  other[next + i] = Fragment(k, v, i)
      BY DEF HoldsRecord
  <2>1. next + i \in S /\ next + i \in 0 .. size /\ (next + i) - next = i
      BY <1>1
  <2> QED
      BY <2>1
<1>13. /\ taken \in [Keys -> Entries] /\ Used(taken) = Used(idx) \cup {k}
       /\ IsFiniteSet(Used(taken)) /\ Cardinality(Used(taken)) <= MaxSettings
    BY <1>1, <1>11, UsedTaken
<1>14. ASSUME HoldsRecord(other, next, k, v)
       PROVE  /\ Readable(new) /\ Agrees(new, b, g, taken, e)
              /\ RecoverableFrom(new) = [RecoverableFrom(dev) EXCEPT ![k] = v]
  <2>1. Latest(other, taken, e)
    <3>1. Latest(other, [idx EXCEPT ![k] = [off |-> next, size |-> n]], EndOf(other, next))
      <4> HIDE DEF other, size
      <4> QED
          BY <1>1, <1>3, <1>6, <1>7, <1>8, <1>9, <1>14, LatestTakes DEF size
    <3> QED
        BY <1>6, <3>1
  <2>2. \A j \in Keys : taken[j] = IF j = k THEN [off |-> next, size |-> n] ELSE idx[j]
      OBVIOUS
  <2>3. IndexesRecords(other, size, taken, e)
    <3> SUFFICES ASSUME NEW j \in Used(taken)
                 PROVE  /\ taken[j].off + taken[j].size <= e
                        /\ e <= size + 1
                        /\ \E u \in Values : /\ SizeOf[u] = taken[j].size
                                             /\ HoldsRecord(other, taken[j].off, j, u)
        BY DEF IndexesRecords
    <3>1. CASE j = k
        BY <1>1, <1>14, <2>2, <3>1
    <3>2. CASE j # k
      <4>1. j \in Used(idx) /\ taken[j] = idx[j] /\ idx[j] \in Entries
          BY <1>13, <2>2, <3>2 DEF Used
      <4>2. /\ idx[j].off + idx[j].size <= next
            /\ \E u \in Values : /\ SizeOf[u] = idx[j].size
                                 /\ HoldsRecord(other, idx[j].off, j, u)
          BY <1>9, <4>1 DEF IndexesRecords
      <4> QED
          BY <1>1, <4>1, <4>2 DEF Entries
    <3> QED
        BY <3>1, <3>2
  <2>4. Readable(new) /\ Agrees(new, b, g, taken, e)
    <3> HIDE DEF e
    <3> QED
        BY <1>1, <1>2, <1>4, <1>8, <1>13, <2>1, <2>3, AgreesAfter DEF OpenLog
  <2>5. RecoverableFrom(new) = ValueAt(other, taken)
    <3>1. Agrees(new, b, g, taken, e) /\ Readable(new) /\ taken \in [Keys -> Entries]
        BY <1>13, <2>4
    <3> HIDE DEF e, n
    <3> QED
        BY ONLY <1>1, <3>1, AgreesRestart, GenModulus > 2, IsDevice(new), b \in Banks
  <2>6. other[next].val = v
      BY <1>14, RecordHead
  <2>7. ValueAt(other, taken) = [ValueAt(other, idx) EXCEPT ![k] = v]
    <3>1. \A j \in Keys : ValueAt(other, taken)[j] = IF j = k THEN v ELSE ValueAt(other, idx)[j]
        BY <1>13, <2>2, <2>6 DEF ValueAt
    <3>2. ValueAt(other, taken) = [j \in Keys |-> ValueAt(other, taken)[j]]
          /\ DOMAIN ValueAt(other, idx) = Keys
        BY DEF ValueAt
    <3> HIDE DEF other
    <3> QED
        BY <3>1, <3>2
  <2> QED
      BY <1>10, <1>11, <2>4, <2>5, <2>7
<1>15. ASSUME ~ HoldsRecord(other, next, k, v)
       PROVE  Readable(new) /\ Live(new, b) /\ RecoverableFrom(new) = RecoverableFrom(dev)
  <2>1. other[next].kind = "type" \/ ~ HoldsRecord(other, next, other[next].key, other[next].val)
    <3>1. other[next] = IF next \in S THEN Fragment(k, v, 0) ELSE TypeOnly(n)
        BY <1>1, <1>3
    <3> QED
        BY <1>15, <3>1 DEF Fragment, TypeOnly
  <2>2. Latest(other, idx, e)
    <3> HIDE DEF other, size
    <3> QED
        BY <1>1, <1>3, <1>6, <1>7, <1>8, <1>9, <2>1, LatestSkips DEF size
  <2>3. IndexesRecords(other, size, idx, e)
      BY <1>1, <1>9 DEF IndexesRecords, Used, Entries
  <2>4. Readable(new) /\ Agrees(new, b, g, idx, e)
    <3> HIDE DEF e
    <3> QED
        BY <1>1, <1>2, <1>4, <1>8, <1>11, <2>2, <2>3, AgreesAfter DEF OpenLog
  <2>5. RecoverableFrom(new) = ValueAt(other, idx)
    <3> HIDE DEF e
    <3> QED
        BY <1>1, <2>4, AgreesRestart
  <2> QED
      BY <1>10, <1>11, <2>4, <2>5 DEF Agrees
<1>16. Readable(new) /\ Live(new, b)
    BY <1>14, <1>15 DEF Agrees
<1>17. HoldsRecord(other, next, k, v) =>
          /\ Agrees(new, b, g, taken, e)
          /\ RecoverableFrom(new) = [RecoverableFrom(dev) EXCEPT ![k] = v]
    BY <1>14
<1>18. ~ HoldsRecord(other, next, k, v) => RecoverableFrom(new) = RecoverableFrom(dev)
    BY <1>15
<1> HIDE DEF e
<1>19. e = next + SizeOf[v]
    BY DEF e
<1>20. HoldsRecord(other, next, k, v) => Agrees(new, b, g, taken, next + SizeOf[v])
    BY <1>17, <1>19
<1>21. HoldsRecord(other, next, k, v) => RecoverableFrom(new) = [RecoverableFrom(dev) EXCEPT ![k] = v]
    BY <1>17, Zenon
<1> QED
    BY ONLY <1>16, <1>18, <1>20, <1>21, <1>12, Zenon DEF taken

-------------------------------------------------------------------------------
(* Writing to the other bank *)

\* A bank that holds no more keys than an indexable one is indexable.
LEMMA IndexableLess ==
    ASSUME NEW bank, NEW other, NEW size, Indexable(bank, size),
           Held(other, size) \subseteq Held(bank, size)
    PROVE  Indexable(other, size)
<1>1. IsFiniteSet(Held(bank, size)) /\ Cardinality(Held(bank, size)) <= MaxSettings
    BY DEF Indexable
<1>2. /\ IsFiniteSet(Held(other, size))
      /\ Cardinality(Held(other, size)) <= Cardinality(Held(bank, size))
    BY <1>1, FS_Subset
<1>3. Cardinality(Held(other, size)) \in Nat /\ Cardinality(Held(bank, size)) \in Nat
    BY <1>1, <1>2, FS_CardinalityType
<1> QED
    BY <1>1, <1>2, <1>3, CapacityAssumption DEF Indexable

\* Erasing units leaves no record that was not there.
LEMMA ErasedHeld ==
    ASSUME NEW b \in Banks, NEW bank, NEW new,
           \A q \in 1 .. BankSize[b] : new[q] = bank[q] \/ new[q] = Erased
    PROVE  Held(new, BankSize[b]) \subseteq Held(bank, BankSize[b])
<1> SUFFICES ASSUME NEW k \in Keys, NEW p \in 1 .. BankSize[b], NEW v \in Values,
                    Intact(new, BankSize[b] + 1, p, k, v)
             PROVE  Intact(bank, BankSize[b] + 1, p, k, v)
    BY DEF Held
<1>1. BankSize[b] \in Nat /\ SizeOf[v] \in Nat /\ p + SizeOf[v] <= BankSize[b] + 1
    BY BankAssumption, SizesPositive DEF Intact
<1>2. ASSUME NEW i \in 0 .. SizeOf[v] - 1
      PROVE  bank[p + i] = Fragment(k, v, i)
  <2>1. new[p + i] = Fragment(k, v, i)
      BY <1>2 DEF Intact, HoldsRecord
  <2>2. p + i \in 1 .. BankSize[b]
      BY <1>1
  <2> QED
      BY <2>1, <2>2 DEF Fragment, Erased
<1> QED
    BY <1>2 DEF Intact, HoldsRecord

\* While the other bank does not get a header, a restart finds the same bank and
\* the same settings.
LEMMA OtherWritten ==
    ASSUME GenModulus > 2, NEW dev, IsDevice(dev), Readable(dev),
           NEW b \in Banks, Live(dev, b),
           NEW new, IsDevice(new), new[b] = dev[b],
           \/ new[Inactive(b)][0] = dev[Inactive(b)][0]
           \/ new[Inactive(b)][0] = Erased
           \/ new[Inactive(b)][0] = Mangled("damaged"),
           Indexable(new[Inactive(b)], BankSize[Inactive(b)])
    PROVE  /\ Readable(new) /\ Live(new, b)
           /\ RecoverableFrom(new) = RecoverableFrom(dev)
           /\ \A g, idx, next : Agrees(dev, b, g, idx, next) => Agrees(new, b, g, idx, next)
<1>1. Inactive(b) \in Banks /\ \A c \in Banks : c = b \/ c = Inactive(b)
    BY DEF Inactive, Banks
<1>2. Readable(new)
  <2> SUFFICES ASSUME NEW c \in Banks
               PROVE  new[c][0].kind # "unversioned" /\ Indexable(new[c], BankSize[c])
      BY DEF Readable
  <2>1. CASE c = b
      BY <2>1 DEF Readable
  <2>2. CASE c = Inactive(b)
      BY <1>1, <2>2 DEF Readable, Erased, Mangled
  <2> QED
      BY <1>1, <2>1, <2>2
<1>3. Live(new, b)
    BY DEF Live, Erased, Mangled
<1>4. PICK e \in 1 .. BankSize[b] + 1 : Log(dev[b], BankSize[b], e)
    BY DEF Live
<1>5. e \in Nat
    BY <1>4, BankAssumption
<1>6. PICK idx \in [Keys -> Entries] :
         IndexesRecords(dev[b], BankSize[b], idx, e) /\ Latest(dev[b], idx, e)
    BY <1>4, <1>5, LiveIndex
<1>7. RecoverableFrom(dev) = ValueAt(dev[b], idx)
    BY <1>4, <1>5, <1>6, LiveRestart
<1>8. RecoverableFrom(new) = ValueAt(dev[b], idx)
    BY <1>2, <1>3, <1>4, <1>5, <1>6, LiveRestart
<1> QED
    BY <1>2, <1>3, <1>7, <1>8 DEF Agrees

-------------------------------------------------------------------------------
(* Filling the other bank *)

\* The bank is a log that ends at end, of the records that idx refers to in the
\* bank src, for the keys of S.
Copies(bank, size, end, src, idx, S) ==
    /\ Log(bank, size, end)
    /\ \A k \in Keys, v \in Values :
          (\E p \in 1 .. end - 1 : Intact(bank, end, p, k, v))
          <=> k \in S /\ HoldsRecord(src, idx[k].off, k, v)

\* new is the bank after the units P, from end on, of a copy of a record were written.
CopyWritten(bank, new, size, end, key, val, P) ==
    /\ \A q \in P : q >= end
    /\ \A q \in 1 .. size :
          new[q] = IF q \in P THEN Fragment(key, val, q - end) ELSE bank[q]

\* A copy that is written whole or in part adds no key that the index does not have.
LEMMA CopyHeld ==
    ASSUME NEW d \in Banks, NEW bank \in Contents(d), NEW end \in Nat,
           NEW src, NEW idx, NEW S, S \subseteq Used(idx),
           Copies(bank, BankSize[d], end, src, idx, S),
           NEW key \in Used(idx), NEW val, NEW P, NEW new,
           CopyWritten(bank, new, BankSize[d], end, key, val, P)
    PROVE  Held(new, BankSize[d]) \subseteq Used(idx)
<1> SUFFICES ASSUME NEW k \in Keys, NEW p \in 1 .. BankSize[d], NEW v \in Values,
                    Intact(new, BankSize[d] + 1, p, k, v), k # key
             PROVE  k \in S
    BY DEF Held
<1>1. /\ BankSize[d] \in Nat /\ SizeOf[v] \in Nat /\ SizeOf[v] >= 1 /\ p \in Nat
      /\ p + SizeOf[v] <= BankSize[d] + 1 /\ HoldsRecord(new, p, k, v)
    BY BankAssumption, SizesPositive DEF Intact
<1>2. /\ end \in 1 .. BankSize[d] + 1 /\ Chain(bank, end)
      /\ ErasedFrom(bank, BankSize[d], end)
    BY DEF Copies, Log
<1>3. ASSUME NEW i \in 0 .. SizeOf[v] - 1
      PROVE  /\ p + i \in 1 .. BankSize[d]
             /\ bank[p + i] = Fragment(k, v, i)
  <2>1. p + i \in 1 .. BankSize[d]
      BY <1>1
  <2>2. new[p + i] = Fragment(k, v, i)
      BY <1>1 DEF HoldsRecord
  <2>3. ASSUME p + i \in P PROVE FALSE
    <3>1. new[p + i] = Fragment(key, val, p + i - end)
        BY <2>1, <2>3 DEF CopyWritten
    <3>2. new[p + i].key = key /\ new[p + i].key = k
        BY <2>2, <3>1 DEF Fragment
    <3> QED
        BY <3>2
  <2> QED
      BY <2>1, <2>2, <2>3 DEF CopyWritten
<1>4. HoldsRecord(bank, p, k, v)
    BY <1>3 DEF HoldsRecord
<1>5. bank[p] # Erased /\ IsHead(bank, p) /\ HeadSize(bank[p]) = SizeOf[v]
  <2>1. bank[p].kind = "record" /\ IsHead(bank, p) /\ HeadSize(bank[p]) = SizeOf[v]
      BY <1>1, <1>4, RecordHead
  <2> QED
      BY <2>1 DEF Erased
<1>6. p < end
    BY <1>1, <1>2, <1>5 DEF ErasedFrom
<1>7. p \in 1 .. end - 1 /\ p + SizeOf[v] <= end
    BY <1>1, <1>2, <1>5, <1>6 DEF Chain, EndOf
<1>8. Intact(bank, end, p, k, v)
    BY <1>4, <1>7 DEF Intact
<1> QED
    BY <1>7, <1>8 DEF Copies

\* A copy that is written whole joins the others.
LEMMA CopyGrows ==
    ASSUME NEW d \in Banks, NEW bank \in Contents(d), NEW end \in Nat,
           NEW src, NEW idx \in [Keys -> Entries], NEW S,
           Copies(bank, BankSize[d], end, src, idx, S),
           NEW key \in Keys, NEW val \in Values, HoldsRecord(src, idx[key].off, key, val),
           NEW e \in Nat, e = end + SizeOf[val], e <= BankSize[d] + 1,
           NEW new \in Contents(d),
           CopyWritten(bank, new, BankSize[d], end, key, val, end .. e - 1)
    PROVE  Copies(new, BankSize[d], e, src, idx, S \cup {key})
<1> DEFINE size == BankSize[d]
<1>1. /\ size \in Nat /\ SizeOf[val] \in Nat /\ SizeOf[val] >= 1
      /\ end \in 1 .. size /\ Log(bank, size, end) /\ Chain(bank, end)
    BY BankAssumption, SizesPositive DEF Copies, Log
<1>2. /\ \A q \in 1 .. end - 1 : new[q] = bank[q]
      /\ \A q \in e .. size : new[q] = bank[q]
      /\ \A i \in 0 .. SizeOf[val] - 1 : new[end + i] = Fragment(key, val, i)
    BY <1>1 DEF CopyWritten
<1>3. HoldsRecord(new, end, key, val)
    BY <1>2 DEF HoldsRecord
<1>4. IsHead(new, end) /\ EndOf(new, end) = e /\ new[end] = Fragment(key, val, 0)
    BY <1>1, <1>3, RecordHead DEF EndOf
<1>5. \A q \in end + 1 .. e - 1 : ~ IsHead(new, q)
  <2> SUFFICES ASSUME NEW q \in end + 1 .. e - 1 PROVE ~ IsHead(new, q)
      OBVIOUS
  <2>1. new[q] = Fragment(key, val, q - end) /\ q - end # 0
      BY <1>1 DEF CopyWritten
  <2> QED
      BY <2>1 DEF Fragment, IsHead, HeadSize
<1> HIDE DEF size
<1>6. Chain(new, end) /\ Log(new, size, e)
    BY <1>1, <1>2, <1>4, <1>5, LogGrows DEF OpenLog, size
<1>7. \A p : \A k \in Keys, v \in Values : Intact(new, end, p, k, v) <=> Intact(bank, end, p, k, v)
  <2>1. end \in Nat \ {0}
      BY <1>1
  <2> QED
      BY <1>1, <1>2, <2>1, BelowFrame
<1>8. ASSUME NEW k \in Keys, NEW v \in Values, NEW p \in 1 .. e - 1, Intact(new, e, p, k, v)
      PROVE  k \in S \cup {key} /\ HoldsRecord(src, idx[k].off, k, v)
  <2>1. CASE p = end
    <3>1. new[end] = Fragment(k, v, 0)
        BY <1>1, <1>8, <2>1, RecordHead DEF Intact
    <3> QED
        BY <1>4, <3>1 DEF Fragment
  <2>2. CASE p # end
    <3>1. Intact(new, end, p, k, v)
        BY <1>1, <1>4, <1>5, <1>6, <1>8, <2>2, IntactOver DEF size
    <3>2. Intact(bank, end, p, k, v) /\ p \in 1 .. end - 1
        BY <1>7, <3>1 DEF Intact
    <3> QED
        BY <3>2 DEF Copies
  <2> QED
      BY <2>1, <2>2
<1>9. ASSUME NEW k \in Keys, NEW v \in Values, k \in S \cup {key},
             HoldsRecord(src, idx[k].off, k, v)
      PROVE  \E p \in 1 .. e - 1 : Intact(new, e, p, k, v)
  <2>1. CASE k = key
    <3>1. idx[key].off \in Nat
        BY DEF Entries
    <3>2. src[idx[key].off] = Fragment(key, val, 0) /\ src[idx[key].off] = Fragment(key, v, 0)
        BY <1>9, <2>1, <3>1, RecordHead
    <3>3. v = val
        BY <3>2 DEF Fragment
    <3>4. end \in 1 .. e - 1 /\ Intact(new, e, end, k, v)
        BY <1>1, <1>3, <2>1, <3>3 DEF Intact
    <3> QED
        BY <3>4
  <2>2. CASE k # key
    <3>1. PICK p \in 1 .. end - 1 : Intact(bank, end, p, k, v)
        BY <1>9, <2>2 DEF Copies
    <3>2. Intact(new, end, p, k, v) /\ end <= e
        BY <1>1, <1>7, <3>1
    <3>3. Intact(new, e, p, k, v) /\ p \in 1 .. e - 1
        BY <1>1, <3>1, <3>2, IntactFurther
    <3> QED
        BY <3>3
  <2> QED
      BY <2>1, <2>2
<1> QED
    BY <1>6, <1>8, <1>9 DEF Copies, size

\* Whatever part of the other bank is erased, a restart finds the same settings.
LEMMA OtherErased ==
    ASSUME GenModulus > 2, NEW dev, IsDevice(dev), Readable(dev),
           NEW b \in Banks, Live(dev, b),
           NEW new, IsDevice(new), new[b] = dev[b],
           \/ new[Inactive(b)][0] = dev[Inactive(b)][0]
           \/ new[Inactive(b)][0] = Erased
           \/ new[Inactive(b)][0] = Mangled("damaged"),
           \A q \in 1 .. BankSize[Inactive(b)] :
              new[Inactive(b)][q] = dev[Inactive(b)][q] \/ new[Inactive(b)][q] = Erased
    PROVE  /\ Readable(new) /\ Live(new, b)
           /\ RecoverableFrom(new) = RecoverableFrom(dev)
           /\ \A g, idx, next : Agrees(dev, b, g, idx, next) => Agrees(new, b, g, idx, next)
<1> DEFINE d == Inactive(b)
<1>1. d \in Banks
    BY DEF Inactive, Banks
<1>2. Held(new[d], BankSize[d]) \subseteq Held(dev[d], BankSize[d])
    BY <1>1, ErasedHeld
<1>3. Indexable(new[d], BankSize[d])
    BY <1>1, <1>2, IndexableLess DEF Readable
<1> QED
    BY <1>3, OtherWritten

\* What a bank holds behind its header does not depend on the header.
LEMMA BehindHeader ==
    ASSUME NEW d \in Banks, NEW bank \in Contents(d), NEW new,
           \A q \in 1 .. BankSize[d] : new[q] = bank[q]
    PROVE  /\ Held(new, BankSize[d]) = Held(bank, BankSize[d])
           /\ \A e : Log(bank, BankSize[d], e) => Log(new, BankSize[d], e)
<1>1. BankSize[d] \in Nat
    BY BankAssumption
<1>2. \A q \in 1 .. BankSize[d] : HeadSize(bank[q]) \in Nat
    BY <1>1, HeadFields DEF Contents
<1>3. Held(new, BankSize[d]) \subseteq Held(bank, BankSize[d])
    BY ErasedHeld
<1>4. Held(bank, BankSize[d]) \subseteq Held(new, BankSize[d])
    BY ErasedHeld
<1>5. ASSUME NEW e, Log(bank, BankSize[d], e) PROVE Log(new, BankSize[d], e)
  <2>1. /\ e \in 1 .. BankSize[d] + 1 /\ e \in Nat \ {0} /\ Chain(bank, e)
        /\ ErasedFrom(bank, BankSize[d], e)
      BY <1>1, <1>5 DEF Log
  <2>2. /\ \A q \in 1 .. e - 1 : new[q] = bank[q]
        /\ \A q \in 1 .. e - 1 : HeadSize(bank[q]) \in Nat
      BY <1>1, <1>2, <2>1
  <2>3. Chain(new, e)
      BY <2>1, <2>2, ChainFrame
  <2>4. ErasedFrom(new, BankSize[d], e)
      BY <1>1, <2>1 DEF ErasedFrom
  <2> QED
      BY <2>1, <2>3, <2>4 DEF Log
<1> QED
    BY <1>3, <1>4, <1>5

\* The header that ends a compaction hands the settings over to the copy.
LEMMA Sealed ==
    ASSUME GenModulus > 2, NEW dev, IsDevice(dev), Readable(dev),
           NEW b \in Banks, NEW g, NEW idx \in [Keys -> Entries], NEW next \in Nat \ {0},
           Agrees(dev, b, g, idx, next), NEW d, d = Inactive(b),
           NEW end \in Nat, Copies(dev[d], BankSize[d], end, dev[b], idx, Used(idx)),
           NEW new, IsDevice(new), new[b] = dev[b],
           new[d][0] = Header((g + 1) % GenModulus),
           \A q \in 1 .. BankSize[d] : new[d][q] = dev[d][q]
    PROVE  /\ Readable(new) /\ Live(new, d)
           /\ RecoverableFrom(new) = RecoverableFrom(dev)
<1>1. /\ d \in Banks /\ b = Inactive(d) /\ \A c \in Banks : c = b \/ c = d
      /\ BankSize[d] \in Nat /\ dev[d] \in Contents(d)
    BY BankAssumption DEF Inactive, Banks, IsDevice
<1>2. /\ Held(new[d], BankSize[d]) = Held(dev[d], BankSize[d])
      /\ Log(new[d], BankSize[d], end)
    BY <1>1, BehindHeader DEF Copies
<1>3. Readable(new)
  <2> SUFFICES ASSUME NEW c \in Banks
               PROVE  new[c][0].kind # "unversioned" /\ Indexable(new[c], BankSize[c])
      BY DEF Readable
  <2>1. CASE c = b
      BY <2>1 DEF Readable
  <2>2. CASE c = d
    <3>1. Indexable(new[d], BankSize[d])
        BY <1>1, <1>2, IndexableLess DEF Readable
    <3> QED
        BY <2>2, <3>1 DEF Header
  <2> QED
      BY <1>1, <2>1, <2>2
<1>4. Live(new, d)
  <2>1. dev[b][0] = Header(g) /\ end \in 1 .. BankSize[d] + 1
      BY <1>2 DEF Agrees, Log
  <2> QED
      BY <1>1, <1>2, <2>1 DEF Live, Header
<1>5. PICK other \in [Keys -> Entries] :
         IndexesRecords(new[d], BankSize[d], other, end) /\ Latest(new[d], other, end)
    BY <1>1, <1>2, <1>3, <1>4, LiveIndex
<1>6. RecoverableFrom(new) = ValueAt(new[d], other)
    BY <1>1, <1>2, <1>3, <1>4, <1>5, LiveRestart
<1>7. RecoverableFrom(dev) = ValueAt(dev[b], idx)
    BY AgreesRestart
<1>8. IndexesRecords(dev[b], BankSize[b], idx, next)
    BY DEF Agrees
<1>9. ASSUME NEW k \in Keys, NEW v \in Values, NEW p, Intact(new[d], end, p, k, v)
      PROVE  k \in Used(idx) /\ HoldsRecord(dev[b], idx[k].off, k, v)
  <2>1. end \in Nat \ {0} /\ \A q \in 1 .. end - 1 : new[d][q] = dev[d][q]
      BY <1>1, <1>2 DEF Log
  <2>2. Intact(dev[d], end, p, k, v)
      BY <1>5, <1>9, <2>1, BelowFrame
  <2>3. p \in 1 .. end - 1
      BY <2>2 DEF Intact
  <2> QED
      BY <2>2, <2>3 DEF Copies
<1>10. ASSUME NEW k \in Keys, k \in Used(other)
       PROVE  k \in Used(idx) /\ new[d][other[k].off].val = dev[b][idx[k].off].val
  <2>1. /\ other[k].off \in Nat /\ other[k].off # 0 /\ other[k].size \in Nat
        /\ idx[k].off \in Nat
      BY <1>10 DEF Used, Entries
  <2>2. PICK v \in Values : /\ SizeOf[v] = other[k].size
                            /\ HoldsRecord(new[d], other[k].off, k, v)
      BY <1>5, <1>10 DEF IndexesRecords
  <2>3. other[k].off + SizeOf[v] <= end /\ SizeOf[v] \in Nat /\ SizeOf[v] >= 1
      BY <1>5, <1>10, <2>2, SizesPositive DEF IndexesRecords
  <2>4. Intact(new[d], end, other[k].off, k, v)
      BY <2>1, <2>2, <2>3 DEF Intact
  <2>5. k \in Used(idx) /\ HoldsRecord(dev[b], idx[k].off, k, v)
      BY <1>9, <2>4
  <2>6. new[d][other[k].off].val = v /\ dev[b][idx[k].off].val = v
      BY <2>1, <2>2, <2>5, RecordHead
  <2> QED
      BY <2>5, <2>6
<1>11. ASSUME NEW k \in Keys, k \in Used(idx)
       PROVE  k \in Used(other)
  <2>1. PICK v \in Values : HoldsRecord(dev[b], idx[k].off, k, v)
      BY <1>8, <1>11 DEF IndexesRecords
  <2>2. PICK p \in 1 .. end - 1 : Intact(dev[d], end, p, k, v)
      BY <1>11, <2>1 DEF Copies
  <2>3. end \in Nat \ {0} /\ \A q \in 1 .. end - 1 : new[d][q] = dev[d][q]
      BY <1>1, <1>2 DEF Log
  <2>4. Intact(new[d], end, p, k, v)
      BY <1>5, <2>2, <2>3, BelowFrame
  <2>5. p <= other[k].off /\ p >= 1
      BY <1>5, <2>2, <2>4 DEF Latest
  <2>6. other[k].off # 0
      BY <2>2, <2>5 DEF Entries
  <2> QED
      BY <2>6 DEF Used
<1>12. ValueAt(new[d], other) = ValueAt(dev[b], idx)
    BY <1>10, <1>11 DEF ValueAt
<1> QED
    BY <1>3, <1>4, <1>6, <1>7, <1>12

-------------------------------------------------------------------------------
(* The first header *)

\* Until the first header is written whole, nothing has been stored.
LEMMA StillVirgin ==
    ASSUME NEW dev, IsDevice(dev), Readable(dev), Virgin(dev),
           NEW new, IsDevice(new), new["B"] = dev["B"],
           new["A"][0] \in {Erased, Mangled("damaged")},
           \A q \in 1 .. BankSize["A"] : new["A"][q] = dev["A"][q]
    PROVE  /\ Readable(new) /\ Virgin(new)
           /\ RecoverableFrom(new) = RecoverableFrom(dev)
<1>1. Virgin(new)
    BY DEF Virgin, Banks, ErasedFrom
<1>2. Readable(new)
  <2> SUFFICES ASSUME NEW c \in Banks
               PROVE  new[c][0].kind # "unversioned" /\ Indexable(new[c], BankSize[c])
      BY DEF Readable
  <2>1. Held(new[c], BankSize[c]) = {} /\ Held(dev[c], BankSize[c]) = {}
      BY <1>1, ErasedHolds DEF Virgin
  <2>2. Indexable(new[c], BankSize[c])
      BY <2>1, IndexableLess DEF Readable
  <2> QED
      BY <1>1, <2>2 DEF Virgin, Banks, Erased, Mangled
<1> QED
    BY <1>1, <1>2, VirginRestart

\* The first header makes bank A a log without records.
LEMMA Formatted ==
    ASSUME GenModulus > 2, NEW dev, IsDevice(dev), Readable(dev), Virgin(dev),
           NEW new, IsDevice(new), new["B"] = dev["B"],
           new["A"][0] = Header(0),
           \A q \in 1 .. BankSize["A"] : new["A"][q] = dev["A"][q]
    PROVE  /\ Readable(new) /\ Agrees(new, "A", 0, EmptyIndex, 1)
           /\ RecoverableFrom(new) = RecoverableFrom(dev)
<1>1. /\ "A" \in Banks /\ Inactive("A") = "B" /\ BankSize["A"] \in Nat
      /\ ErasedFrom(new["A"], BankSize["A"], 1)
    BY BankAssumption DEF Virgin, Banks, Inactive, ErasedFrom
<1>2. Log(new["A"], BankSize["A"], 1)
    BY <1>1 DEF Log, Chain
<1>3. Readable(new)
  <2> SUFFICES ASSUME NEW c \in Banks
               PROVE  new[c][0].kind # "unversioned" /\ Indexable(new[c], BankSize[c])
      BY DEF Readable
  <2>1. Held(new[c], BankSize[c]) = {} /\ Held(dev[c], BankSize[c]) = {}
    <3>1. ErasedFrom(new[c], BankSize[c], 1) /\ ErasedFrom(dev[c], BankSize[c], 1)
        BY <1>1 DEF Virgin, Banks
    <3> QED
        BY <3>1, ErasedHolds
  <2>2. Indexable(new[c], BankSize[c])
      BY <2>1, IndexableLess DEF Readable
  <2>3. new[c][0].kind # "unversioned"
      BY DEF Virgin, Banks, Erased, Header
  <2> QED
      BY <2>2, <2>3
<1>4. Live(new, "A")
  <2>1. new["B"][0] = Erased
      BY DEF Virgin
  <2> QED
      BY <1>1, <1>2, <2>1 DEF Live, Header, Erased
<1>5. /\ EmptyIndex \in [Keys -> Entries] /\ Used(EmptyIndex) = {}
      /\ IndexesRecords(new["A"], BankSize["A"], EmptyIndex, 1)
      /\ Latest(new["A"], EmptyIndex, 1)
    BY EmptyIndexSound DEF Latest, EmptyIndex, Intact
<1>6. Agrees(new, "A", 0, EmptyIndex, 1)
    BY <1>2, <1>4, <1>5 DEF Agrees, OpenLog
<1>7. RecoverableFrom(new) = ValueAt(new["A"], EmptyIndex)
    BY <1>1, <1>3, <1>5, <1>6, AgreesRestart
<1>8. ValueAt(new["A"], EmptyIndex) = [k \in Keys |-> NoValue]
    BY <1>5 DEF ValueAt
<1> QED
    BY <1>3, <1>6, <1>7, <1>8, VirginRestart

-------------------------------------------------------------------------------
(* The properties of the running store *)

\* What the proofs ask of the device: a failing call of it changes nothing, and a
\* header that was torn is not read as one of another version.
Benign ==
    /\ Faults \subseteq {"read", "write"}
    /\ MangledHeaders \subseteq {"damaged"}
    /\ GenModulus > 2

-------------------------------------------------------------------------------
(* The state and the writes of a step *)

\* The types of the state, as the lemmas about devices want them.
LEMMA StateTyped ==
    ASSUME IInv
    PROVE  /\ IsDevice(flash)
           /\ active \in Banks /\ Inactive(active) \in Banks /\ Inactive(active) # active
           /\ indices \in [Keys -> Entries] /\ nextOff \in Nat \ {0}
           /\ generation \in Generations /\ dest \in Nat
           /\ found \in [Banks -> BankStates]
           /\ IndexesRecords(flash[active], BankSize[active], indices, nextOff)
BY DEF IInv, TypeOK, IndexSound, IsDevice, Inactive, Banks

\* A step leaves a device.
LEMMA DeviceAfter ==
    ASSUME IInv' PROVE IsDevice(flash')
BY DEF IInv, TypeOK, IsDevice

\* A write changes the units that its image covers.
LEMMA WriteAt ==
    ASSUME IInv, NEW b \in Banks, NEW image, Write(b, image)
    PROVE  /\ \A c \in Banks : c # b => flash'[c] = flash[c]
           /\ \A q \in 0 .. BankSize[b] :
                 flash'[b][q] = IF q \in DOMAIN image THEN image[q] ELSE flash[b][q]
<1>1. flash = [c \in Banks |-> flash[c]] /\ flash[b] \in Contents(b)
    BY DEF IInv, TypeOK
<1>2. \A c \in Banks : flash'[c] = IF c = b THEN Written(flash[b], image) ELSE flash[c]
    BY <1>1 DEF Write
<1>3. DOMAIN flash[b] = 0 .. BankSize[b]
    BY <1>1 DEF Contents
<1> QED
    BY <1>2, <1>3 DEF Written

\* What is left of a torn write is made of units of its image, but for a header.
LEMMA TornWrite ==
    ASSUME Benign, NEW image, NEW part \in Parts(image)
    PROVE  /\ DOMAIN part \subseteq DOMAIN image
           /\ \A q \in DOMAIN part : q # 0 => part[q] = image[q]
           /\ 0 \in DOMAIN part => \/ part[0] = image[0]
                                   \/ part[0] = Mangled("damaged") /\ MangledHeaders # {}
<1>1. PICK S \in SUBSET DOMAIN image :
        \/ part = [p \in S |-> image[p]]
        \/ \E t \in TornHeaders(image) :
              part = [p \in S \cup {0} |-> IF p = 0 THEN Mangled(t) ELSE image[p]]
    BY DEF Parts
<1>2. CASE part = [p \in S |-> image[p]]
    BY <1>2
<1>3. ASSUME NEW t \in TornHeaders(image),
             part = [p \in S \cup {0} |-> IF p = 0 THEN Mangled(t) ELSE image[p]]
      PROVE  /\ DOMAIN part \subseteq DOMAIN image
             /\ \A q \in DOMAIN part : q # 0 => part[q] = image[q]
             /\ part[0] = Mangled("damaged") /\ MangledHeaders # {}
  <2>1. 0 \in DOMAIN image /\ t = "damaged" /\ MangledHeaders # {}
      BY DEF TornHeaders, Benign
  <2> QED
      BY <1>3, <2>1
<1> QED
    BY <1>1, <1>2, <1>3

\* The only header cell with a given generation.
LEMMA HeaderCell ==
    ASSUME NEW c \in Cells, c.kind = "header" PROVE c = Header(c.gen)
BY DEF Cells, Header, Erased, Mangled, MangledKinds

-------------------------------------------------------------------------------
(* Establishing the invariant after a step *)

\* A device with a bank that holds the log is sound.
LEMMA LiveSound ==
    ASSUME Readable(flash'), NEW b \in Banks, Live(flash', b)
    PROVE  DeviceSound'
<1>1. ~ Virgin(flash')
    BY DEF Virgin, Live, Banks, Erased, Mangled
<1> QED
    BY <1>1 DEF DeviceSound

\* A device that no write touches stays sound.
LEMMA DeviceFrame ==
    ASSUME DeviceSound, UNCHANGED flash
    PROVE  DeviceSound' /\ Recoverable' = Recoverable
BY DEF DeviceSound, Recoverable

\* The invariant holds when no call runs, if the device is sound and agrees with
\* the RAM state of a store that is open.
LEMMA AnswerSound ==
    ASSUME pc' = "idle", call' = NoCall, DeviceSound', isOpen' => RamAgrees'
    PROVE  DInv'
BY DEF DInv, PhasesApart, CallAgrees, Opening, Storing

\* The invariant holds while store() runs, if the device agrees with the RAM state.
LEMMA StoringSound ==
    ASSUME pc' \in Storing, isOpen', call' # NoCall, Readable(flash'), RamAgrees',
           active' \in Banks,
           pc' \in {"prefix", "record"} => CanIndex(indices', call'.key),
           pc' = "record" => flash'[active'][nextOff'] = TypeOnly(SizeOf[call'.val]),
           pc' \in {"copy", "seal"} => Copied'
    PROVE  DInv'
<1>1. DeviceSound'
    BY LiveSound DEF RamAgrees, Agrees
<1>2. PhasesApart'
    BY DEF PhasesApart, Opening, Storing
<1>3. CallAgrees'
    BY DEF CallAgrees, Storing
<1> QED
    BY <1>1, <1>2, <1>3 DEF DInv

\* Which calls may be running, and that the RAM state is good for them.
LEMMA Phase ==
    ASSUME IInv, DInv
    PROVE  /\ pc \in Storing => call # NoCall /\ isOpen /\ RamAgrees
           /\ pc \in Opening => call = NoCall /\ ~ isOpen
           /\ pc = "idle" => call = NoCall
           /\ pc = "recover" \/ (pc = "idle" /\ isOpen) => RamAgrees
           /\ Readable(flash)
           /\ RamAgrees => Live(flash, active) /\ ~ Virgin(flash)
<1>1. pc \in Storing => call # NoCall /\ isOpen
    BY DEF DInv, PhasesApart
<1>2. pc \in Opening => call = NoCall /\ ~ isOpen
    BY DEF DInv, PhasesApart, Opening, Storing
<1>3. pc = "idle" => call = NoCall
    BY DEF DInv, PhasesApart, Storing
<1>4. pc \in Storing \/ pc = "recover" \/ (pc = "idle" /\ isOpen) => RamAgrees
    BY DEF DInv, CallAgrees
<1>5. Readable(flash)
    BY DEF DInv, DeviceSound
<1>6. RamAgrees => Live(flash, active)
    BY DEF RamAgrees, Agrees
<1>7. active \in Banks
    BY StateTyped
<1>8. Live(flash, active) => ~ Virgin(flash)
    BY <1>7 DEF Virgin, Live, Banks, Erased, Mangled
<1> QED
    BY <1>1, <1>2, <1>3, <1>4, <1>5, <1>6, <1>8

\* The invariant holds while open() inspects or salvages, if it knows what it has read.
LEMMA OpeningSound ==
    ASSUME pc' \in {"inspect", "salvage", "format"}, ~ isOpen', call' = NoCall, DeviceSound',
           pc' = "inspect" =>
              \A b \in Banks : found'[b].res # "Unread" => Inspected(flash', b, found'[b]),
           pc' \in {"salvage", "format"} => Virgin(flash'),
           pc' = "format" => flash'["A"][0] = Erased
    PROVE  DInv'
BY DEF DInv, PhasesApart, CallAgrees, Opening, Storing

-------------------------------------------------------------------------------
(* The steps of open() *)

\* What inspection found once it is over: a live bank is valid and selected; on a
\* device on which nothing has been stored there is no valid bank.
LEMMA Verdict ==
    ASSUME Benign, IInv, DInv, pc = "inspect", Examined
    PROVE  /\ \A b \in Banks : Inspected(flash, b, found[b]) /\ found[b].res # "Scanning"
           /\ ~ Refused(found)
           /\ \A b \in Banks : Live(flash, b) => Selected(found) = b /\ found[b].res = "Ok"
           /\ Virgin(flash) => \A b \in Banks : found[b] = HeaderRead(flash[b])
           /\ Virgin(flash) => Valid(found) = {}
<1>1. \A b \in Banks : found[b].res # "Scanning" /\ found[b].res # "Unread"
    BY DEF Examined, Busy
<1>2. \A b \in Banks : Inspected(flash, b, found[b])
    BY <1>1 DEF DInv, CallAgrees
<1>3. IsDevice(flash) /\ Readable(flash)
    BY StateTyped DEF DInv, DeviceSound
<1>4. ASSUME NEW b \in Banks, Live(flash, b)
      PROVE  ~ Refused(found) /\ Selected(found) = b /\ found[b].res = "Ok"
    BY <1>1, <1>2, <1>3, <1>4, LiveSelected DEF Benign, Valid
<1>5. ASSUME Virgin(flash)
      PROVE  /\ \A b \in Banks : found[b] = HeaderRead(flash[b])
             /\ Valid(found) = {} /\ ~ Refused(found)
  <2>1. \A b \in Banks : flash[b][0].kind \notin {"header", "unversioned"}
      BY <1>5 DEF Virgin, Erased, Mangled, Banks
  <2>2. \A b \in Banks : found[b] = HeaderRead(flash[b])
      BY <1>2, <2>1 DEF Inspected
  <2>3. \A b \in Banks : HeaderVerdict(flash[b]) \in {"Blank", "CorruptData"}
      BY <2>1 DEF HeaderVerdict
  <2>4. ASSUME NEW b \in Banks PROVE found[b].res \in {"Blank", "CorruptData"}
    <3>1. HeaderRead(flash[b]) = BankState(HeaderVerdict(flash[b]), 0)
        BY <2>3 DEF HeaderRead
    <3>2. HeaderRead(flash[b]).res = HeaderVerdict(flash[b])
        BY <3>1 DEF BankState
    <3> QED
        BY <2>2, <2>3, <3>2
  <2> QED
      BY <2>2, <2>4 DEF Valid, Refused
<1>6. ~ Refused(found)
    BY <1>4, <1>5 DEF DInv, DeviceSound
<1> QED
    BY <1>1, <1>2, <1>4, <1>5, <1>6

\* Reading a header, and one iteration of a scan, tell inspection what it must know.
LEMMA InspectStep ==
    ASSUME Benign, IInv, DInv, NEW b \in Banks, InspectHeader(b) \/ ScanRecord(b)
    PROVE  DInv' /\ Recoverable' = Recoverable
<1>1. /\ UNCHANGED <<flash, ram, pc, call>> /\ pc \in {"inspect", "salvage"}
      /\ \E st : found' = [found EXCEPT ![b] = st]
    BY DEF InspectHeader, ScanRecord
<1>2. DeviceSound' /\ Recoverable' = Recoverable
    BY <1>1, DeviceFrame DEF DInv
<1>3. ~ isOpen' /\ call' = NoCall
    BY <1>1, Phase DEF Opening, ram
<1>4. IsDevice(flash) /\ Readable(flash) /\ found \in [Banks -> BankStates]
    BY StateTyped, Phase
<1>5. pc = "salvage" => Virgin(flash')
    BY <1>1 DEF DInv, CallAgrees
<1>6. ASSUME pc = "inspect", NEW c \in Banks, found'[c].res # "Unread"
      PROVE  Inspected(flash', c, found'[c])
  <2>1. found[c].res # "Unread" => Inspected(flash, c, found[c])
      BY <1>6 DEF DInv, CallAgrees
  <2>2. CASE c # b
      BY <1>1, <1>4, <1>6, <2>1, <2>2
  <2>3. CASE c = b /\ InspectHeader(b)
    <3>1. found'[b] = HeaderRead(flash[b])
        BY <1>4, <2>3 DEF InspectHeader
    <3>2. flash[b][0].kind # "unversioned"
        BY <1>4 DEF Readable
    <3> QED
        BY <1>1, <1>4, <2>3, <3>1, <3>2, InspectedFirst
  <2>4. CASE c = b /\ ScanRecord(b)
    <3>1. found'[b] = ScanStep(flash[b], BankSize[b], found[b])
        BY <1>4, <2>4 DEF ScanRecord
    <3>2. found[b].res = "Scanning" /\ found[b] \in BankStates
        BY <1>4, <2>4 DEF ScanRecord
    <3>3. Inspected(flash, b, ScanStep(flash[b], BankSize[b], found[b]))
        BY <1>4, <2>1, <2>4, <3>2, InspectedNext
    <3> QED
        BY <1>1, <2>4, <3>1, <3>3
  <2> QED
      BY <2>2, <2>3, <2>4
<1> QED
    BY <1>1, <1>2, <1>3, <1>5, <1>6, OpeningSound

\* open() adopts the live bank, with the settings that a restart would load.
LEMMA SelectStep ==
    ASSUME Benign, IInv, DInv, SelectValid \/ SelectBlank \/ SelectSalvage
    PROVE  DInv' /\ Recoverable' = Recoverable
<1>1. pc = "inspect" /\ Examined /\ UNCHANGED flash
    BY DEF SelectValid, SelectBlank, SelectSalvage
<1>2. DeviceSound' /\ Recoverable' = Recoverable
    BY <1>1, DeviceFrame DEF DInv
<1>3. ~ isOpen /\ call = NoCall
    BY <1>1, Phase DEF Opening
<1>4. Virgin(flash) \/ \E b \in Banks : Live(flash, b)
    BY DEF DInv, DeviceSound
<1>5. ASSUME SelectValid
      PROVE  DInv'
  <2>1. PICK b \in Banks : Live(flash, b)
      BY <1>1, <1>4, <1>5, Verdict DEF SelectValid
  <2>2. /\ Selected(found) = b /\ Inspected(flash, b, found[b])
        /\ found[b].res # "Scanning" /\ found[b] \in BankStates
      BY <1>1, <2>1, Verdict, StateTyped
  <2>3. PICK e \in Nat : e \in 1 .. BankSize[b] + 1 /\ Log(flash[b], BankSize[b], e)
      BY <2>1, BankAssumption DEF Live
  <2>4. flash[b][0] \in Cells
      BY BankAssumption DEF IInv, TypeOK, Contents
  <2>5. /\ found[b].gen = flash[b][0].gen /\ found[b].next = e
        /\ IndexesRecords(flash[b], BankSize[b], found[b].idx, e)
        /\ Latest(flash[b], found[b].idx, e)
      BY <2>1, <2>2, <2>3, LiveInspected
  <2>6. flash[b][0] = Header(found[b].gen)
      BY <2>1, <2>4, <2>5, HeaderCell DEF Live
  <2>7. Agrees(flash, b, found[b].gen, found[b].idx, found[b].next)
      BY <2>1, <2>3, <2>5, <2>6 DEF Agrees, OpenLog
  <2>8. /\ active' = b /\ generation' = found[b].gen /\ indices' = found[b].idx
        /\ nextOff' = found[b].next
      BY <1>5, <2>2 DEF SelectValid, Adopt
  <2>9. RamAgrees'
      BY <1>1, <2>7, <2>8 DEF RamAgrees
  <2>10. CASE pc' = "recover" /\ UNCHANGED <<isOpen, call>>
    <3>1. PhasesApart' /\ CallAgrees'
        BY <1>3, <2>9, <2>10 DEF PhasesApart, CallAgrees, Opening, Storing
    <3> QED
        BY <1>2, <3>1 DEF DInv
  <2>11. CASE pc' = "idle" /\ call' = NoCall
      BY <1>2, <2>9, <2>11, AnswerSound
  <2> QED
      BY <1>5, <2>10, <2>11 DEF SelectValid, Opened, Answer
<1>6. ASSUME SelectBlank \/ SelectSalvage
      PROVE  DInv'
  <2>1. \A b \in Banks : found[b].res # "Ok"
      BY <1>6 DEF SelectBlank, SelectSalvage, Valid
  <2>2. Virgin(flash)
      BY <1>1, <1>4, <2>1, Verdict
  <2>3. SelectBlank => flash["A"][0] = Erased
    <3> SUFFICES ASSUME SelectBlank PROVE flash["A"][0] = Erased
        OBVIOUS
    <3>1. "A" \in Banks /\ 0 \in DOMAIN flash["A"]
        BY BankAssumption, StateTyped DEF Banks, IsDevice, Contents
    <3>2. HeaderRead(flash["A"]).res = "Blank"
        BY <1>1, <2>2, <3>1, Verdict DEF SelectBlank
    <3>3. HeaderVerdict(flash["A"]) = "Blank"
        BY <3>2 DEF HeaderRead, BankState
    <3> QED
        BY <3>1, <3>3 DEF HeaderVerdict
  <2>4. /\ pc' \in {"salvage", "format"} /\ (pc' = "format" => SelectBlank)
        /\ UNCHANGED <<isOpen, call>>
      BY <1>6 DEF SelectBlank, SelectSalvage, ram
  <2> QED
      BY <1>1, <1>2, <1>3, <2>2, <2>3, <2>4, OpeningSound
<1> QED
    BY <1>2, <1>5, <1>6

\* Erasing the inactive bank, or any part of it, changes nothing for a restart.
LEMMA EraseInactive ==
    ASSUME Benign, IInv, IInv', DInv, RamAgrees, NEW image,
           DOMAIN image \subseteq 0 .. BankSize[Inactive(active)],
           \A q \in DOMAIN image : q # 0 => image[q] = Erased,
           0 \in DOMAIN image => image[0] \in {Erased, Mangled("damaged")},
           Write(Inactive(active), image)
    PROVE  /\ DeviceSound' /\ Readable(flash') /\ Recoverable' = Recoverable
           /\ Agrees(flash', active, generation, indices, nextOff)
<1> DEFINE d == Inactive(active)
<1>1. /\ IsDevice(flash) /\ IsDevice(flash') /\ Readable(flash) /\ Live(flash, active)
      /\ active \in Banks /\ d \in Banks /\ d # active /\ BankSize[d] \in Nat
    BY StateTyped, DeviceAfter, Phase, BankAssumption
<1>2. /\ flash'[active] = flash[active]
      /\ \A q \in 0 .. BankSize[d] :
            flash'[d][q] = IF q \in DOMAIN image THEN image[q] ELSE flash[d][q]
    BY <1>1, WriteAt
<1>3. \/ flash'[d][0] = flash[d][0]
      \/ flash'[d][0] = Erased
      \/ flash'[d][0] = Mangled("damaged")
    BY <1>1, <1>2
<1>4. \A q \in 1 .. BankSize[d] : flash'[d][q] = flash[d][q] \/ flash'[d][q] = Erased
    BY <1>1, <1>2
<1>5. /\ Readable(flash') /\ Live(flash', active)
      /\ RecoverableFrom(flash') = RecoverableFrom(flash)
      /\ Agrees(flash', active, generation, indices, nextOff)
    BY <1>1, <1>2, <1>3, <1>4, OtherErased DEF Benign, RamAgrees
<1> QED
    BY <1>1, <1>5, LiveSound DEF Recoverable

\* open() clears the damaged bank; the live one is as a restart would find it.
LEMMA RecoverStep ==
    ASSUME Benign, IInv, IInv', DInv, Recover
    PROVE  DInv' /\ Recoverable' = Recoverable
<1> DEFINE image == EraseImage(Inactive(active))
<1>1. /\ RamAgrees /\ Write(Inactive(active), image)
      /\ UNCHANGED <<active, generation, indices, nextOff>>
      /\ pc' = "idle" /\ call' = NoCall
    BY Phase DEF Recover, Opened, Answer
<1>2. /\ DOMAIN image \subseteq 0 .. BankSize[Inactive(active)]
      /\ \A q \in DOMAIN image : image[q] = Erased
    BY DEF EraseImage
<1> HIDE DEF image
<1>3. /\ DeviceSound' /\ Recoverable' = Recoverable
      /\ Agrees(flash', active, generation, indices, nextOff)
    BY <1>1, <1>2, EraseInactive
<1>4. RamAgrees'
    BY <1>1, <1>3 DEF RamAgrees
<1> QED
    BY <1>1, <1>3, <1>4, AnswerSound

\* What the first header leaves for a restart, written to a device on which
\* nothing has been stored.
LEMMA FormatWritten ==
    ASSUME Benign, IInv, IInv', DInv, pc = "format", NEW image, Write("A", image),
           DOMAIN image = {0}, image[0] = Header(0)
    PROVE  /\ DeviceSound' /\ Recoverable' = Recoverable
           /\ Agrees(flash', "A", 0, EmptyIndex, 1)
<1>1. Virgin(flash) /\ Readable(flash)
    BY DEF DInv, CallAgrees, DeviceSound
<1>2. /\ IsDevice(flash) /\ IsDevice(flash') /\ "A" \in Banks /\ "B" \in Banks
      /\ BankSize["A"] \in Nat
    BY StateTyped, DeviceAfter, BankAssumption DEF Banks
<1>3. /\ flash'["B"] = flash["B"] /\ flash'["A"][0] = Header(0)
      /\ \A q \in 1 .. BankSize["A"] : flash'["A"][q] = flash["A"][q]
    BY <1>2, WriteAt
<1>4. /\ Readable(flash') /\ Agrees(flash', "A", 0, EmptyIndex, 1)
      /\ RecoverableFrom(flash') = RecoverableFrom(flash)
    BY <1>1, <1>2, <1>3, Formatted DEF Benign
<1>5. DeviceSound'
    BY <1>2, <1>4, LiveSound DEF Agrees
<1> QED
    BY <1>4, <1>5 DEF Recoverable

\* open() formats the device.
LEMMA FormatStep ==
    ASSUME Benign, IInv, IInv', DInv, Format
    PROVE  DInv' /\ Recoverable' = Recoverable
<1>1. /\ pc = "format" /\ Write("A", HeaderImage(0))
      /\ active' = "A" /\ generation' = 0 /\ indices' = EmptyIndex /\ nextOff' = 1
      /\ pc' = "idle" /\ call' = NoCall
    BY DEF Format, Opened, Answer
<1>2. DOMAIN HeaderImage(0) = {0} /\ HeaderImage(0)[0] = Header(0)
    BY DEF HeaderImage
<1>3. /\ DeviceSound' /\ Recoverable' = Recoverable
      /\ Agrees(flash', "A", 0, EmptyIndex, 1)
    BY <1>1, <1>2, FormatWritten
<1>4. RamAgrees'
    BY <1>1, <1>3 DEF RamAgrees
<1> QED
    BY <1>1, <1>3, <1>4, AnswerSound

\* Where nothing has been stored there is nothing to salvage.
LEMMA SalvageStep ==
    ASSUME IInv, DInv, Salvage
    PROVE  DInv' /\ Recoverable' = Recoverable /\ Abort("CorruptData")
<1>1. pc = "salvage" /\ Virgin(flash) /\ UNCHANGED flash /\ ~ isOpen
    BY Phase DEF DInv, CallAgrees, Salvage, Opening
<1>2. \A b \in Banks : Used(found[b].idx) = {}
  <2> SUFFICES ASSUME NEW b \in Banks PROVE Used(found[b].idx) = {}
      OBVIOUS
  <2>1. /\ found[b].idx \in [Keys -> Entries] /\ found[b].next \in Nat
        /\ ErasedFrom(flash[b], BankSize[b], 1)
      BY <1>1, StateTyped DEF BankStates, Virgin
  <2>2. IndexesRecords(flash[b], BankSize[b], found[b].idx, found[b].next)
      BY DEF IInv, IndexSound
  <2> QED
      BY <2>1, <2>2, ErasedHolds
<1>3. Salvageable(found) = {}
    BY <1>2 DEF Salvageable
<1>4. Abort("CorruptData")
    BY <1>3, FS_EmptySet DEF Salvage
<1>5. pc' = "idle" /\ call' = NoCall /\ ~ isOpen'
    BY <1>1, <1>4 DEF Abort, Answer, ram
<1> QED
    BY <1>1, <1>4, <1>5, DeviceFrame, AnswerSound DEF DInv

\* Every step of open() keeps the invariant and the settings.
LEMMA OpenStepSound ==
    ASSUME Benign, IInv, IInv', DInv, OpenStep
    PROVE  DInv' /\ Recoverable' = Recoverable
<1>1. ~ RefuseBanks
    BY Verdict DEF RefuseBanks
<1> QED
    BY <1>1, InspectStep, SelectStep, RecoverStep, FormatStep, SalvageStep DEF OpenStep

-------------------------------------------------------------------------------
(* The steps of append() *)

\* append() makes room or answers without writing anything.
LEMMA AppendSound ==
    ASSUME IInv, IInv', DInv, Append
    PROVE  DInv' /\ Recoverable' = Recoverable
<1>1. /\ pc \in {"append", "reappend"} /\ UNCHANGED <<flash, ram>>
      /\ isOpen /\ call # NoCall /\ RamAgrees /\ Readable(flash) /\ active \in Banks
    BY Phase, StateTyped DEF Append, Storing
<1>2. RamAgrees' /\ isOpen' /\ Readable(flash') /\ active' \in Banks
    BY <1>1 DEF RamAgrees, ram
<1>3. DeviceSound' /\ Recoverable' = Recoverable
    BY <1>1, DeviceFrame DEF DInv
<1>4. CASE Fits /\ pc' = "prefix" /\ UNCHANGED call
  <2>1. CanIndex(indices', call'.key)
      BY <1>1, <1>4 DEF Fits, ram
  <2>2. pc' \in Storing /\ pc' \notin {"record", "copy", "seal"} /\ call' # NoCall
      BY <1>1, <1>4 DEF Storing
  <2> QED
      BY <1>2, <1>3, <2>1, <2>2, StoringSound
<1>5. CASE pc' = "clear" /\ UNCHANGED call
  <2>1. /\ pc' \in Storing /\ pc' \notin {"prefix", "record", "copy", "seal"}
        /\ call' # NoCall
      BY <1>1, <1>5 DEF Storing
  <2> QED
      BY <1>2, <1>3, <2>1, StoringSound
<1>6. CASE pc' = "idle" /\ call' = NoCall
    BY <1>2, <1>3, <1>6, AnswerSound
<1> QED
    BY <1>4, <1>5, <1>6 DEF Append, Answer, locals

\* What the record's type prefix leaves for a restart.
LEMMA PrefixSound ==
    ASSUME Benign, IInv, IInv', DInv, pc = "prefix", NEW image, Write(active, image),
           DOMAIN image = {nextOff}, image[nextOff] = TypeOnly(SizeOf[call.val])
    PROVE  /\ DeviceSound' /\ Readable(flash') /\ Recoverable' = Recoverable
           /\ Agrees(flash', active, generation, indices, nextOff)
           /\ flash'[active][nextOff] = TypeOnly(SizeOf[call.val])
<1> DEFINE v == call.val
<1>1. RamAgrees /\ Readable(flash)
    BY Phase DEF Storing
<1>2. /\ IsDevice(flash) /\ IsDevice(flash') /\ active \in Banks
      /\ Inactive(active) \in Banks /\ Inactive(active) # active
      /\ indices \in [Keys -> Entries] /\ nextOff \in Nat \ {0}
    BY StateTyped, DeviceAfter
<1>3. v \in Values /\ nextOff + SizeOf[v] <= BankSize[active] + 1
    BY DEF IInv, TypeOK, CallConsistent
<1>4. /\ flash'[Inactive(active)] = flash[Inactive(active)]
      /\ \A q \in 0 .. BankSize[active] :
            flash'[active][q] = IF q = nextOff THEN TypeOnly(SizeOf[v]) ELSE flash[active][q]
    BY <1>2, WriteAt
<1> HIDE DEF v
<1>5. /\ Readable(flash') /\ Agrees(flash', active, generation, indices, nextOff)
      /\ RecoverableFrom(flash') = RecoverableFrom(flash)
    BY <1>1, <1>2, <1>3, <1>4, PrefixWritten DEF Benign, RamAgrees
<1>6. flash'[active][nextOff] = TypeOnly(SizeOf[v])
  <2>1. nextOff \in 0 .. BankSize[active]
      BY <1>2, <1>3, SizesPositive, BankAssumption
  <2> QED
      BY <1>4, <2>1
<1>7. DeviceSound'
    BY <1>2, <1>5, LiveSound DEF Agrees
<1> QED
    BY <1>5, <1>6, <1>7 DEF Recoverable, v

\* The record's type prefix changes nothing for a restart.
LEMMA AppendPrefixSound ==
    ASSUME Benign, IInv, IInv', DInv, AppendPrefix
    PROVE  DInv' /\ Recoverable' = Recoverable
<1> DEFINE image == PrefixImage(nextOff, call.val)
<1>1. /\ pc = "prefix" /\ Write(active, image) /\ pc' = "record"
      /\ UNCHANGED <<ram, call>>
      /\ isOpen /\ call # NoCall /\ CanIndex(indices, call.key) /\ active \in Banks
    BY Phase, StateTyped DEF AppendPrefix, Storing, locals, DInv, CallAgrees
<1>2. DOMAIN image = {nextOff} /\ image[nextOff] = TypeOnly(SizeOf[call.val])
    BY DEF PrefixImage
<1> HIDE DEF image
<1>3. /\ Readable(flash') /\ Recoverable' = Recoverable
      /\ Agrees(flash', active, generation, indices, nextOff)
      /\ flash'[active][nextOff] = TypeOnly(SizeOf[call.val])
    BY <1>1, <1>2, PrefixSound
<1>4. /\ RamAgrees' /\ isOpen' /\ call' # NoCall /\ active' \in Banks
      /\ CanIndex(indices', call'.key) /\ pc' \in Storing
      /\ flash'[active'][nextOff'] = TypeOnly(SizeOf[call'.val])
    BY <1>1, <1>3 DEF RamAgrees, ram, Storing
<1> QED
    BY <1>1, <1>3, <1>4, StoringSound

\* What a write of the record, or of part of it, leaves for a restart.
LEMMA RecordSound ==
    ASSUME Benign, IInv, IInv', DInv, pc = "record", NEW image, Write(active, image),
           DOMAIN image \subseteq nextOff .. nextOff + SizeOf[call.val] - 1,
           \A q \in DOMAIN image : image[q] = Fragment(call.key, call.val, q - nextOff),
           NEW taken, taken = Taken(indices, call.key, nextOff, SizeOf[call.val])
    PROVE  /\ DeviceSound'
           /\ Recoverable' = Recoverable
              \/ Recoverable' = [Recoverable EXCEPT ![call.key] = call.val]
           /\ DOMAIN image = nextOff .. nextOff + SizeOf[call.val] - 1 =>
                 /\ Recoverable' = [Recoverable EXCEPT ![call.key] = call.val]
                 /\ Agrees(flash', active, generation, taken, nextOff + SizeOf[call.val])
<1> DEFINE k == call.key
           v == call.val
           S == DOMAIN image
<1>1. /\ RamAgrees /\ Readable(flash) /\ CanIndex(indices, k)
      /\ flash[active][nextOff] = TypeOnly(SizeOf[v])
    BY Phase DEF Storing, DInv, CallAgrees
<1>2. /\ IsDevice(flash) /\ IsDevice(flash') /\ active \in Banks
      /\ Inactive(active) \in Banks /\ Inactive(active) # active
      /\ indices \in [Keys -> Entries] /\ nextOff \in Nat \ {0}
    BY StateTyped, DeviceAfter
<1>3. k \in Keys /\ v \in Values /\ nextOff + SizeOf[v] <= BankSize[active] + 1
    BY DEF IInv, TypeOK, CallConsistent
<1>4. /\ flash'[Inactive(active)] = flash[Inactive(active)]
      /\ \A q \in 0 .. BankSize[active] :
            flash'[active][q] = IF q \in S THEN Fragment(k, v, q - nextOff) ELSE flash[active][q]
    BY <1>2, WriteAt
<1>5. Overwritten(flash, flash', active, nextOff, k, v, S)
    BY <1>2, <1>4 DEF Overwritten
<1>6. taken = Taken(indices, k, nextOff, SizeOf[v])
    OBVIOUS
<1>7. Agrees(flash, active, generation, indices, nextOff) /\ GenModulus > 2
    BY <1>1 DEF RamAgrees, Benign
<1> HIDE DEF k, v, S
<1>8. /\ Readable(flash') /\ Live(flash', active)
      /\ HoldsRecord(flash'[active], nextOff, k, v) =>
            Agrees(flash', active, generation, taken, nextOff + SizeOf[v])
      /\ HoldsRecord(flash'[active], nextOff, k, v) =>
            RecoverableFrom(flash') = [RecoverableFrom(flash) EXCEPT ![k] = v]
      /\ ~ HoldsRecord(flash'[active], nextOff, k, v) =>
            RecoverableFrom(flash') = RecoverableFrom(flash)
      /\ S = nextOff .. nextOff + SizeOf[v] - 1 => HoldsRecord(flash'[active], nextOff, k, v)
    BY ONLY <1>1, <1>2, <1>3, <1>5, <1>6, <1>7, RecordWritten
<1>9. DeviceSound'
    BY <1>2, <1>8, LiveSound
<1>10. \/ RecoverableFrom(flash') = RecoverableFrom(flash)
       \/ RecoverableFrom(flash') = [RecoverableFrom(flash) EXCEPT ![k] = v]
    BY <1>8
<1>11. S = nextOff .. nextOff + SizeOf[v] - 1 =>
          /\ RecoverableFrom(flash') = [RecoverableFrom(flash) EXCEPT ![k] = v]
          /\ Agrees(flash', active, generation, taken, nextOff + SizeOf[v])
    BY <1>8
<1> QED
    BY <1>9, <1>10, <1>11 DEF Recoverable, k, v, S

\* The record written whole is the setting that a restart finds.
LEMMA AppendRecordSound ==
    ASSUME Benign, IInv, IInv', DInv, AppendRecord
    PROVE  DInv' /\ Recoverable' = [Recoverable EXCEPT ![call.key] = call.val]
<1> DEFINE image == RecordImage(nextOff, call.key, call.val)
           taken == Taken(indices, call.key, nextOff, SizeOf[call.val])
<1>1. /\ DOMAIN image = nextOff .. nextOff + SizeOf[call.val] - 1
      /\ \A q \in DOMAIN image : image[q] = Fragment(call.key, call.val, q - nextOff)
    BY DEF RecordImage
<1>2. /\ pc = "record" /\ Write(active, image) /\ indices' = taken
      /\ nextOff' = nextOff + SizeOf[call.val]
      /\ UNCHANGED <<active, generation>> /\ pc' = "idle" /\ call' = NoCall
    BY DEF AppendRecord, Answer, Taken
<1> HIDE DEF image, taken
<1>3. /\ DeviceSound'
      /\ Recoverable' = [Recoverable EXCEPT ![call.key] = call.val]
      /\ Agrees(flash', active, generation, taken, nextOff + SizeOf[call.val])
    BY <1>1, <1>2, RecordSound DEF taken
<1>4. RamAgrees'
    BY <1>2, <1>3 DEF RamAgrees
<1> QED
    BY <1>2, <1>3, <1>4, AnswerSound

-------------------------------------------------------------------------------
(* The steps of compact() *)

\* Clearing the destination leaves an empty copy.
LEMMA ClearSound ==
    ASSUME Benign, IInv, IInv', DInv, ClearDestination
    PROVE  DInv' /\ Recoverable' = Recoverable
<1> DEFINE d == Inactive(active)
           image == EraseImage(d)
<1>1. /\ pc = "clear" /\ Write(d, image) /\ todo' = Used(indices) /\ dest' = 1
      /\ pc' \in {"copy", "seal"} /\ UNCHANGED <<ram, call>>
      /\ RamAgrees /\ isOpen /\ call # NoCall
    BY Phase DEF ClearDestination, Storing
<1>2. /\ active \in Banks /\ d \in Banks /\ BankSize[d] \in Nat
    BY StateTyped, BankAssumption
<1>3. DOMAIN image = 0 .. BankSize[d] /\ \A q \in DOMAIN image : image[q] = Erased
    BY DEF EraseImage
<1> HIDE DEF image
<1>4. /\ Readable(flash') /\ Recoverable' = Recoverable
      /\ Agrees(flash', active, generation, indices, nextOff)
    BY <1>1, <1>3, EraseInactive
<1>5. \A q \in 0 .. BankSize[d] : flash'[d][q] = Erased
    BY <1>1, <1>2, <1>3, WriteAt
<1>6. Log(flash'[d], BankSize[d], 1) /\ flash'[d][0] = Erased
    BY <1>2, <1>5 DEF Log, Chain, ErasedFrom
<1>7. Copied'
  <2>1. active' = active /\ indices' = indices /\ Used(indices') \ todo' = {} /\ dest' = 1
      BY <1>1 DEF ram
  <2> QED
      BY <1>6, <2>1 DEF Copied
<1>8. /\ RamAgrees' /\ isOpen' /\ call' # NoCall /\ active' \in Banks
      /\ pc' \in Storing /\ pc' \notin {"prefix", "record"}
    BY <1>1, <1>2, <1>4 DEF RamAgrees, ram, Storing
<1> QED
    BY <1>4, <1>7, <1>8, StoringSound

\* What copying one record, or part of it, leaves for a restart.
LEMMA CopySound ==
    ASSUME Benign, IInv, IInv', DInv, pc = "copy", NEW key \in todo, NEW image,
           Write(Inactive(active), image),
           DOMAIN image \subseteq DOMAIN CopyImage(indices[key]),
           \A q \in DOMAIN image : image[q] = CopyImage(indices[key])[q]
    PROVE  /\ DeviceSound' /\ Readable(flash') /\ Recoverable' = Recoverable
           /\ Agrees(flash', active, generation, indices, nextOff)
           /\ DOMAIN image = DOMAIN CopyImage(indices[key])
              /\ dest + indices[key].size <= BankSize[Inactive(active)] + 1 =>
                 /\ flash'[Inactive(active)][0] = Erased
                 /\ Copies(flash'[Inactive(active)], BankSize[Inactive(active)],
                           dest + indices[key].size, flash[active], indices,
                           (Used(indices) \ todo) \cup {key})
<1> DEFINE d == Inactive(active)
           S == Used(indices) \ todo
           upto == dest + indices[key].size
<1>1. /\ IsDevice(flash) /\ IsDevice(flash') /\ Readable(flash) /\ Live(flash, active)
      /\ active \in Banks /\ d \in Banks /\ d # active /\ BankSize[d] \in Nat
      /\ indices \in [Keys -> Entries] /\ nextOff \in Nat \ {0} /\ dest \in Nat
      /\ flash[d] \in Contents(d) /\ flash'[d] \in Contents(d) /\ RamAgrees
    BY StateTyped, DeviceAfter, Phase, BankAssumption DEF IsDevice, Storing
<1>2. /\ flash'[active] = flash[active]
      /\ \A q \in 0 .. BankSize[d] :
            flash'[d][q] = IF q \in DOMAIN image THEN image[q] ELSE flash[d][q]
    BY <1>1, WriteAt
<1>3. flash[d][0] = Erased /\ Copies(flash[d], BankSize[d], dest, flash[active], indices, S)
    BY DEF DInv, CallAgrees, Copied, Copies
<1>4. dest >= 1
    BY <1>1, <1>3 DEF Copies, Log
<1>5. key \in Used(indices) /\ key \in Keys /\ indices[key] \in Entries
    BY <1>1 DEF IInv, CallConsistent, Used
<1>6. PICK val \in Values : /\ SizeOf[val] = indices[key].size
                            /\ HoldsRecord(flash[active], indices[key].off, key, val)
    BY <1>5, StateTyped DEF IndexesRecords
<1>7. SizeOf[val] \in Nat /\ SizeOf[val] >= 1 /\ indices[key].off \in Nat /\ upto \in Nat
    BY <1>1, <1>5, <1>6, SizesPositive DEF Entries
<1>8. /\ DOMAIN CopyImage(indices[key]) = dest .. upto - 1
      /\ \A q \in dest .. upto - 1 : CopyImage(indices[key])[q] = Fragment(key, val, q - dest)
  <2>1. DOMAIN CopyImage(indices[key]) = dest .. upto - 1
    <3>1. DOMAIN CopyImage(indices[key]) = dest .. dest + indices[key].size - 1
        BY DEF CopyImage
    <3>2. dest + indices[key].size - 1 = upto - 1
        BY <1>1, <1>6, <1>7
    <3> QED
        BY <3>1, <3>2
  <2>2. ASSUME NEW q \in dest .. upto - 1
        PROVE  CopyImage(indices[key])[q] = Fragment(key, val, q - dest)
    <3>1. q - dest \in 0 .. SizeOf[val] - 1
        BY <1>1, <1>6, <1>7
    <3>2. CopyImage(indices[key])[q] = flash[active][indices[key].off + (q - dest)]
        BY <2>1 DEF CopyImage
    <3> QED
        BY <1>6, <3>1, <3>2 DEF HoldsRecord
  <2> QED
      BY <2>1, <2>2
<1> HIDE DEF upto
<1>9. /\ \A q \in DOMAIN image : q >= dest /\ image[q] = Fragment(key, val, q - dest)
      /\ flash'[d][0] = Erased
  <2>1. \A q \in DOMAIN image : q >= dest /\ image[q] = Fragment(key, val, q - dest)
      BY <1>1, <1>7, <1>8
  <2> QED
      BY <1>1, <1>2, <1>3, <1>4, <2>1
<1>10. CopyWritten(flash[d], flash'[d], BankSize[d], dest, key, val, DOMAIN image)
    BY <1>1, <1>2, <1>9 DEF CopyWritten
<1> HIDE DEF S, d
<1>11. Held(flash'[d], BankSize[d]) \subseteq Used(indices)
  <2>1. S \subseteq Used(indices)
      BY DEF S
  <2> QED
      BY <1>1, <1>3, <1>5, <1>10, <2>1, CopyHeld
<1>12. Indexable(flash'[d], BankSize[d])
  <2>1. IsFiniteSet(Used(indices)) /\ Cardinality(Used(indices)) <= MaxSettings
      BY <1>1, AgreesRestart DEF Benign, RamAgrees
  <2> QED
      BY <1>11, <2>1, IndexableWithin
<1>13. /\ Readable(flash') /\ Live(flash', active)
       /\ RecoverableFrom(flash') = RecoverableFrom(flash)
       /\ Agrees(flash', active, generation, indices, nextOff)
    BY <1>1, <1>2, <1>9, <1>12, OtherWritten DEF Benign, RamAgrees, d
<1>14. ASSUME DOMAIN image = DOMAIN CopyImage(indices[key]), upto <= BankSize[d] + 1
       PROVE  Copies(flash'[d], BankSize[d], upto, flash[active], indices, S \cup {key})
  <2>1. upto = dest + SizeOf[val]
      BY <1>6 DEF upto
  <2>2. CopyWritten(flash[d], flash'[d], BankSize[d], dest, key, val, dest .. upto - 1)
      BY <1>8, <1>10, <1>14
  <2> QED
      BY <1>1, <1>3, <1>5, <1>6, <1>7, <1>14, <2>1, <2>2, CopyGrows
<1>15. DeviceSound'
    BY <1>1, <1>13, LiveSound
<1> QED
    BY <1>9, <1>13, <1>14, <1>15 DEF Recoverable, d, upto, S

\* Copying a record adds it to the copy, or ends the call with the bank untouched.
LEMMA CopyRecordSound ==
    ASSUME Benign, IInv, IInv', DInv, NEW key \in Keys, CopyRecord(key)
    PROVE  DInv' /\ Recoverable' = Recoverable
<1> DEFINE d == Inactive(active)
           image == CopyImage(indices[key])
           upto == dest + indices[key].size
<1>1. /\ pc = "copy" /\ key \in todo /\ key \in Used(indices)
      /\ RamAgrees /\ isOpen /\ call # NoCall /\ Readable(flash) /\ UNCHANGED ram
      /\ active \in Banks /\ d \in Banks /\ d # active
    BY Phase, StateTyped DEF CopyRecord, Storing, IInv, CallConsistent, Abort
<1>2. CASE UNCHANGED flash /\ pc' = "idle" /\ call' = NoCall
  <2>1. RamAgrees'
      BY <1>1, <1>2 DEF RamAgrees, ram
  <2> QED
      BY <1>2, <2>1, DeviceFrame, AnswerSound DEF DInv
<1>3. ASSUME Write(d, image)
      PROVE  /\ DeviceSound' /\ Readable(flash') /\ Recoverable' = Recoverable /\ RamAgrees'
             /\ upto <= BankSize[d] + 1 =>
                   /\ flash'[d][0] = Erased
                   /\ Copies(flash'[d], BankSize[d], upto, flash[active], indices,
                             (Used(indices) \ todo) \cup {key})
  <2>1. /\ DeviceSound' /\ Readable(flash') /\ Recoverable' = Recoverable
        /\ Agrees(flash', active, generation, indices, nextOff)
        /\ upto <= BankSize[d] + 1 =>
              /\ flash'[d][0] = Erased
              /\ Copies(flash'[d], BankSize[d], upto, flash[active], indices,
                        (Used(indices) \ todo) \cup {key})
    <3> HIDE DEF image
    <3> QED
        BY <1>1, <1>3, CopySound DEF image
  <2> QED
      BY <1>1, <2>1 DEF RamAgrees, ram
<1>4. CASE Write(d, image) /\ pc' = "idle" /\ call' = NoCall
    BY <1>3, <1>4, AnswerSound
<1>5. CASE /\ Write(d, image) /\ ~ (upto > BankSize[d] + 1)
           /\ todo' = todo \ {key} /\ dest' = upto /\ pc' \in {"copy", "seal"}
           /\ UNCHANGED call
  <2>1. flash'[active] = flash[active]
      BY <1>1, <1>5, WriteAt
  <2>2. upto <= BankSize[d] + 1
    <3>1. /\ dest \in Nat /\ indices[key].size \in Nat /\ BankSize[d] \in Nat
        BY <1>1, StateTyped, BankAssumption DEF Entries
    <3> QED
        BY <1>5, <3>1
  <2>3. (Used(indices) \ todo) \cup {key} = Used(indices) \ (todo \ {key})
      BY <1>1
  <2>4. /\ flash'[d][0] = Erased
        /\ Copies(flash'[d], BankSize[d], dest', flash'[active], indices,
                  Used(indices) \ todo')
      BY <1>3, <1>5, <2>1, <2>2, <2>3
  <2>5. Copied'
    <3>1. active' = active /\ indices' = indices
        BY <1>1 DEF ram
    <3> QED
        BY <2>4, <3>1 DEF Copied, Copies
  <2>6. /\ isOpen' /\ call' # NoCall /\ active' \in Banks
        /\ pc' \in Storing /\ pc' \notin {"prefix", "record"}
      BY <1>1, <1>5 DEF ram, Storing
  <2> QED
      BY <1>3, <1>5, <2>5, <2>6, StoringSound
<1> QED
  <2>1. CASE upto > BankSize[d] + 1
      BY <1>2, <2>1 DEF CopyRecord, Abort, Answer
  <2>2. CASE ~ (upto > BankSize[d] + 1)
    <3>1. Write(d, image)
        BY <2>2 DEF CopyRecord, Write
    <3>2. \/ pc' = "idle" /\ call' = NoCall
          \/ /\ todo' = todo \ {key} /\ dest' = upto /\ pc' \in {"copy", "seal"}
             /\ UNCHANGED call
        BY <2>2 DEF CopyRecord, Abort, Answer
    <3> QED
        BY <1>4, <1>5, <2>2, <3>1, <3>2
  <2> QED
      BY <2>1, <2>2

\* What the header that ends a compaction leaves for a restart.
LEMMA SealWritten ==
    ASSUME Benign, IInv, IInv', DInv, pc = "seal", NEW image,
           Write(Inactive(active), image),
           DOMAIN image = {0}, image[0] = Header(NextGeneration)
    PROVE  /\ DeviceSound' /\ Readable(flash') /\ Recoverable' = Recoverable
           /\ Live(flash', Inactive(active))
           /\ flash'[Inactive(active)][0] = Header(NextGeneration)
<1> DEFINE d == Inactive(active)
<1>1. RamAgrees /\ Readable(flash)
    BY Phase DEF Storing
<1>2. /\ IsDevice(flash) /\ IsDevice(flash') /\ active \in Banks
      /\ d \in Banks /\ d # active /\ BankSize[d] \in Nat
      /\ indices \in [Keys -> Entries] /\ nextOff \in Nat \ {0} /\ dest \in Nat
    BY StateTyped, DeviceAfter, BankAssumption
<1>3. Copies(flash[d], BankSize[d], dest, flash[active], indices, Used(indices))
  <2>1. todo = {} /\ Copied
      BY DEF IInv, CallConsistent, DInv, CallAgrees
  <2> QED
      BY <2>1 DEF Copied, Copies
<1>4. /\ flash'[active] = flash[active]
      /\ flash'[d][0] = Header(NextGeneration)
      /\ \A q \in 1 .. BankSize[d] : flash'[d][q] = flash[d][q]
    BY <1>2, WriteAt
<1>5. flash'[d][0] = Header((generation + 1) % GenModulus)
    BY <1>4 DEF NextGeneration
<1>6. /\ Agrees(flash, active, generation, indices, nextOff) /\ d = Inactive(active)
      /\ GenModulus > 2
    BY <1>1 DEF RamAgrees, Benign
<1> HIDE DEF d
<1>7. /\ Readable(flash') /\ Live(flash', d)
      /\ RecoverableFrom(flash') = RecoverableFrom(flash)
    BY <1>1, <1>2, <1>3, <1>4, <1>5, <1>6, Sealed
<1>8. DeviceSound'
    BY <1>2, <1>7, LiveSound
<1> QED
    BY <1>4, <1>7, <1>8 DEF Recoverable, d

\* The header hands the settings over to the copy, which is then read again.
LEMMA SealSound ==
    ASSUME Benign, IInv, IInv', DInv, Seal
    PROVE  DInv' /\ Recoverable' = Recoverable
<1> DEFINE d == Inactive(active)
           image == HeaderImage(NextGeneration)
<1>1. /\ pc = "seal" /\ Write(d, image)
      /\ active' = d /\ generation' = NextGeneration /\ indices' = EmptyIndex
      /\ nextOff' = 1 /\ pc' = "rescan" /\ UNCHANGED <<isOpen, call>>
      /\ isOpen /\ call # NoCall
    BY Phase DEF Seal, Storing
<1>2. DOMAIN image = {0} /\ image[0] = Header(NextGeneration)
    BY DEF HeaderImage
<1> HIDE DEF image
<1>3. /\ DeviceSound' /\ Recoverable' = Recoverable /\ Live(flash', d)
      /\ flash'[d][0] = Header(NextGeneration)
      /\ Readable(flash')
    BY <1>1, <1>2, SealWritten
<1>4. IsDevice(flash') /\ d \in Banks /\ BankSize[d] \in Nat
    BY StateTyped, DeviceAfter, BankAssumption
<1> HIDE DEF d
<1>5. Inspected(flash', active', RescanState')
  <2>1. /\ flash'[d][0].kind = "header" /\ flash'[d][0].gen = NextGeneration
        /\ flash'[d][0].kind # "unversioned"
      BY <1>3 DEF Header
  <2>2. HeaderRead(flash'[d]) = BankState("Scanning", NextGeneration)
    <3>1. 0 \in DOMAIN flash'[d]
        BY <1>4 DEF IsDevice, Contents
    <3>2. HeaderVerdict(flash'[d]) = "Ok"
        BY <2>1, <3>1 DEF HeaderVerdict, Erased
    <3> QED
        BY <2>1, <3>2 DEF HeaderRead
  <2>3. RescanState' = HeaderRead(flash'[d])
      BY <1>1, <2>2 DEF RescanState, BankState
  <2> QED
      BY <1>1, <1>4, <2>1, <2>3, InspectedFirst
<1>6. PhasesApart'
    BY <1>1 DEF PhasesApart, Storing, Opening
<1>7. CallAgrees'
    BY <1>1, <1>3, <1>5 DEF CallAgrees, Storing
<1> QED
    BY <1>3, <1>6, <1>7 DEF DInv

\* Reading the copy back rebuilds the index that a restart would have.
LEMMA RescanSound ==
    ASSUME Benign, IInv, IInv', DInv, Rescan
    PROVE  DInv' /\ Recoverable' = Recoverable /\ UNCHANGED <<call, reply>>
<1> DEFINE st == ScanStep(flash[active], BankSize[active], RescanState)
<1>1. /\ pc = "rescan" /\ UNCHANGED <<flash, active, generation>>
      /\ indices' = st.idx /\ nextOff' = st.next
      /\ Live(flash, active) /\ Inspected(flash, active, RescanState)
      /\ isOpen /\ call # NoCall /\ Readable(flash)
    BY DEF Rescan, RescanState, DInv, CallAgrees, PhasesApart, DeviceSound
<1>2. /\ IsDevice(flash) /\ active \in Banks /\ flash[active][0] \in Cells
      /\ indices \in [Keys -> Entries] /\ nextOff \in Nat \ {0} /\ generation \in Generations
  <2>1. /\ IsDevice(flash) /\ active \in Banks /\ generation \in Generations
        /\ indices \in [Keys -> Entries] /\ nextOff \in Nat \ {0}
      BY StateTyped
  <2>2. flash[active] \in Contents(active) /\ 0 \in 0 .. BankSize[active]
      BY <2>1, BankAssumption DEF IsDevice
  <2>3. flash[active][0] \in Cells
      BY <2>2 DEF Contents
  <2> QED
      BY <2>1, <2>3
<1>3. RescanState \in BankStates /\ RescanState.res = "Scanning"
      /\ RescanState.gen = generation
    BY <1>2 DEF RescanState, BankStates, Verdicts
<1>4. Inspected(flash, active, st) /\ st \in BankStates
    BY <1>1, <1>2, <1>3, InspectedNext
<1>5. /\ flash[active][0].kind = "header" /\ flash[active][0].gen = generation
      /\ st.gen = generation /\ st.res \in {"Scanning", "Ok", "CorruptData"}
    BY <1>1, <1>3, <1>4 DEF Live, Inspected
<1>6. DeviceSound' /\ Recoverable' = Recoverable
    BY <1>1, DeviceFrame DEF DInv
<1> HIDE DEF st
<1>7. CASE st.res = "Scanning"
  <2>1. UNCHANGED <<pc, isOpen, call, reply>>
      BY <1>7 DEF Rescan, st, RescanState, locals
  <2>2. RescanState' = st
      BY <1>1, <1>4, <1>5, <1>7 DEF RescanState, BankStates
  <2>3. Live(flash', active') /\ Inspected(flash', active', RescanState')
      BY <1>1, <1>4, <2>2
  <2>4. PhasesApart' /\ CallAgrees'
      BY <1>1, <2>1, <2>3 DEF PhasesApart, CallAgrees, Storing, Opening
  <2> QED
      BY <1>6, <2>1, <2>4 DEF DInv
<1>8. CASE st.res # "Scanning"
  <2>1. PICK e \in Nat : /\ e \in 1 .. BankSize[active] + 1
                         /\ Log(flash[active], BankSize[active], e)
      BY <1>1, <1>2, BankAssumption DEF Live
  <2>2. /\ st.res = "Ok" /\ st.next = e
        /\ IndexesRecords(flash[active], BankSize[active], st.idx, e)
        /\ Latest(flash[active], st.idx, e)
      BY <1>1, <1>2, <1>4, <1>8, <2>1, LiveInspected
  <2>3. flash[active][0] = Header(generation)
      BY <1>2, <1>5, HeaderCell
  <2>4. Agrees(flash, active, generation, st.idx, st.next)
      BY <1>1, <2>1, <2>2, <2>3 DEF Agrees, OpenLog
  <2>5. RamAgrees'
      BY <1>1, <2>4 DEF RamAgrees
  <2>6. pc' = "reappend" /\ UNCHANGED <<isOpen, call, reply>>
      BY <1>1, <2>2 DEF Rescan, st, RescanState, locals
  <2>7. /\ isOpen' /\ call' # NoCall /\ active' \in Banks /\ Readable(flash')
        /\ pc' \in Storing /\ pc' \notin {"prefix", "record", "copy", "seal"}
      BY <1>1, <1>2, <2>6 DEF Storing
  <2> QED
      BY <1>6, <2>5, <2>6, <2>7, StoringSound
<1> QED
    BY <1>7, <1>8

-------------------------------------------------------------------------------
(* Power losses and device errors *)

\* A write that no unit of survives changes nothing.
LEMMA NothingWritten ==
    ASSUME IInv, NEW b \in Banks, NEW image, Write(b, image), DOMAIN image = {}
    PROVE  UNCHANGED flash
<1>1. flash = [c \in Banks |-> flash[c]] /\ flash[b] \in Contents(b)
    BY DEF IInv, TypeOK
<1>2. Written(flash[b], image) = flash[b]
    BY <1>1 DEF Written, Contents
<1> QED
    BY <1>1, <1>2 DEF Write

\* A write that power loss interrupts leaves a sound device, with the settings as
\* they were or with the one that was being stored.
LEMMA InterruptedWrite ==
    ASSUME Benign, IInv, IInv', DInv, NEW w \in InFlight, NEW part \in Parts(w[2]),
           Write(w[1], part)
    PROVE  /\ DeviceSound'
           /\ \/ Recoverable' = Recoverable
              \/ call # NoCall /\ Recoverable' = [Recoverable EXCEPT ![call.key] = call.val]
<1> DEFINE image == w[2]
           d == Inactive(active)
<1>1. /\ active \in Banks /\ d \in Banks /\ "A" \in Banks /\ "B" \in Banks
      /\ IsDevice(flash) /\ IsDevice(flash') /\ Readable(flash)
      /\ indices \in [Keys -> Entries] /\ nextOff \in Nat \ {0}
    BY StateTyped, DeviceAfter, Phase DEF Banks
<1>2. /\ DOMAIN part \subseteq DOMAIN image
      /\ \A q \in DOMAIN part : q # 0 => part[q] = image[q]
      /\ 0 \in DOMAIN part => \/ part[0] = image[0]
                              \/ part[0] = Mangled("damaged") /\ MangledHeaders # {}
    BY TornWrite
<1>3. CASE DOMAIN part = {} /\ w[1] \in Banks
    BY <1>3, NothingWritten, DeviceFrame DEF DInv
<1>4. CASE pc = "format"
  <2>1. w = <<"A", HeaderImage(0)>>
      BY <1>4 DEF InFlight
  <2>2. DOMAIN image = {0} /\ image[0] = Header(0) /\ w[1] = "A"
      BY <2>1 DEF HeaderImage
  <2> HIDE DEF image
  <2>3. CASE 0 \notin DOMAIN part
      BY <1>1, <1>2, <1>3, <2>2, <2>3
  <2>4. CASE DOMAIN part = {0} /\ part[0] = Header(0)
      BY <1>4, <2>2, <2>4, FormatWritten
  <2>5. CASE DOMAIN part = {0} /\ part[0] = Mangled("damaged") /\ MangledHeaders # {}
    <3>1. /\ flash'["B"] = flash["B"] /\ flash'["A"][0] = Mangled("damaged")
          /\ \A q \in 1 .. BankSize["A"] : flash'["A"][q] = flash["A"][q]
        BY <1>1, <2>2, <2>5, WriteAt, BankAssumption
    <3>2. Virgin(flash)
        BY <1>4 DEF DInv, CallAgrees
    <3>3. /\ Readable(flash') /\ Virgin(flash')
          /\ RecoverableFrom(flash') = RecoverableFrom(flash)
        BY <1>1, <3>1, <3>2, StillVirgin
    <3> QED
        BY <2>5, <3>3 DEF DeviceSound, Recoverable
  <2> QED
      BY <1>2, <2>2, <2>3, <2>4, <2>5
<1>5. CASE pc \in {"recover", "clear"}
  <2>1. w = <<d, EraseImage(d)>> /\ RamAgrees
      BY <1>5, Phase DEF InFlight, Storing
  <2>2. /\ DOMAIN image = 0 .. BankSize[d] /\ \A q \in DOMAIN image : image[q] = Erased
        /\ w[1] = d
      BY <2>1 DEF EraseImage
  <2> HIDE DEF image
  <2>3. /\ DOMAIN part \subseteq 0 .. BankSize[d]
        /\ \A q \in DOMAIN part : q # 0 => part[q] = Erased
        /\ 0 \in DOMAIN part => part[0] \in {Erased, Mangled("damaged")}
      BY <1>2, <2>2
  <2> QED
      BY <2>1, <2>2, <2>3, EraseInactive
<1>6. CASE pc = "prefix"
  <2>1. w = <<active, PrefixImage(nextOff, call.val)>>
      BY <1>6 DEF InFlight
  <2>2. /\ DOMAIN image = {nextOff} /\ image[nextOff] = TypeOnly(SizeOf[call.val])
        /\ w[1] = active
      BY <2>1 DEF PrefixImage
  <2> HIDE DEF image
  <2>3. CASE nextOff \notin DOMAIN part
      BY <1>1, <1>2, <1>3, <2>2, <2>3
  <2>4. CASE nextOff \in DOMAIN part
    <3>1. DOMAIN part = {nextOff} /\ part[nextOff] = TypeOnly(SizeOf[call.val])
        BY <1>1, <1>2, <2>2, <2>4
    <3> QED
        BY <1>6, <2>2, <3>1, PrefixSound
  <2> QED
      BY <2>3, <2>4
<1>7. CASE pc = "record"
  <2>1. w = <<active, RecordImage(nextOff, call.key, call.val)>>
      BY <1>7 DEF InFlight
  <2>2. /\ DOMAIN image = nextOff .. nextOff + SizeOf[call.val] - 1 /\ w[1] = active
        /\ \A q \in DOMAIN image : image[q] = Fragment(call.key, call.val, q - nextOff)
      BY <2>1 DEF RecordImage
  <2>3. call # NoCall /\ call.val \in Values /\ SizeOf[call.val] \in Nat
    <3>1. call # NoCall
        BY <1>7, Phase DEF Storing
    <3>2. call.val \in Values
        BY <1>7 DEF IInv, TypeOK
    <3> QED
        BY <3>1, <3>2, SizesPositive
  <2> HIDE DEF image
  <2>4. /\ DOMAIN part \subseteq nextOff .. nextOff + SizeOf[call.val] - 1
        /\ \A q \in DOMAIN part : part[q] = Fragment(call.key, call.val, q - nextOff)
    <3>1. 0 \notin DOMAIN image
        BY <1>1, <2>2, <2>3
    <3> QED
        BY <1>2, <2>2, <3>1
  <2> QED
      BY <1>7, <2>2, <2>3, <2>4, RecordSound
<1>8. CASE pc = "copy"
  <2>1. PICK key \in todo : w = <<d, CopyImage(indices[key])>>
      BY <1>8 DEF InFlight
  <2>2. /\ image = CopyImage(indices[key]) /\ w[1] = d
      BY <2>1
  <2>3. 0 \notin DOMAIN image
    <3>1. dest \in Nat \ {0}
      <4>1. Copied
          BY <1>8 DEF DInv, CallAgrees
      <4> QED
          BY <1>1, <4>1, BankAssumption DEF Copied, Log
    <3>2. indices[key].size \in Nat
        BY <1>1, <2>1 DEF IInv, CallConsistent, Used, Entries
    <3> QED
        BY <2>2, <3>1, <3>2 DEF CopyImage
  <2> HIDE DEF image
  <2>4. /\ DOMAIN part \subseteq DOMAIN CopyImage(indices[key])
        /\ \A q \in DOMAIN part : part[q] = CopyImage(indices[key])[q]
      BY <1>2, <2>2, <2>3
  <2> QED
      BY <1>8, <2>2, <2>4, CopySound
<1>9. CASE pc = "seal"
  <2>1. w = <<d, HeaderImage(NextGeneration)>> /\ RamAgrees
      BY <1>9, Phase DEF InFlight, Storing
  <2>2. DOMAIN image = {0} /\ image[0] = Header(NextGeneration) /\ w[1] = d
      BY <2>1 DEF HeaderImage
  <2> HIDE DEF image
  <2>3. CASE 0 \notin DOMAIN part
      BY <1>1, <1>2, <1>3, <2>2, <2>3
  <2>4. CASE DOMAIN part = {0} /\ part[0] = Header(NextGeneration)
      BY <1>9, <2>2, <2>4, SealWritten
  <2>5. CASE DOMAIN part = {0} /\ part[0] = Mangled("damaged")
    <3>1. DOMAIN part \subseteq 0 .. BankSize[d]
        BY <1>1, <2>5, BankAssumption
    <3> QED
        BY <2>1, <2>2, <2>5, <3>1, EraseInactive
  <2> QED
      BY <1>2, <2>2, <2>3, <2>4, <2>5
<1> QED
    BY <1>4, <1>5, <1>6, <1>7, <1>8, <1>9 DEF InFlight

\* Power loss leaves a sound device, with the settings as they were or with the one
\* that was being stored.
LEMMA PowerLossSound ==
    ASSUME Benign, IInv, IInv', DInv, PowerLoss
    PROVE  /\ DInv'
           /\ \/ Recoverable' = Recoverable
              \/ call # NoCall /\ Recoverable' = [Recoverable EXCEPT ![call.key] = call.val]
<1>1. pc' = "idle" /\ call' = NoCall /\ ~ isOpen'
    BY DEF PowerLoss
<1>2. CASE UNCHANGED flash
    BY <1>1, <1>2, DeviceFrame, AnswerSound DEF DInv
<1>3. CASE \E w \in InFlight : \E part \in Parts(w[2]) : Write(w[1], part)
    BY <1>1, <1>3, InterruptedWrite, AnswerSound
<1> QED
    BY <1>2, <1>3 DEF PowerLoss

\* A device error ends the call with the settings as they were.
LEMMA ErrorSound ==
    ASSUME Benign, IInv, IInv', DInv, WriteError \/ ReadError \/ VerifyError
    PROVE  DInv' /\ Recoverable' = Recoverable
<1>1. Abort("StorageError") /\ pc' = "idle" /\ call' = NoCall /\ UNCHANGED ram
    BY DEF WriteError, ReadError, VerifyError, Abort, Answer
<1>2. pc \in Opening \/ (pc \in Storing /\ RamAgrees)
  <2>1. pc \in Opening \cup Storing
      BY DEF WriteError, ReadError, VerifyError, InFlight, Opening, Storing
  <2> QED
      BY <2>1, Phase
<1>3. CASE UNCHANGED flash
  <2>1. DeviceSound' /\ Recoverable' = Recoverable
      BY <1>3, DeviceFrame DEF DInv
  <2>2. isOpen' => RamAgrees'
      BY <1>1, <1>2, <1>3, Phase DEF RamAgrees, ram
  <2> QED
      BY <1>1, <2>1, <2>2, AnswerSound
<1>4. CASE VerifyError
  <2>1. PICK w \in InFlight : pc = "copy" /\ Write(w[1], w[2])
      BY <1>4 DEF VerifyError
  <2>2. PICK key \in todo : w = <<Inactive(active), CopyImage(indices[key])>>
      BY <2>1 DEF InFlight
  <2>3. Write(Inactive(active), CopyImage(indices[key]))
      BY <2>1, <2>2
  <2>4. /\ DeviceSound' /\ Recoverable' = Recoverable
        /\ Agrees(flash', active, generation, indices, nextOff)
      BY <2>1, <2>3, CopySound
  <2>5. RamAgrees'
      BY <1>1, <2>4 DEF RamAgrees, ram
  <2> QED
      BY <1>1, <2>4, <2>5, AnswerSound
<1> QED
    BY <1>3, <1>4 DEF WriteError, ReadError, Benign

-------------------------------------------------------------------------------
(* The caller *)

\* What an open store with no call running would load is what a restart would load.
LEMMA LoadsRecoverable ==
    ASSUME Benign, IInv, DInv, pc = "idle", isOpen, NEW k \in Keys
    PROVE  /\ k \notin Used(indices) => Recoverable[k] = NoValue
           /\ k \in Used(indices) => Loaded(k) \in Values /\ Recoverable[k] = Loaded(k)
<1>1. /\ IsDevice(flash) /\ Readable(flash) /\ active \in Banks /\ RamAgrees
      /\ indices \in [Keys -> Entries] /\ nextOff \in Nat \ {0}
      /\ IndexesRecords(flash[active], BankSize[active], indices, nextOff)
    BY StateTyped, Phase
<1>2. Recoverable = ValueAt(flash[active], indices)
    BY <1>1, AgreesRestart DEF RamAgrees, Benign, Recoverable
<1>3. ASSUME k \in Used(indices)
      PROVE  Loaded(k) \in Values /\ flash[active][indices[k].off].val = Loaded(k)
  <2> DEFINE holds(v) == SizeOf[v] = indices[k].size
                         /\ HoldsRecord(flash[active], indices[k].off, k, v)
  <2>1. \E v \in Values : holds(v)
      BY <1>1, <1>3 DEF IndexesRecords
  <2>2. Loaded(k) \in Values /\ holds(Loaded(k))
    <3>1. Loaded(k) = CHOOSE v \in Values : holds(v)
        BY <2>1 DEF Loaded
    <3> HIDE DEF holds
    <3> QED
        BY <2>1, <3>1
  <2>3. indices[k].off \in Nat
      BY <1>1 DEF Entries
  <2> QED
      BY <2>2, <2>3, RecordHead
<1> QED
    BY <1>2, <1>3 DEF ValueAt

\* A call that begins, or a load, leaves the device alone and the invariant true.
LEMMA CallerSound ==
    ASSUME IInv, IInv', DInv, Caller
    PROVE  DInv' /\ Recoverable' = Recoverable
<1>1. /\ pc = "idle" /\ UNCHANGED flash /\ call = NoCall
      /\ (isOpen => RamAgrees) /\ Readable(flash) /\ active \in Banks
    BY Phase, StateTyped DEF Caller, OpenCall, StoreCall, Load, LoadError
<1>2. DeviceSound' /\ Recoverable' = Recoverable
    BY <1>1, DeviceFrame DEF DInv
<1>3. ASSUME OpenCall PROVE DInv'
  <2>1. /\ pc' = "inspect" /\ ~ isOpen' /\ call' = NoCall
        /\ \A b \in Banks : found'[b].res = "Unread"
    <3>1. found' = NotInspected
        BY <1>1, <1>3 DEF OpenCall, locals, IInv, CallConsistent
    <3> QED
        BY <1>1, <1>3, <3>1 DEF OpenCall, locals, NotInspected, BankState
  <2> QED
      BY <1>2, <2>1, OpeningSound
<1>4. ASSUME NEW k \in Keys, NEW v \in Values, StoreCall(k, v), isOpen PROVE DInv'
  <2>1. /\ pc' = "append" /\ call' = [key |-> k, val |-> v] /\ UNCHANGED ram
      BY <1>4 DEF StoreCall
  <2>2. call' # NoCall
      BY <2>1, CallAssumption
  <2>3. /\ RamAgrees' /\ isOpen' /\ Readable(flash') /\ active' \in Banks
        /\ pc' \in Storing /\ pc' \notin {"prefix", "record", "copy", "seal"}
      BY <1>1, <1>4, <2>1 DEF RamAgrees, ram, Storing
  <2> QED
      BY <2>2, <2>3, StoringSound
<1>5. ASSUME UNCHANGED <<ram, pc, call>> PROVE DInv'
  <2>1. isOpen' => RamAgrees'
      BY <1>1, <1>5 DEF RamAgrees, ram
  <2> QED
      BY <1>1, <1>2, <1>5, <2>1, AnswerSound
<1> QED
  <2>1. \/ OpenCall
        \/ \E k \in Keys, v \in Values : StoreCall(k, v) /\ isOpen
        \/ UNCHANGED <<ram, pc, call>>
      BY DEF Caller, StoreCall, Load, LoadError, locals
  <2> QED
      BY <1>2, <1>3, <1>4, <1>5, <2>1

-------------------------------------------------------------------------------
(* The invariant *)

\* The store as constructed on an erased device.
LEMMA InitSound == Init => DInv /\ KV!Init
<1> SUFFICES ASSUME Init PROVE DInv /\ KV!Init
    OBVIOUS
<1>1. IsDevice(flash)
    BY InitInv, StateTyped
<1>2. \A b \in Banks : BankSize[b] \in Nat /\ \A p \in 0 .. BankSize[b] : flash[b][p] = Erased
    BY BankAssumption DEF Init
<1>3. Virgin(flash)
    BY <1>2 DEF Virgin, ErasedFrom, Banks
<1>4. Readable(flash)
  <2> SUFFICES ASSUME NEW b \in Banks
               PROVE  flash[b][0].kind # "unversioned" /\ Indexable(flash[b], BankSize[b])
      BY DEF Readable
  <2>1. Held(flash[b], BankSize[b]) = {}
      BY <1>3, ErasedHolds DEF Virgin
  <2>2. Indexable(flash[b], BankSize[b])
      BY <2>1, FS_EmptySet, CapacityAssumption DEF Indexable
  <2> QED
      BY <1>2, <2>2 DEF Erased
<1>5. DeviceSound
    BY <1>2, <1>3, <1>4 DEF DeviceSound, Banks
<1>6. DInv
    BY <1>5 DEF Init, DInv, PhasesApart, CallAgrees, Opening, Storing
<1>7. Recoverable = [k \in Keys |-> NoValue]
    BY <1>1, <1>3, <1>4, VirginRestart DEF Recoverable
<1> QED
    BY <1>6, <1>7 DEF Init, KV!Init

\* Every step keeps the invariant, and changes no setting but the one being stored.
LEMMA StepSound ==
    ASSUME Benign, IInv, DInv, [Next]_vars
    PROVE  /\ DInv'
           /\ \/ Recoverable' = Recoverable
              \/ call # NoCall /\ Recoverable' = [Recoverable EXCEPT ![call.key] = call.val]
<1>1. IInv'
    BY StepInv
<1>2. CASE OpenStep
    BY <1>1, <1>2, OpenStepSound
<1>3. CASE AppendStep
  <2>1. CASE AppendRecord
    <3>1. call # NoCall
        BY <2>1, Phase DEF AppendRecord, Storing
    <3> QED
        BY <1>1, <2>1, <3>1, AppendRecordSound
  <2> QED
      BY <1>1, <1>3, <2>1, AppendSound, AppendPrefixSound DEF AppendStep
<1>4. CASE CompactStep
    BY <1>1, <1>4, ClearSound, CopyRecordSound, SealSound, RescanSound DEF CompactStep
<1>5. CASE Caller
    BY <1>1, <1>5, CallerSound
<1>6. CASE Environment
  <2>1. ~ RescanError /\ \A b \in Banks : ~ Decay(b)
      BY DEF RescanError, Decay, Benign
  <2> QED
      BY <1>1, <1>6, <2>1, PowerLossSound, ErrorSound DEF Environment
<1>7. CASE UNCHANGED vars
  <2>1. DeviceSound' /\ Recoverable' = Recoverable
      BY <1>7, DeviceFrame DEF vars, DInv
  <2>2. PhasesApart'
      BY <1>7 DEF vars, ram, locals, DInv, PhasesApart
  <2>3. CallAgrees'
      BY <1>7 DEF vars, ram, locals, DInv, CallAgrees, RamAgrees, Copied, RescanState
  <2> QED
      BY <2>1, <2>2, <2>3 DEF DInv
<1> QED
    BY <1>2, <1>3, <1>4, <1>5, <1>6, <1>7 DEF Next

-------------------------------------------------------------------------------
(* The refinement, step by step *)

\* A call to open() that answers maps to Open, any other call to a store that fails.
LEMMA AnswerMaps ==
    ASSUME NEW res, Answer(res), res \in KV!Results, Recoverable' = Recoverable,
           call # NoCall => res # "Ok"
    PROVE  KV!Next
<1>1. CASE call = NoCall
  <2>1. KV!Open
      BY <1>1 DEF Answer, OpenReply, KV!Open, KV!OpenReply
  <2> QED
      BY <2>1 DEF KV!Next
<1>2. CASE call # NoCall
  <2>1. KV!StoreFails
      BY <1>2 DEF Answer, StoreReply, KV!StoreFails, KV!StoreReply
  <2> QED
      BY <2>1 DEF KV!Next
<1> QED
    BY <1>1, <1>2

\* The steps of open() map to Open or to stuttering.
LEMMA OpenStepMaps ==
    ASSUME Benign, IInv, IInv', DInv, OpenStep
    PROVE  [KV!Next]_(KV!vars)
<1>1. Recoverable' = Recoverable
    BY OpenStepSound
<1>2. call = NoCall
    BY Phase DEF OpenStep, InspectHeader, ScanRecord, RefuseBanks, SelectValid, Recover,
       SelectBlank, Format, SelectSalvage, Salvage, Opening
<1>3. \/ UNCHANGED <<call, reply>>
      \/ \E res \in {"Ok", "Recovered", "Blank", "CorruptData"} : Answer(res)
  <2>1. ~ RefuseBanks
      BY Verdict DEF RefuseBanks
  <2>2. Salvage => Answer("CorruptData")
      BY SalvageStep DEF Abort
  <2> QED
      BY <2>1, <2>2 DEF OpenStep, InspectHeader, ScanRecord, SelectValid, Recover, Opened,
         SelectBlank, Format, SelectSalvage
<1> QED
    BY <1>1, <1>2, <1>3, AnswerMaps DEF KV!vars, KV!Results

\* The steps of append() map to the end of a store, or to stuttering.
LEMMA AppendStepMaps ==
    ASSUME Benign, IInv, IInv', DInv, AppendStep
    PROVE  [KV!Next]_(KV!vars)
<1>1. call # NoCall
    BY Phase DEF AppendStep, Append, AppendPrefix, AppendRecord, Storing
<1>2. CASE AppendRecord
  <2>1. KV!StoreOk
      BY <1>1, <1>2, AppendRecordSound
         DEF AppendRecord, Answer, StoreReply, KV!StoreOk, KV!StoreReply, KV!Updated
  <2> QED
      BY <2>1 DEF KV!Next
<1>3. CASE Append \/ AppendPrefix
  <2>1. Recoverable' = Recoverable
      BY <1>3, AppendSound, AppendPrefixSound
  <2>2. UNCHANGED <<call, reply>> \/ Answer("NoSpace")
      BY <1>3 DEF Append, AppendPrefix, locals
  <2> QED
      BY <2>1, <2>2, AnswerMaps DEF KV!vars, KV!Results
<1> QED
    BY <1>2, <1>3 DEF AppendStep

\* The steps of compact() map to stuttering, or to a store that fails.
LEMMA CompactStepMaps ==
    ASSUME Benign, IInv, IInv', DInv, CompactStep
    PROVE  [KV!Next]_(KV!vars)
<1>1. Recoverable' = Recoverable
    BY ClearSound, CopyRecordSound, SealSound, RescanSound DEF CompactStep
<1>2. UNCHANGED <<call, reply>> \/ Answer("NoSpace") \/ Answer("CorruptData")
  <2>1. Rescan => UNCHANGED <<call, reply>>
      BY RescanSound
  <2> QED
      BY <2>1 DEF CompactStep, ClearDestination, CopyRecord, Seal, Abort
<1> QED
    BY <1>1, <1>2, AnswerMaps DEF KV!vars, KV!Results

\* The calls map to the calls: a load answers with what a restart would load.
LEMMA CallerMaps ==
    ASSUME Benign, IInv, IInv', DInv, Caller
    PROVE  [KV!Next]_(KV!vars)
<1>1. /\ Recoverable' = Recoverable /\ call = NoCall /\ pc = "idle"
    BY CallerSound, Phase DEF Caller, OpenCall, StoreCall, Load, LoadError
<1>2. ASSUME OpenCall PROVE KV!Next
  <2>1. KV!Open
      BY <1>1, <1>2 DEF OpenCall, locals, KV!Open
  <2> QED
      BY <2>1 DEF KV!Next
<1>3. ASSUME NEW k \in Keys, NEW v \in Values, StoreCall(k, v) PROVE KV!Next
  <2>1. KV!Begin(k, v) \/ KV!Refuse
      BY <1>1, <1>3 DEF StoreCall, StoreReply, KV!Begin, KV!Refuse, KV!StoreReply
  <2> QED
      BY <2>1 DEF KV!Next
<1>4. ASSUME NEW k \in Keys, Load(k) PROVE KV!Next
  <2>1. UNCHANGED call /\ NoValue \notin Values
      BY <1>4, NoValueAssumption DEF Load, locals
  <2>2. CASE ~ isOpen
    <3>1. KV!LoadFails(k)
        BY <1>1, <1>4, <2>1, <2>2 DEF Load, LoadReply, KV!LoadFails, KV!LoadReply
    <3> QED
        BY <3>1 DEF KV!Next
  <2>3. CASE isOpen
    <3>1. /\ k \notin Used(indices) => Recoverable[k] = NoValue
          /\ k \in Used(indices) => Loaded(k) \in Values /\ Recoverable[k] = Loaded(k)
        BY <1>1, <2>3, LoadsRecoverable
    <3>2. \/ reply' = LoadReply("NotFound", k, NoValue) /\ Recoverable[k] = NoValue
          \/ \E v \in Values : reply' = LoadReply("Ok", k, v) /\ Recoverable[k] = v
        BY <1>4, <2>1, <2>3, <3>1 DEF Load
    <3>3. KV!Load(k)
        BY <1>1, <2>1, <3>2 DEF LoadReply, KV!Load, KV!LoadReply
    <3> QED
        BY <3>3 DEF KV!Next
  <2> QED
      BY <2>2, <2>3
<1>5. ASSUME NEW k \in Keys, LoadError(k) PROVE KV!Next
  <2>1. KV!LoadFails(k)
      BY <1>1, <1>5 DEF LoadError, LoadReply, locals, KV!LoadFails, KV!LoadReply
  <2> QED
      BY <2>1 DEF KV!Next
<1> QED
    BY <1>2, <1>3, <1>4, <1>5 DEF Caller

\* Power loss maps to power loss, a device error to a call that fails.
LEMMA EnvironmentMaps ==
    ASSUME Benign, IInv, IInv', DInv, Environment
    PROVE  [KV!Next]_(KV!vars)
<1>1. CASE PowerLoss
  <2>1. KV!PowerLoss
      BY <1>1, PowerLossSound DEF PowerLoss, KV!PowerLoss, KV!Updated
  <2> QED
      BY <2>1 DEF KV!Next
<1>2. CASE WriteError \/ ReadError \/ VerifyError
  <2>1. Answer("StorageError") /\ Recoverable' = Recoverable
      BY <1>2, ErrorSound DEF WriteError, ReadError, VerifyError, Abort
  <2> QED
      BY <2>1, AnswerMaps DEF KV!Results
<1>3. ~ RescanError /\ \A b \in Banks : ~ Decay(b)
    BY DEF RescanError, Decay, Benign
<1> QED
    BY <1>1, <1>2, <1>3 DEF Environment

\* Every step of the store is a step of the map, or changes nothing of it.
LEMMA StepMaps ==
    ASSUME Benign, IInv, DInv, [Next]_vars
    PROVE  [KV!Next]_(KV!vars)
<1>1. IInv'
    BY StepInv
<1>2. CASE UNCHANGED vars
    BY <1>2 DEF vars, locals, KV!vars, Recoverable
<1> QED
    BY <1>1, <1>2, OpenStepMaps, AppendStepMaps, CompactStepMaps, CallerMaps, EnvironmentMaps
       DEF Next

-------------------------------------------------------------------------------
(* The theorems *)

\* Every sound device that has a log, or on which no header was torn, can be
\* opened; on one without a log there is nothing to load.
LEMMA SoundOpens ==
    ASSUME Benign, IsDevice(flash), DeviceSound
    PROVE  /\ DOMAIN Recoverable = Keys
           /\ ~ Virgin(flash) \/ MangledHeaders = {} => Openable
           /\ Virgin(flash) => ~ HoldsSettings
<1>1. Readable(flash)
    BY DEF DeviceSound
<1>2. CASE Virgin(flash)
  <2>1. Recoverable = [k \in Keys |-> NoValue] /\ (flash["A"][0] = Erased => Openable)
      BY <1>1, <1>2, VirginRestart DEF Recoverable, Openable
  <2> QED
      BY <1>2, <2>1 DEF DeviceSound, HoldsSettings
<1>3. CASE ~ Virgin(flash)
  <2>1. PICK b \in Banks : Live(flash, b)
      BY <1>3 DEF DeviceSound
  <2>2. PICK e \in Nat : Log(flash[b], BankSize[b], e)
    <3>1. BankSize[b] \in Nat
        BY BankAssumption
    <3> QED
        BY <2>1, <3>1 DEF Live
  <2>3. PICK idx \in [Keys -> Entries] :
          IndexesRecords(flash[b], BankSize[b], idx, e) /\ Latest(flash[b], idx, e)
      BY <1>1, <2>1, <2>2, LiveIndex
  <2>4. OpenableDevice(flash) /\ RecoverableFrom(flash) = ValueAt(flash[b], idx)
      BY <1>1, <2>1, <2>2, <2>3, LiveRestart DEF Benign
  <2> QED
      BY <1>3, <2>4 DEF Openable, Recoverable, ValueAt
<1> QED
    BY <1>2, <1>3

\* In every state the device is one that a restart can take over from, and the RAM
\* state is what it would find: at each step of open(), store() and compact(),
\* whatever a power failure has left of any earlier write.
THEOREM StoreAlwaysSound == Benign => (Spec => []DInv)
<1> SUFFICES ASSUME Benign PROVE Spec => []DInv
    OBVIOUS
<1>1. IInv /\ DInv /\ [Next]_vars => DInv'
    BY StepSound
<1>2. Init => DInv
    BY InitSound
<1> QED
    BY <1>1, <1>2, Invariance, PTL DEF Spec

\* While the store is open and idle, a restart adopts the same bank and builds the
\* same index, ending no earlier: what load() serves from RAM is what is stored.
THEOREM ReopenAlwaysAgrees == Benign => (Spec => []ReopenAgrees)
<1> SUFFICES ASSUME Benign PROVE Spec => []ReopenAgrees
    OBVIOUS
<1>1. ASSUME IInv, DInv PROVE ReopenAgrees
  <2> SUFFICES ASSUME isOpen, pc = "idle"
               PROVE  \E s \in Survivors :
                         /\ ~ s.salvaged
                         /\ s.bank = active
                         /\ flash[active][0] = Header(generation)
                         /\ s.idx = indices
                         /\ nextOff <= s.next
      BY DEF ReopenAgrees
  <2>1. Readable(flash) /\ Agrees(flash, active, generation, indices, nextOff)
      BY <1>1, Phase DEF RamAgrees
  <2>2. PICK e \in Nat :
          /\ nextOff <= e
          /\ SurvivorsOn(flash) = {[bank |-> active, idx |-> indices, next |-> e,
                                    salvaged |-> FALSE]}
      BY <1>1, <2>1, StateTyped, AgreesRestart DEF Benign
  <2> QED
      BY <2>1, <2>2 DEF Agrees, Survivors
<1> QED
    BY <1>1, Invariance, StoreAlwaysSound, PTL

\* Two valid headers always have successive generations, also where the generation
\* wraps, so that open() tells the newer bank from the older one.
THEOREM GenerationsAlwaysAdjacent == Benign => (Spec => []GenerationsAdjacent)
<1> SUFFICES ASSUME Benign PROVE Spec => []GenerationsAdjacent
    OBVIOUS
<1>1. ASSUME IInv, DInv PROVE GenerationsAdjacent
  <2> SUFFICES ASSUME \A b \in Banks : flash[b][0].kind = "header"
               PROVE  /\ flash["A"][0].gen # flash["B"][0].gen
                      /\ \/ flash["A"][0].gen = (flash["B"][0].gen + 1) % GenModulus
                         \/ flash["B"][0].gen = (flash["A"][0].gen + 1) % GenModulus
      BY DEF GenerationsAdjacent
  <2>1. PICK b \in Banks : Live(flash, b)
    <3>1. ~ Virgin(flash)
        BY DEF Virgin, Banks, Erased
    <3> QED
        BY <1>1, <3>1 DEF DInv, DeviceSound
  <2> DEFINE g == flash[Inactive(b)][0].gen
  <2>2. Inactive(b) \in Banks /\ {b, Inactive(b)} = Banks
      BY DEF Inactive, Banks
  <2>3. flash[b][0].gen = (g + 1) % GenModulus
      BY <2>1, <2>2 DEF Live
  <2>4. g \in Generations
    <3>1. flash[Inactive(b)] \in Contents(Inactive(b)) /\ BankSize[Inactive(b)] \in Nat
        BY <1>1, <2>2, BankAssumption DEF IInv, TypeOK
    <3>2. flash[Inactive(b)][0] \in Cells /\ flash[Inactive(b)][0].kind = "header"
        BY <2>2, <3>1 DEF Contents
    <3> QED
        BY <3>2, CellFields
  <2> HIDE DEF g
  <2>5. (g + 1) % GenModulus # g
      BY <2>4, GenerationAssumption DEF Generations, Benign
  <2> QED
      BY <2>2, <2>3, <2>5 DEF g, Banks, Inactive
<1> QED
    BY <1>1, Invariance, StoreAlwaysSound, PTL

\* The store implements the map of SettingsKV: a store() that answers Ok is what a
\* restart loads, one that fails or that power cuts off leaves the old or the new
\* value, and nothing else that the store does changes a setting.
THEOREM StoreRefines == Benign => (Spec => Refines)
<1> SUFFICES ASSUME Benign PROVE Spec => Refines
    OBVIOUS
<1>1. Init => KV!Init
    BY InitSound
<1>2. IInv /\ DInv /\ [Next]_vars => [KV!Next]_(KV!vars)
    BY StepMaps
<1> QED
    BY <1>1, <1>2, Invariance, StoreAlwaysSound, PTL DEF Spec, Refines, KV!Spec

\* A device that holds a setting is openable after every step: no interruption of
\* store(), compact() or open() locks settings up.
THEOREM SettingsAlwaysReachable == Benign => (Spec => SettingsStayReachable)
<1> SUFFICES ASSUME Benign PROVE Spec => SettingsStayReachable
    OBVIOUS
<1>1. ASSUME IInv, DInv, [Next]_vars, HoldsSettings PROVE Openable'
  <2>1. PICK k \in Keys : Recoverable[k] # NoValue
      BY <1>1 DEF HoldsSettings
  <2>2. DOMAIN Recoverable = Keys
      BY <1>1, SoundOpens, StateTyped DEF DInv
  <2>3. call # NoCall => call.val \in Values
      BY <1>1 DEF IInv, TypeOK
  <2>4. Recoverable'[k] # NoValue
      BY <1>1, <2>1, <2>2, <2>3, StepSound, NoValueAssumption
  <2>5. ~ Virgin(flash')
    <3>1. IsDevice(flash') /\ Readable(flash')
        BY <1>1, StepInv, StepSound, DeviceAfter DEF DInv, DeviceSound
    <3> QED
        BY <2>4, <3>1, VirginRestart DEF Recoverable
  <2>6. (IsDevice(flash) /\ DeviceSound /\ ~ Virgin(flash) => Openable)'
      BY SoundOpens, PTL
  <2> QED
      BY <1>1, <2>5, <2>6, StepInv, StepSound, DeviceAfter DEF DInv
<1>2. IInv /\ DInv /\ [Next]_vars => [Openable' \/ ~ HoldsSettings]_vars
    BY <1>1
<1> QED
    BY <1>2, Invariance, StoreAlwaysSound, PTL DEF Spec, SettingsStayReachable

\* Where a header cannot be torn, a device is openable after every step, even one
\* that holds no settings yet.
THEOREM AlwaysOpenable == Benign /\ MangledHeaders = {} => (Spec => OpenableStays)
<1> SUFFICES ASSUME Benign, MangledHeaders = {} PROVE Spec => OpenableStays
    OBVIOUS
<1>1. IInv /\ DInv => Openable
    BY SoundOpens, StateTyped DEF DInv
<1>2. Openable' => [Openable' \/ ~ Openable]_vars
    OBVIOUS
<1> QED
    BY <1>1, <1>2, Invariance, StoreAlwaysSound, PTL DEF Spec, OpenableStays
================================================================================
