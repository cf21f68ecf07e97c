----------------------------- MODULE SettingsRestart -----------------------------
(* What a restart finds: functions of the contents of a device, dev[b] for bank *)
(* b. They run open() to its answer over contents that nothing changes          *)
(* meanwhile: the bank open() would adopt and the settings it would index.      *)
EXTENDS SettingsLog

\* The scan of bank b that open() would run, once the header has been read as st.
ScanOf(dev, b, st) == Settled(dev[b], BankSize[b], st)

\* stateA and stateB of an open() that runs to its selection.
Inspection(dev) == [b \in Banks |-> ScanOf(dev, b, HeaderRead(dev[b]))]

\* salvagedA and salvagedB: only banks found corrupt are scanned again.
Salvaging(dev, insp) ==
    [b \in Banks |-> IF insp[b].res = "CorruptData"
                     THEN ScanOf(dev, b, BankState("Scanning", 0))
                     ELSE BankState("CorruptData", 0)]

\* The bank whose settings open() goes on to use, if there is one, with its scan.
Survivor(b, st, salvaged) ==
    [bank |-> b, idx |-> st.idx, next |-> st.next, salvaged |-> salvaged]

\* The survivor among banks inspected as insp, as a set of at most one.
Chosen(dev, insp) ==
    IF Refused(insp) THEN {}
    ELSE IF Valid(insp) # {} THEN {Survivor(Selected(insp), insp[Selected(insp)], FALSE)}
    ELSE UNION {IF Cardinality(Salvageable(salv)) # 1 THEN {}
                ELSE {Survivor(b, salv[b], TRUE) : b \in Salvageable(salv)} :
                salv \in {Salvaging(dev, insp)}}

SurvivorsOn(dev) == UNION {Chosen(dev, insp) : insp \in {Inspection(dev)}}

BlankDevice(dev) == \A b \in Banks : HeaderVerdict(dev[b]) = "Blank"

\* An open() that meets no fault succeeds.
OpenableDevice(dev) == BlankDevice(dev) \/ SurvivorsOn(dev) # {}

\* What the index of an opened bank reads back as.
SettingsIn(dev, s) ==
    LET holds(k, v) == SizeOf[v] = s.idx[k].size
                       /\ HoldsRecord(dev[s.bank], s.idx[k].off, k, v)
    IN [k \in Keys |-> IF k \in Used(s.idx) /\ \E v \in Values : holds(k, v)
                       THEN CHOOSE v \in Values : holds(k, v)
                       ELSE NoValue]

\* The settings that a restart would load.
RecoverableFrom(dev) ==
    CHOOSE kv \in UNION {IF S = {} THEN {[k \in Keys |-> NoValue]}
                         ELSE {SettingsIn(dev, s) : s \in S} : S \in {SurvivorsOn(dev)}} : TRUE

-------------------------------------------------------------------------------
(* The shape of a log: what a bank must look like for its scan to find every    *)
(* record that was written whole                                                *)

IsHead(bank, p) == HeadSize(bank[p]) # 0
EndOf(bank, p) == p + HeadSize(bank[p])

\* From position 1 on, each head leads to another one or to next, and no head lies
\* within the units that another one claims.
Chain(bank, next) ==
    /\ next = 1 \/ IsHead(bank, 1)
    /\ \A p \in 1 .. next - 1 : IsHead(bank, p) =>
          /\ EndOf(bank, p) <= next
          /\ EndOf(bank, p) # next => IsHead(bank, EndOf(bank, p))
          /\ \A q \in p + 1 .. EndOf(bank, p) - 1 : ~ IsHead(bank, q)

ErasedFrom(bank, size, p) == \A q \in p .. size : bank[q] = Erased

\* A log that ends at next, with nothing behind it.
Log(bank, size, next) ==
    /\ next \in 1 .. size + 1
    /\ Chain(bank, next)
    /\ ErasedFrom(bank, size, next)

\* A log that ends at next but for a type prefix whose record is not written yet.
Pending(bank, size, next) ==
    /\ next \in 1 .. size
    /\ Chain(bank, next)
    /\ bank[next].kind = "type"
    /\ EndOf(bank, next) <= size + 1
    /\ ErasedFrom(bank, size, next + 1)

OpenLog(bank, size, next) == Log(bank, size, next) \/ Pending(bank, size, next)

\* A record of k and v lies whole at p, below next.
Intact(bank, next, p, k, v) ==
    /\ p \in 1 .. next - 1
    /\ p + SizeOf[v] <= next
    /\ HoldsRecord(bank, p, k, v)

\* The index has no older record of a key than the last one below next.
Latest(bank, idx, next) ==
    \A k \in Keys :
        /\ k \notin Used(idx) => idx[k] = Unused
        /\ \A p \in 1 .. next - 1, v \in Values :
              Intact(bank, next, p, k, v) => p <= idx[k].off

\* The keys with a whole record anywhere in the bank; a scan can index them all.
Held(bank, size) ==
    {k \in Keys : \E p \in 1 .. size, v \in Values : Intact(bank, size + 1, p, k, v)}

Indexable(bank, size) ==
    /\ IsFiniteSet(Held(bank, size))
    /\ Cardinality(Held(bank, size)) <= MaxSettings

\* How far a scan has come in a log that ends at e.
Reached(bank, st, e) ==
    /\ st.res \in {"Scanning", "Ok"}
    /\ st.next = e \/ (st.next < e /\ IsHead(bank, st.next))
    /\ st.res = "Ok" => st.next = e
    /\ Latest(bank, st.idx, st.next)

\* What inspection knows of bank b once its header has been read: the verdict, or
\* the state of a scan that finds all of a log.
Inspected(dev, b, st) ==
    IF dev[b][0].kind = "header"
    THEN /\ st.res \in {"Scanning", "Ok", "CorruptData"}
         /\ st.gen = dev[b][0].gen
         /\ IndexesRecords(dev[b], BankSize[b], st.idx, st.next)
         /\ \A e \in 1 .. BankSize[b] + 1 :
               Log(dev[b], BankSize[b], e) => Reached(dev[b], st, e)
    ELSE st = HeaderRead(dev[b])

-------------------------------------------------------------------------------
(* The states of a device between power losses                                  *)

\* Bank b holds a log under a valid header that is newer than any other one.
Live(dev, b) ==
    /\ dev[b][0].kind = "header"
    /\ \E e \in 1 .. BankSize[b] + 1 : Log(dev[b], BankSize[b], e)
    /\ dev[Inactive(b)][0].kind = "header" =>
          dev[b][0].gen = (dev[Inactive(b)][0].gen + 1) % GenModulus

\* Nothing has been stored: the first header is missing or was torn.
Virgin(dev) ==
    /\ \A b \in Banks : ErasedFrom(dev[b], BankSize[b], 1)
    /\ dev["A"][0] \in {Erased, Mangled("damaged")}
    /\ dev["B"][0] = Erased

\* No bank holds a header of another version, or more keys than the index can.
Readable(dev) ==
    \A b \in Banks : dev[b][0].kind # "unversioned" /\ Indexable(dev[b], BankSize[b])

\* The RAM state of an open store is what a restart of the device would find, up
\* to a prefix without a record.
Agrees(dev, b, g, idx, next) ==
    /\ Live(dev, b)
    /\ dev[b][0] = Header(g)
    /\ IndexesRecords(dev[b], BankSize[b], idx, next)
    /\ Latest(dev[b], idx, next)
    /\ OpenLog(dev[b], BankSize[b], next)
==================================================================================
