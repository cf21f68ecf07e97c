--------------------------- MODULE SettingsDurability ---------------------------
(* The store against its restarts. The store is right when what a restart would *)
(* find on the device agrees with the index in RAM, and when, seen through it,  *)
(* the store is the map of SettingsKV.                                          *)
EXTENDS SettingsStore, SettingsRestart

Survivors == SurvivorsOn(flash)
Openable == OpenableDevice(flash)
Recoverable == RecoverableFrom(flash)

-------------------------------------------------------------------------------
(* Refinement *)

KV == INSTANCE SettingsKV WITH kv <- Recoverable

\* The store implements the abstract map: a store() answered Ok is what a restart
\* loads; a failed or interrupted store() leaves the old or the new value; no
\* compaction, recovery, salvage or torn write changes any other setting; and
\* load() returns what a restart would.
Refines == KV!Spec

-------------------------------------------------------------------------------
(* The store agrees with a restart *)

\* While the store is open and no call runs, a restart would adopt the same bank
\* and index the same records. The end of its scan may lie beyond the RAM offset
\* only by a record whose write failed.
ReopenAgrees ==
    isOpen /\ pc = "idle" =>
        \E s \in Survivors :
            /\ ~ s.salvaged
            /\ s.bank = active
            /\ flash[active][0] = Header(generation)
            /\ s.idx = indices
            /\ nextOff <= s.next

\* While both banks have a valid header, one is the successor of the other, so
\* the signed comparison of generations orders them even when they wrap.
GenerationsAdjacent ==
    LET gen(b) == flash[b][0].gen
    IN (\A b \in Banks : flash[b][0].kind = "header") =>
            /\ gen("A") # gen("B")
            /\ \/ gen("A") = (gen("B") + 1) % GenModulus
               \/ gen("B") = (gen("A") + 1) % GenModulus

\* No step makes a device unopenable: whatever store(), compact() or open() was
\* doing when power failed, or which device call failed, a later open() succeeds.
OpenableStays == [][Openable' \/ ~ Openable]_vars

\* Some setting could be loaded after a restart; the device is openable then.
HoldsSettings == \E k \in Keys : Recoverable[k] # NoValue

\* No step makes a device that holds settings unopenable: while there is something
\* to lose, every interruption of store(), compact() and open() is recovered from.
SettingsStayReachable ==
    [][Openable' \/ ~ HoldsSettings]_vars

-------------------------------------------------------------------------------
(* The invariant behind them *)

Opening == {"inspect", "salvage", "format", "recover"}
Storing == {"append", "reappend", "prefix", "record", "clear", "copy", "seal"}

\* The device holds nothing yet, or one bank holds the log and can be opened.
DeviceSound ==
    /\ Readable(flash)
    /\ Virgin(flash) \/ \E b \in Banks : Live(flash, b)
    /\ Virgin(flash) /\ MangledHeaders = {} => flash["A"][0] = Erased

\* Only store() compacts, and open() closes the store first.
PhasesApart ==
    /\ pc \in Storing \cup {"rescan"} <=> call # NoCall
    /\ pc \in Storing \cup {"rescan"} => isOpen
    /\ pc \in Opening => ~ isOpen

RamAgrees == Agrees(flash, active, generation, indices, nextOff)

\* The copy that compact() fills: a log of exactly the records copied so far.
Copied ==
    LET d == Inactive(active) IN
    /\ flash[d][0] = Erased
    /\ Log(flash[d], BankSize[d], dest)
    /\ \A k \in Keys, v \in Values :
          (\E p \in 1 .. dest - 1 : Intact(flash[d], dest, p, k, v))
          <=> k \in Used(indices) \ todo /\ HoldsRecord(flash[active], indices[k].off, k, v)

RescanState ==
    [res |-> "Scanning", gen |-> generation, idx |-> indices, next |-> nextOff]

\* What the running call knows of the device.
CallAgrees ==
    /\ pc = "inspect" =>
          \A b \in Banks : found[b].res # "Unread" => Inspected(flash, b, found[b])
    /\ pc \in {"salvage", "format"} => Virgin(flash)
    /\ pc = "format" => flash["A"][0] = Erased
    /\ pc \in Storing \cup {"recover"} \/ (pc = "idle" /\ isOpen) => RamAgrees
    /\ pc \in {"prefix", "record"} => CanIndex(indices, call.key)
    /\ pc = "record" => flash[active][nextOff] = TypeOnly(SizeOf[call.val])
    /\ pc \in {"copy", "seal"} => Copied
    /\ pc = "rescan" => Live(flash, active) /\ Inspected(flash, active, RescanState)

\* While the device loses power and fails cleanly (no write half-done by an error,
\* no failed flush, no decay), each state of the store is one that a restart can
\* take over from.
DInv == DeviceSound /\ PhasesApart /\ CallAgrees

-------------------------------------------------------------------------------
(* Liveness *)

\* When power failures cease, the store is opened again and again: open()
\* terminates, and no contents the store leaves behind keep it closed.
Reopens == <>[][~ PowerLoss]_vars => []<>isOpen
===============================================================================
