-------------------------- MODULE MessagePayloadRegistry --------------------------
(* The table of payload classes by message type and operation. It is static and    *)
(* only grows; a registration that is there already is compared with the class. A table *)
(* is a sequence of [msgType, opCode, class].                                        *)
EXTENDS Naturals, Sequences, SequencesExt

CONSTANTS MaxEntries, LongOpCodes   \* LongOpCodes: those a FixedString cannot hold

ASSUME CapacityAssumption == MaxEntries \in Nat

Entry(msgType, opCode, class) == [msgType |-> msgType, opCode |-> opCode, class |-> class]
Bound(table, msgType, opCode) == {i \in DOMAIN table : table[i].msgType = msgType /\ table[i].opCode = opCode}

\* registerType(): the table it leaves, and its answer.
Refuses(table, e) ==
    \/ e.msgType = "Unknown" \/ e.opCode = ""
    \/ Len(table) = MaxEntries \/ e.opCode \in LongOpCodes
\* Faulty variant of Registered: a later registration takes the place of an earlier.
Rebound(table, e) ==
    IF Refuses(table, e) THEN table
    ELSE Append(SelectSeq(table, LAMBDA t : t.msgType # e.msgType \/ t.opCode # e.opCode), e)
Registered(table, e) ==
    IF Bound(table, e.msgType, e.opCode) # {} \/ Refuses(table, e) THEN table ELSE Append(table, e)
Accepted(table, e) == e \in ToSet(Registered(table, e))

\* create(): the first entry that matches.
PayloadClass(table, msgType, opCode, none) ==
    LET bound == Bound(table, msgType, opCode)
    IN  IF bound = {} THEN none ELSE table[CHOOSE i \in bound : \A j \in bound : i <= j].class

\* registerDefaultMessagePayloads(): three registrations, whatever each answers.
DefaultTypes ==
    <<Entry("response", "read.device", "Device"), Entry("request", "write.settings", "WriteSettings"),
      Entry("response", "write.settings", "WriteSettingsResult")>>
WithDefaults(table) ==
    Registered(Registered(Registered(table, DefaultTypes[1]), DefaultTypes[2]), DefaultTypes[3])
===================================================================================
